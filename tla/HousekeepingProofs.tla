------------------------- MODULE HousekeepingProofs -------------------------
(* The two components that clear away what is not needed any more, and the   *)
(* promises that nothing which is still needed goes with it.                 *)
(*                                                                           *)
(* Compaction, for any number of memories, processes and candidates, any     *)
(* lengths of texts and any number of writes: each part of the invariant     *)
(* says what a process in the middle of a scan, a review or a merge may      *)
(* still rely on; each is proved of all actions in one lemma.                *)
(*                                                                           *)
(* The terminals, for any number of sessions, clients and faults, any length *)
(* of output and of scrollback: each part of the invariant is proved of the  *)
(* steps of a session in one lemma and of those of a client in another.      *)
EXTENDS Compaction, Terminal, FiniteSetTheorems, SequenceTheorems, TLAPS

-----------------------------------------------------------------------------
(* Compaction.                                                               *)

Rows == [status : Statuses, sources : SUBSET Memories, snapshot : Versions,
         words : Versions, expired : BOOLEAN, nudges : 0 .. MaxNudges]

Summaries == [made : Nat, live : BOOLEAN, lists : SUBSET Memories,
              covers : Versions]

LEMMA Constants ==
    /\ None \notin Texts /\ None \notin Candidates /\ None \notin Memories
    /\ Texts \subseteq Nat /\ 0 \in Texts /\ Candidates \subseteq Nat
BY CompactionAssumption DEF Texts, Candidates

LEMMA VersionTypes ==
    ASSUME text \in Versions
    PROVE  /\ Nothing \in Versions
           /\ \A S \in SUBSET Memories : Take(S) \in Versions
           /\ \A v \in Versions : Taken(v) \subseteq Memories
BY DEF Versions, Nothing, Take, Taken

LEMMA NoRowType == NoRow \in Rows
BY CompactionAssumption DEF NoRow, Rows, Statuses, Versions, Nothing

LEMMA StaledType == \A c : Staled(c) \in Rows /\ Staled(c).status = "stale"
BY NoRowType DEF Staled, NoRow, Rows, Statuses

\* The processes' own variables keep their types when one rests or goes on.
LEMMA ProcessTypes ==
    ASSUME TypeOK, NEW p \in Processes
    PROVE  LET types ==
                 /\ pc' \in [Processes -> PCs]
                 /\ arg' \in [Processes -> Candidates \cup Memories \cup {None}]
                 /\ base' \in [Processes -> Versions]
                 /\ meta' \in [Processes -> Candidates \cup {None}]
                 /\ todo' \in [Processes -> SUBSET [row : Candidates,
                                      sources : SUBSET Memories,
                                      snapshot : Versions, old : BOOLEAN]]
           IN /\ Rest(p) => types
              /\ UNCHANGED process => types
              /\ \A there \in PCs, versions \in Versions,
                    what \in Candidates \cup Memories \cup {None} :
                    Go(p, there, what, versions) => types
<1> USE DEF TypeOK
<1>0. Nothing \in Versions /\ "idle" \in PCs BY VersionTypes DEF PCs
<1>1. ASSUME Rest(p)
      PROVE  /\ pc' \in [Processes -> PCs]
             /\ arg' \in [Processes -> Candidates \cup Memories \cup {None}]
             /\ base' \in [Processes -> Versions]
             /\ meta' \in [Processes -> Candidates \cup {None}]
             /\ todo' \in [Processes -> SUBSET [row : Candidates,
                                      sources : SUBSET Memories,
                                      snapshot : Versions, old : BOOLEAN]]
  BY <1>0, <1>1 DEF Rest
<1>2. ASSUME NEW there \in PCs, NEW versions \in Versions,
             NEW what \in Candidates \cup Memories \cup {None},
             Go(p, there, what, versions)
      PROVE  /\ pc' \in [Processes -> PCs]
             /\ arg' \in [Processes -> Candidates \cup Memories \cup {None}]
             /\ base' \in [Processes -> Versions]
             /\ UNCHANGED <<meta, todo>>
  BY <1>2 DEF Go
<1>3. QED BY <1>1, <1>2 DEF process

Asks(p) == pc[p] \in {"staging", "promoting", "applying"}

\* A process that has looked at a candidate or a memory knows which, and what it
\* will merge into was there when it read it.
ArgsFit ==
    \A p \in Processes :
        /\ Asks(p) => arg[p] \in Candidates /\ Status(arg[p]) # "none"
        /\ pc[p] = "marking" => arg[p] \in Candidates
        /\ pc[p] \in {"recalled", "merging"} => arg[p] \in Memories
        /\ pc[p] = "merging" => base[p][arg[p]] # None

LEMMA InitTypes == Init => TypeOK
<1> SUFFICES ASSUME Init PROVE TypeOK
  OBVIOUS
<1>1. text \in Versions
  BY Constants DEF Init, Versions
<1>2. Nothing \in Versions
  BY DEF Nothing, Versions
<1>3. NoSummary \in Summaries
  BY <1>2 DEF NoSummary, Summaries
<1>4. QED
  BY <1>1, <1>2, <1>3, NoRowType, CompactionAssumption
     DEF Init, TypeOK, Rows, Summaries, PCs

LEMMA ScanTypes ==
    ASSUME TypeOK, NEW p \in Processes, Scan(p)
    PROVE  TypeOK'
<1> USE DEF TypeOK
<1>1. CASE ReadActive(p)
  <2>1. \A c \in Active : c \in Candidates /\ row[c] \in Rows
    BY DEF Active, Rows
  <2>2. \A c \in Active :
           [row |-> c, sources |-> row[c].sources, snapshot |-> row[c].snapshot,
            old |-> row[c].expired]
           \in [row : Candidates, sources : SUBSET Memories,
                snapshot : Versions, old : BOOLEAN]
    BY <2>1 DEF Rows
  <2>3. todo' \in [Processes -> SUBSET [row : Candidates, sources : SUBSET Memories,
                                        snapshot : Versions, old : BOOLEAN]]
    BY <1>1, <2>2 DEF ReadActive
  <2>4. QED BY <1>1, <2>3 DEF ReadActive, memories, past, PCs
<1>2. CASE CheckRow(p)
  <2>1. PICK t \in todo[p] :
           /\ todo' = [todo EXCEPT ![p] = @ \ {t}]
           /\ \/ pc' = [pc EXCEPT ![p] = "marking"] /\ arg' = [arg EXCEPT ![p] = t.row]
              \/ UNCHANGED <<pc, arg>>
    BY <1>2 DEF CheckRow
  <2>2. t.row \in Candidates
    OBVIOUS
  <2>3. todo' \in [Processes -> SUBSET [row : Candidates, sources : SUBSET Memories,
                                        snapshot : Versions, old : BOOLEAN]]
    BY <2>1
  <2>4. arg' \in [Processes -> Candidates \cup Memories \cup {None}]
    BY <2>1, <2>2
  <2>5. pc' \in [Processes -> PCs]
    BY <2>1 DEF PCs
  <2>6. QED BY <1>2, <2>3, <2>4, <2>5 DEF CheckRow, memories, past
<1>3. CASE MarkRow(p)
  <2>1. row' \in [Candidates -> Rows]
    BY <1>3, StaledType DEF MarkRow, Rows
  <2>2. QED BY <1>3, <2>1 DEF MarkRow, memories, Rows, PCs
<1>4. CASE Find(p)
  <2>1. ASSUME NEW S \in SUBSET Memories, Go(p, "found", None, Take(S))
        PROVE  TypeOK'
    BY <1>4, <2>1, ProcessTypes, VersionTypes DEF Find, memories, past, PCs
  <2>2. CASE Rest(p) BY <1>4, <2>2, ProcessTypes DEF Find, memories, past
  <2>3. QED BY <1>4, <2>1, <2>2 DEF Find
<1>5. CASE Persist(p)
  <2>1. row' \in [Candidates -> Rows] /\ blurred' \subseteq Candidates
    <3> DEFINE S == Taken(base[p])
    <3>1. S \subseteq Memories /\ Take(S) \in Versions /\ base[p] \in Versions
      BY VersionTypes
    <3>2. [NoRow EXCEPT !.status = "pending_summary", !.sources = S,
                        !.snapshot = Take(S), !.words = base[p]] \in Rows
      BY <3>1, NoRowType DEF NoRow, Rows, Statuses
    <3> HIDE DEF S
    <3>3. CASE UNCHANGED <<row, blurred>> BY <3>3 DEF Rows
    <3>4. CASE \E c \in Candidates :
                 /\ row' = [d \in Candidates |->
                      IF d = c THEN [NoRow EXCEPT !.status = "pending_summary",
                               !.sources = S, !.snapshot = Take(S), !.words = base[p]]
                      ELSE IF d \in Overlapping(S) THEN Staled(d) ELSE row[d]]
                 /\ blurred' = IF Take(S) # base[p] THEN blurred \cup {c}
                               ELSE blurred
      BY <3>2, <3>4, StaledType DEF Rows
    <3>5. QED BY <1>5, <3>3, <3>4 DEF Persist, S
  <2>2. QED BY <1>5, <2>1, ProcessTypes DEF Persist, memories, Rows
<1>6. QED BY <1>1, <1>2, <1>3, <1>4, <1>5 DEF Scan

LEMMA ReviewTypes ==
    ASSUME TypeOK, ArgsFit, NEW p \in Processes, Review(p)
    PROVE  TypeOK'
<1> USE DEF TypeOK
<1>0. \A c \in Candidates : row[c] \in Rows
  BY DEF Rows
<1>1. CASE CheckStage(p)
  <2>1. PICK c \in Candidates :
           \/ Go(p, "staging", c, row[c].words) /\ UNCHANGED row
           \/ row' = [row EXCEPT ![c] = Staled(c)] /\ UNCHANGED process
    BY <1>1 DEF CheckStage
  <2>2. row[c].words \in Versions BY <1>0 DEF Rows
  <2>3. row' \in [Candidates -> Rows] BY <1>0, <2>1, StaledType DEF Rows
  <2>4. QED BY <1>1, <2>1, <2>2, <2>3, ProcessTypes
        DEF CheckStage, memories, past, Rows, PCs
<1>2. CASE CheckPromote(p)
  <2>1. PICK c \in Candidates :
           \/ Go(p, "promoting", c, Take(row[c].sources)) /\ UNCHANGED row
           \/ row' = [row EXCEPT ![c] = Staled(c)] /\ UNCHANGED process
    BY <1>2 DEF CheckPromote
  <2>2. Take(row[c].sources) \in Versions BY <1>0, VersionTypes DEF Rows
  <2>3. row' \in [Candidates -> Rows] BY <1>0, <2>1, StaledType DEF Rows
  <2>4. QED BY <1>2, <2>1, <2>2, <2>3, ProcessTypes
        DEF CheckPromote, memories, past, Rows, PCs
<1>3. CASE StoreSummary(p)
  <2>1. \A c \in Candidates :
           [row[c] EXCEPT !.status = "summary_staged", !.words = base[p]] \in Rows
    BY <1>0 DEF Rows, Statuses
  <2>2. row' \in [Candidates -> Rows]
    BY <1>0, <1>3, <2>1 DEF StoreSummary, Rows
  <2>3. QED BY <1>3, <2>2, ProcessTypes DEF StoreSummary, memories, past, Rows
<1>4. CASE CheckApply(p)
  <2>1. PICK c \in Candidates :
           \/ Go(p, "applying", c, Nothing) /\ UNCHANGED row
           \/ row' = [row EXCEPT ![c] = Staled(c)] /\ UNCHANGED process
    BY <1>4 DEF CheckApply
  <2>2. Nothing \in Versions BY VersionTypes
  <2>3. row' \in [Candidates -> Rows] BY <1>0, <2>1, StaledType DEF Rows
  <2>4. QED BY <1>4, <2>1, <2>2, <2>3, ProcessTypes
        DEF CheckApply, memories, past, Rows, PCs
<1>5. CASE ApplyRefused(p)
  <2>1. row' \in [Candidates -> Rows]
    BY <1>0, <1>5, StaledType DEF ApplyRefused, Rows
  <2>2. QED BY <1>5, <2>1, ProcessTypes DEF ApplyRefused, memories, past, Rows
<1>6. CASE Apply(p)
  <2> DEFINE c == arg[p]
             S == row[c].sources
  <2>1. row' \in [Candidates -> Rows]
    <3>1. [NoRow EXCEPT !.status = "applied"] \in Rows
      BY NoRowType DEF NoRow, Rows, Statuses
    <3>2. QED BY <1>0, <1>6, <3>1 DEF Apply, Rows
  <2>2. summary' \in [Candidates -> Summaries]
    <3>1. \A d \in Candidates : summary[d] \in Summaries /\ row[d].words \in Versions
                                /\ row[d].sources \subseteq Memories
      BY <1>0 DEF Rows, Summaries
    <3>2. \A d \in Candidates :
             [made |-> summary[d].made + 1, live |-> TRUE, lists |-> row[d].sources,
              covers |-> row[d].words] \in Summaries
      BY <3>1 DEF Summaries
    <3>3. QED BY <1>6, <3>1, <3>2 DEF Apply
  <2>3. into' \in [Memories -> Candidates \cup {None}]
    <3>1. c \in Candidates
      BY <1>6 DEF Apply, ArgsFit, Asks
    <3>2. QED BY <1>6, <3>1 DEF Apply
  <2>4. QED BY <1>6, <2>1, <2>2, <2>3, ProcessTypes DEF Apply, past, Rows, Summaries
<1>7. QED
  BY <1>1, <1>2, <1>3, <1>4, <1>5, <1>6 DEF Review

LEMMA WriteTypes ==
    ASSUME TypeOK, ArgsFit,
           NEW p \in Processes, Recall(p) \/ ReadForMerge(p) \/ Merge(p)
    PROVE  TypeOK'
<1> USE DEF TypeOK
<1>1. CASE Recall(p)
  <2>1. Nothing \in Versions BY VersionTypes
  <2>2. writes' \in 0 .. MaxWrites
    BY <1>1, CompactionAssumption DEF Recall, Counted
  <2>3. QED BY <1>1, <2>1, <2>2, ProcessTypes DEF Recall, memories, past, PCs
<1>2. CASE ReadForMerge(p)
  <2>1. CASE Rest(p) BY <1>2, <2>1, ProcessTypes DEF ReadForMerge, memories, past
  <2>2. CASE ~Rest(p)
    <3>1. arg[p] \in Memories BY <1>2 DEF ReadForMerge, ArgsFit
    <3>2. Take({arg[p]}) \in Versions BY <3>1, VersionTypes
    <3>3. QED BY <1>2, <2>2, <3>1, <3>2, ZenonT(60) DEF ReadForMerge, memories, past, PCs
  <2>3. QED BY <2>1, <2>2
<1>3. CASE Merge(p)
  <2>1. arg[p] \in Memories BY <1>3 DEF Merge, ArgsFit
  <2>2. text' \in Versions /\ touched' \subseteq Memories
    BY <1>3, <2>1, ZenonT(60) DEF Merge, Write, Versions
  <2>3. QED BY <1>3, <2>2, ProcessTypes DEF Merge, Rows
<1>4. QED BY <1>1, <1>2, <1>3

LEMMA StaleForType ==
    ASSUME TypeOK, NEW S
    PROVE  StaleFor(S) \in [Candidates -> Rows]
BY StaledType DEF StaleFor, TypeOK, Rows

LEMMA UserTypes ==
    ASSUME TypeOK,
           \/ Claim \/ DeleteSome
           \/ \E c \in Candidates : Expire(c) \/ Discard(c) \/ ReplaceSummary(c)
           \/ \E m \in Memories : Replace(m) \/ DropWithLog(m)
    PROVE  TypeOK'
<1> USE DEF TypeOK
<1>0. /\ row \in [Candidates -> Rows] /\ summary \in [Candidates -> Summaries]
      /\ (Counted => writes' \in 0 .. MaxWrites)
  BY CompactionAssumption DEF Rows, Summaries, Counted
<1>1. CASE Claim
  <2>1. \A c \in Candidates : row[c] \in Rows
    BY <1>0
  <2>2. \A c \in Candidates :
           [row[c] EXCEPT !.status = "nudge_exhausted", !.words = Nothing] \in Rows
    BY <2>1, VersionTypes DEF Rows, Statuses
  <2>3. \A c \in Candidates :
           ~Spent(c) => [row[c] EXCEPT !.nudges = @ + 1] \in Rows
    BY <2>1, CompactionAssumption DEF Rows, Spent
  <2>4. row' \in [Candidates -> Rows]
    BY <1>1, <2>1, <2>2, <2>3, StaledType DEF Claim
  <2>5. QED BY <1>1, <2>4 DEF Claim, memories, process, past, Rows
<1>2. CASE DeleteSome
  <2>1. PICK S \in SUBSET Memories, C \in SUBSET Candidates : Delete(S, C)
    BY <1>2 DEF DeleteSome
  <2>2. text' \in Versions /\ into' \in [Memories -> Candidates \cup {None}]
    BY <2>1 DEF Delete, Versions
  <2>3. summary' \in [Candidates -> Summaries]
    <3>1. NoSummary \in Summaries
      BY DEF NoSummary, Summaries, Nothing, Versions
    <3>2. \A c \in Candidates :
             /\ [NoSummary EXCEPT !.made = summary[c].made] \in Summaries
             /\ [summary[c] EXCEPT !.lists = @ \ S] \in Summaries
      BY <1>0, <3>1 DEF Summaries, NoSummary
    <3>3. QED BY <1>0, <2>1, <3>2 DEF Delete
  <2>4. touched' \subseteq Memories
    BY <2>1 DEF Delete, Restored
  <2>5. row' \in [Candidates -> Rows]
    BY <2>1, StaleForType DEF Delete
  <2>6. QED BY <1>0, <2>1, <2>2, <2>3, <2>4, <2>5
        DEF Delete, process, Rows, Summaries
<1>3. ASSUME NEW c \in Candidates, Expire(c) PROVE TypeOK'
  <2>1. row' \in [Candidates -> Rows]
    <3>1. [row[c] EXCEPT !.expired = TRUE] \in Rows
      BY <1>0, ZenonT(60) DEF Rows
    <3>2. QED BY <1>0, <1>3, <3>1 DEF Expire
  <2>2. QED BY <1>3, <2>1 DEF Expire, memories, process, past, Rows
<1>4. ASSUME NEW c \in Candidates, Discard(c) PROVE TypeOK'
  <2>1. [NoRow EXCEPT !.status = "discarded", !.sources = row[c].sources] \in Rows
    BY <1>0, NoRowType DEF NoRow, Rows, Statuses
  <2>2. row' \in [Candidates -> Rows]
    BY <1>0, <1>4, <2>1 DEF Discard
  <2>3. QED BY <1>4, <2>2 DEF Discard, memories, process, Rows
<1>5. ASSUME NEW c \in Candidates, ReplaceSummary(c) PROVE TypeOK'
  <2>1. summary' \in [Candidates -> Summaries]
    BY <1>0, <1>5 DEF ReplaceSummary, Summaries
  <2>2. QED BY <1>0, <1>5, <2>1 DEF ReplaceSummary, process, past, Summaries
<1>6. ASSUME NEW m \in Memories, Replace(m) PROVE TypeOK'
  <2>1. text' \in Versions /\ touched' \subseteq Memories
    BY <1>6 DEF Replace, Write, Versions
  <2>2. QED BY <1>0, <1>6, <2>1, StaleForType DEF Replace, process, Rows
<1>7. ASSUME NEW m \in Memories, DropWithLog(m) PROVE TypeOK'
  <2>1. text' \in Versions /\ into' \in [Memories -> Candidates \cup {None}]
    BY <1>7 DEF DropWithLog, Versions
  <2>2. touched' \subseteq Memories /\ dropped' \subseteq Memories
    BY <1>7 DEF DropWithLog
  <2>3. QED BY <1>0, <1>7, <2>1, <2>2 DEF DropWithLog, process
<1>8. QED
  BY <1>1, <1>2, <1>3, <1>4, <1>5, <1>6, <1>7

LEMMA NextTypes == TypeOK /\ ArgsFit /\ [Next]_vars => TypeOK'
<1> SUFFICES ASSUME TypeOK, ArgsFit, [Next]_vars PROVE TypeOK'
  OBVIOUS
<1>1. ASSUME NEW p \in Processes, Abandon(p) PROVE TypeOK'
  BY <1>1, ProcessTypes DEF Abandon, memories, past, TypeOK
<1>2. CASE UNCHANGED vars
  BY <1>2 DEF vars, memories, process, past, TypeOK
<1>3. QED
  BY <1>1, <1>2, ScanTypes, ReviewTypes, WriteTypes, UserTypes DEF Next

-----------------------------------------------------------------------------
(* All but four actions only take open candidates further or make them stale. *)

Kept(c) ==
    /\ c \in Open /\ c \in Open'
    /\ row'[c].sources = row[c].sources /\ row'[c].snapshot = row[c].snapshot

Quiet ==
    /\ \A c \in Candidates :
          \/ row'[c] = row[c]
          \/ Status(c) \notin {"none", "applied", "discarded"} /\ Status(c)' = "stale"
          \/ Kept(c)
    /\ \A c \in Candidates : /\ summary'[c].made = summary[c].made
                             /\ summary'[c].live => summary[c].live
    /\ UNCHANGED <<refused, overrun, blurred>>

\* Candidates keep their words until they are stored, and none is asked for again.
WordsKept ==
    \A c \in Active' :
        /\ c \in Active /\ row'[c].words = row[c].words
        /\ Status(c)' = "pending_summary" => Status(c) = "pending_summary"

LookAction(p) ==
    \/ ReadActive(p) \/ CheckRow(p) \/ Find(p) \/ Abandon(p)
    \/ Recall(p) \/ ReadForMerge(p) \/ Merge(p)

CheckAction(p) ==
    CheckStage(p) \/ CheckPromote(p) \/ CheckApply(p) \/ ApplyRefused(p)

UserAction ==
    \/ Claim \/ DeleteSome
    \/ \E c \in Candidates : Expire(c) \/ ReplaceSummary(c)
    \/ \E m \in Memories : Replace(m) \/ DropWithLog(m)

LEMMA RowFields ==
    ASSUME NEW r \in Rows, NEW there, NEW versions, NEW n
    PROVE  /\ [r EXCEPT !.status = there, !.words = versions].status = there
           /\ [r EXCEPT !.status = there, !.words = versions].sources = r.sources
           /\ [r EXCEPT !.status = there, !.words = versions].snapshot = r.snapshot
           /\ [r EXCEPT !.nudges = n].status = r.status
           /\ [r EXCEPT !.nudges = n].sources = r.sources
           /\ [r EXCEPT !.nudges = n].snapshot = r.snapshot
           /\ [r EXCEPT !.nudges = n].words = r.words
BY DEF Rows

LEMMA NextCases ==
    ASSUME [Next]_vars
    PROVE  \/ UNCHANGED vars \/ UserAction
           \/ \E p \in Processes : LookAction(p) \/ CheckAction(p) \/ StoreSummary(p)
                                   \/ MarkRow(p) \/ Persist(p) \/ Apply(p)
           \/ \E c \in Candidates : Discard(c)
BY DEF Next, Scan, Review, UserAction, LookAction, CheckAction

LEMMA LookIsQuiet ==
    ASSUME NEW p \in Processes, LookAction(p)
    PROVE  Quiet /\ WordsKept /\ UNCHANGED <<row, summary>>
<1>1. UNCHANGED <<row, summary, refused, overrun, blurred>>
  BY DEF LookAction, ReadActive, CheckRow, Find, Abandon, Recall, ReadForMerge,
         Merge, memories, past
<1>2. Active' = Active
  BY <1>1 DEF Active, Status
<1>3. QED BY <1>1, <1>2 DEF Quiet, WordsKept, Status

LEMMA StaledIsQuiet ==
    ASSUME TypeOK, NEW C \in SUBSET Candidates,
           \A c \in C : Status(c) \notin {"none", "applied", "discarded"},
           row' = [c \in Candidates |-> IF c \in C THEN Staled(c) ELSE row[c]]
    PROVE  /\ \A c \in Candidates :
                 row'[c] = row[c] \/ (c \in C /\ Status(c)' = "stale")
           /\ WordsKept
<1>1. \A c \in Candidates :
         row'[c] = row[c] \/ (c \in C /\ Status(c)' = "stale")
  BY StaledType DEF Status
<1>2. QED BY <1>1 DEF WordsKept, Active, Status

LEMMA CheckIsQuiet ==
    ASSUME TypeOK, ArgsFit, NEW p \in Processes, CheckAction(p)
    PROVE  Quiet /\ WordsKept
<1>1. UNCHANGED <<summary, refused, overrun, blurred>>
  BY DEF CheckAction, CheckStage, CheckPromote, CheckApply, ApplyRefused,
         memories, past
<1>2. PICK C \in SUBSET Candidates :
         /\ \A c \in C : Status(c) \notin {"none", "applied", "discarded"}
         /\ row' = [c \in Candidates |-> IF c \in C THEN Staled(c) ELSE row[c]]
  <2>0. row = [c \in Candidates |-> row[c]] BY DEF TypeOK
  <2>1. ASSUME UNCHANGED row
        PROVE  \E C \in SUBSET Candidates :
                  /\ \A d \in C : Status(d) \notin {"none", "applied", "discarded"}
                  /\ row' = [d \in Candidates |-> IF d \in C THEN Staled(d) ELSE row[d]]
    <3>1. row' = [d \in Candidates |-> IF d \in {} THEN Staled(d) ELSE row[d]]
      BY <2>0, <2>1
    <3>2. {} \in SUBSET Candidates OBVIOUS
    <3>3. QED BY <3>1, <3>2, Zenon
  <2>2. ASSUME NEW c \in Candidates, row' = [row EXCEPT ![c] = Staled(c)],
               Status(c) \notin {"none", "applied", "discarded"}
        PROVE  \E C \in SUBSET Candidates :
                  /\ \A d \in C : Status(d) \notin {"none", "applied", "discarded"}
                  /\ row' = [d \in Candidates |-> IF d \in C THEN Staled(d) ELSE row[d]]
    <3>1. row' = [d \in Candidates |-> IF d \in {c} THEN Staled(d) ELSE row[d]]
      BY <2>0, <2>2
    <3>2. QED BY <3>1, <2>2
  <2>3. CASE ApplyRefused(p)
    BY <2>1, <2>2, <2>3 DEF ApplyRefused, ArgsFit, Asks
  <2>4. CASE CheckStage(p) BY <2>1, <2>2, <2>4 DEF CheckStage
  <2>5. CASE CheckPromote(p) BY <2>1, <2>2, <2>5 DEF CheckPromote
  <2>6. CASE CheckApply(p) BY <2>1, <2>2, <2>6 DEF CheckApply
  <2>7. QED BY <2>3, <2>4, <2>5, <2>6 DEF CheckAction
<1>3. QED BY <1>1, <1>2, StaledIsQuiet DEF Quiet

LEMMA UserIsQuiet ==
    ASSUME TypeOK, UserAction
    PROVE  Quiet /\ WordsKept /\ UNCHANGED process
<1> USE DEF TypeOK
<1>0. UNCHANGED <<refused, overrun, blurred, process>>
  BY DEF UserAction, Claim, DeleteSome, Delete, Expire, ReplaceSummary, Replace,
         DropWithLog, past, process
<1>1. CASE Claim
  <2>1. \A c \in Candidates :
           \/ row'[c] = row[c]
           \/ Status(c) = "pending_summary" /\ row'[c] = Staled(c)
           \/ /\ Status(c) = "pending_summary"
              /\ row'[c] = [row[c] EXCEPT !.status = "nudge_exhausted",
                                          !.words = Nothing]
           \/ row'[c] = [row[c] EXCEPT !.nudges = @ + 1] /\ Status(c) = "pending_summary"
    BY <1>1 DEF Claim
  <2>2. \A c \in Candidates :
           \/ row'[c] = row[c]
           \/ Status(c) = "pending_summary" /\ Status(c)' = "stale"
           \/ /\ Status(c) = "pending_summary" /\ Status(c)' = "nudge_exhausted"
              /\ row'[c].sources = row[c].sources /\ row'[c].snapshot = row[c].snapshot
           \/ /\ Status(c) = "pending_summary" /\ Status(c)' = "pending_summary"
              /\ row'[c].sources = row[c].sources /\ row'[c].snapshot = row[c].snapshot
              /\ row'[c].words = row[c].words
    <3> TAKE c \in Candidates
    <3>0. row[c] \in Rows BY DEF Rows
    <3>1. CASE row'[c] = row[c] BY <3>1
    <3>2. CASE Status(c) = "pending_summary" /\ row'[c] = Staled(c)
      BY <3>2, StaledType DEF Status
    <3>3. CASE /\ Status(c) = "pending_summary"
               /\ row'[c] = [row[c] EXCEPT !.status = "nudge_exhausted",
                                           !.words = Nothing]
      BY <3>0, <3>3, RowFields DEF Status
    <3>4. CASE /\ row'[c] = [row[c] EXCEPT !.nudges = @ + 1]
               /\ Status(c) = "pending_summary"
      BY <3>0, <3>4, RowFields DEF Status
    <3>5. QED BY <2>1, <3>1, <3>2, <3>3, <3>4
  <2>3. UNCHANGED summary BY <1>1 DEF Claim, memories
  <2>4. QED BY <1>0, <2>2, <2>3 DEF Quiet, WordsKept, Kept, Open, Active, Status
<1>2. ASSUME NEW S, row' = StaleFor(S)
      PROVE  /\ WordsKept
             /\ \A c \in Candidates :
                 row'[c] = row[c] \/ (c \in Open /\ Status(c)' = "stale")
  <2> DEFINE C == {c \in Open : row[c].sources \cap S # {}}
  <2>1. C \in SUBSET Candidates /\ \A c \in C : Status(c) \notin {"none", "applied", "discarded"}
    BY DEF Open, Active
  <2>2. row' = [c \in Candidates |-> IF c \in C THEN Staled(c) ELSE row[c]]
    BY <1>2 DEF StaleFor
  <2> HIDE DEF C
  <2>3. QED BY <2>1, <2>2, StaledIsQuiet DEF C
<1>3. CASE DeleteSome
  <2>1. PICK S \in SUBSET Memories, C \in SUBSET Candidates : Delete(S, C)
    BY <1>3 DEF DeleteSome
  <2>2. \A c \in Candidates : /\ summary'[c].made = summary[c].made
                              /\ summary'[c].live => summary[c].live
    BY <2>1 DEF Delete, NoSummary
  <2>3. QED BY <1>0, <1>2, <2>1, <2>2 DEF Delete, Quiet, Open, Active
<1>4. ASSUME NEW c \in Candidates, Expire(c) PROVE Quiet /\ WordsKept
  <2>1. c \in Open /\ row' = [row EXCEPT ![c].expired = TRUE] /\ UNCHANGED summary
    BY <1>4 DEF Expire, memories
  <2>2. /\ \A d \in Candidates \ {c} : row'[d] = row[d]
        /\ row'[c].status = row[c].status /\ row'[c].sources = row[c].sources
        /\ row'[c].snapshot = row[c].snapshot /\ row'[c].words = row[c].words
    BY <2>1
  <2>3. QED BY <1>0, <2>1, <2>2 DEF Quiet, WordsKept, Kept, Open, Active, Status
<1>5. ASSUME NEW c \in Candidates, ReplaceSummary(c) PROVE Quiet /\ WordsKept
  <2>1. UNCHANGED row /\ \A d \in Candidates : /\ summary'[d].made = summary[d].made
                                               /\ summary'[d].live = summary[d].live
    BY <1>5 DEF ReplaceSummary
  <2>2. QED BY <1>0, <2>1 DEF Quiet, WordsKept, Active, Status
<1>6. ASSUME NEW m \in Memories, Replace(m) PROVE Quiet /\ WordsKept
  BY <1>0, <1>2, <1>6 DEF Replace, Quiet, Open, Active
<1>7. ASSUME NEW m \in Memories, DropWithLog(m) PROVE Quiet /\ WordsKept
  BY <1>0, <1>7 DEF DropWithLog, Quiet, WordsKept, Active, Status
<1>8. QED BY <1>0, <1>1, <1>3, <1>4, <1>5, <1>6, <1>7 DEF UserAction

LEMMA StoreIsQuiet ==
    ASSUME TypeOK, ArgsFit, NEW p \in Processes, StoreSummary(p)
    PROVE  Quiet
<1>1. UNCHANGED <<summary, refused, overrun, blurred>>
  BY DEF StoreSummary, memories, past
<1>2. \A c \in Candidates :
         \/ row'[c] = row[c]
         \/ /\ Status(c) \in {"pending_summary", "nudge_exhausted"}
            /\ row'[c] = [row[c] EXCEPT !.status = "summary_staged", !.words = base[p]]
  BY DEF StoreSummary, Awaits, TypeOK
<1>3. \A c \in Candidates : row'[c] = row[c] \/ Kept(c)
  <2>1. \A c \in Candidates :
         \/ row'[c] = row[c]
         \/ /\ Status(c) \in {"pending_summary", "nudge_exhausted"}
            /\ Status(c)' = "summary_staged"
            /\ row'[c].sources = row[c].sources /\ row'[c].snapshot = row[c].snapshot
    <3> TAKE c \in Candidates
    <3>1. row[c] \in Rows BY DEF Rows, TypeOK
    <3>2. CASE /\ Status(c) \in {"pending_summary", "nudge_exhausted"}
               /\ row'[c] = [row[c] EXCEPT !.status = "summary_staged",
                                           !.words = base[p]]
      BY <3>1, <3>2, RowFields DEF Status
    <3>3. QED BY <1>2, <3>2
  <2>2. QED BY <2>1 DEF Kept, Open, Active
<1>4. QED BY <1>1, <1>3 DEF Quiet

\* A scan stores nothing, or a candidate of its own and makes stale what it overlaps.
LEMMA PersistCases ==
    ASSUME TypeOK, NEW p \in Processes, Persist(p), NEW S, S = Taken(base[p])
    PROVE  \/ UNCHANGED <<row, blurred>>
           \/ \E c \in Candidates :
                 /\ Status(c) = "none" /\ ~AskedBefore(S)
                 /\ Status(c)' = "pending_summary" /\ row'[c].sources = S
                 /\ row'[c].snapshot = Take(S) /\ row'[c].words = base[p]
                 /\ \A d \in Candidates \ {c} :
                       \/ row'[d] = row[d] /\ d \notin Overlapping(S)
                       \/ d \in Overlapping(S) /\ Status(d)' = "stale"
                 /\ blurred' = IF Take(S) # base[p] THEN blurred \cup {c} ELSE blurred
<1>1. CASE UNCHANGED <<row, blurred>> BY <1>1
<1>2. CASE ~UNCHANGED <<row, blurred>>
  <2>1. PICK c \in Candidates :
           /\ Status(c) = "none" /\ ~AskedBefore(S)
           /\ row' = [d \in Candidates |->
                        IF d = c
                        THEN [NoRow EXCEPT !.status = "pending_summary",
                                           !.sources = S, !.snapshot = Take(S),
                                           !.words = base[p]]
                        ELSE IF d \in Overlapping(S) THEN Staled(d) ELSE row[d]]
           /\ blurred' = IF Take(S) # base[p] THEN blurred \cup {c} ELSE blurred
    BY <1>2 DEF Persist
  <2>2. /\ row'[c].status = "pending_summary" /\ row'[c].sources = S
        /\ row'[c].snapshot = Take(S) /\ row'[c].words = base[p]
    BY <2>1 DEF NoRow
  <2>3. \A d \in Candidates \ {c} :
           \/ row'[d] = row[d] /\ d \notin Overlapping(S)
           \/ d \in Overlapping(S) /\ Status(d)' = "stale"
    BY <2>1, StaledType DEF Status
  <2>4. QED BY <2>1, <2>2, <2>3 DEF Status
<1>3. QED BY <1>1, <1>2

LEMMA MarkCases ==
    ASSUME TypeOK, ArgsFit, NEW p \in Processes, MarkRow(p), NEW c, c = arg[p]
    PROVE  /\ c \in Candidates /\ Status(c)' = "stale"
           /\ \A d \in Candidates \ {c} : row'[d] = row[d]
           /\ overrun' = IF Status(c) \in {"applied", "discarded"}
                         THEN overrun \cup {c} ELSE overrun
<1>1. c \in Candidates /\ row' = [row EXCEPT ![c] = Staled(c)]
  BY DEF MarkRow, ArgsFit
<1>2. row'[c] = Staled(c) /\ \A d \in Candidates \ {c} : row'[d] = row[d]
  BY <1>1 DEF TypeOK
<1>3. QED BY <1>1, <1>2, StaledType DEF Status, MarkRow

LEMMA ApplyCases ==
    ASSUME TypeOK, ArgsFit, NEW p \in Processes, Apply(p), NEW c, c = arg[p]
    PROVE  /\ c \in Candidates /\ Status(c) = "summary_staged"
           /\ Status(c)' = "applied"
           /\ \A d \in Candidates \ {c} : /\ row'[d] = row[d]
                                          /\ summary'[d] = summary[d]
           /\ summary'[c].made = summary[c].made + 1 /\ summary'[c].live
           /\ summary'[c].lists = row[c].sources
           /\ summary'[c].covers = row[c].words
           /\ into' = [m \in Memories |-> IF m \in row[c].sources THEN c ELSE into[m]]
<1>1. c \in Candidates
  BY DEF Apply, ArgsFit, Asks
<1>2. Status(c)' = "applied" /\ \A d \in Candidates \ {c} : row'[d] = row[d]
  BY <1>1 DEF Apply, NoRow, TypeOK, Status
<1>3. QED BY <1>1, <1>2 DEF Apply, Applicable, TypeOK

LEMMA DiscardCases ==
    ASSUME TypeOK, NEW c \in Candidates, Discard(c)
    PROVE  /\ c \in Open /\ Status(c)' = "discarded"
           /\ row'[c].sources = row[c].sources
           /\ \A d \in Candidates \ {c} : row'[d] = row[d]
BY DEF Discard, Discardable, TypeOK, Status, NoRow

LEMMA MostAreQuiet ==
    ASSUME TypeOK, ArgsFit, [Next]_vars
    PROVE  \/ Quiet
           \/ \E p \in Processes : MarkRow(p) \/ Persist(p) \/ Apply(p)
           \/ \E c \in Candidates : Discard(c)
<1>1. CASE UNCHANGED vars
  <2>1. /\ UNCHANGED <<row, summary, refused, overrun, blurred>>
    BY <1>1 DEF vars, memories, past
  <2>2. QED BY <2>1 DEF Quiet
<1>2. CASE UserAction BY <1>2, UserIsQuiet
<1>3. ASSUME NEW p \in Processes, LookAction(p) PROVE Quiet
  BY <1>3, LookIsQuiet
<1>4. ASSUME NEW p \in Processes, CheckAction(p) PROVE Quiet
  BY <1>4, CheckIsQuiet
<1>5. ASSUME NEW p \in Processes, StoreSummary(p) PROVE Quiet
  BY <1>5, StoreIsQuiet
<1>6. QED BY <1>1, <1>2, <1>3, <1>4, <1>5, NextCases

LEMMA NeverNone ==
    ASSUME TypeOK, ArgsFit, [Next]_vars
    PROVE  \A c \in Candidates : Status(c) # "none" => Status(c)' # "none"
<1>1. ASSUME Quiet
      PROVE  \A c \in Candidates : Status(c) # "none" => Status(c)' # "none"
  BY <1>1 DEF Quiet, Kept, Open, Active, Status
<1>2. ASSUME NEW p \in Processes, MarkRow(p)
      PROVE  \A c \in Candidates : Status(c) # "none" => Status(c)' # "none"
  BY <1>2, MarkCases DEF Status
<1>3. ASSUME NEW p \in Processes, Persist(p)
      PROVE  \A c \in Candidates : Status(c) # "none" => Status(c)' # "none"
  BY <1>3, PersistCases DEF Status
<1>4. ASSUME NEW p \in Processes, Apply(p)
      PROVE  \A c \in Candidates : Status(c) # "none" => Status(c)' # "none"
  BY <1>4, ApplyCases DEF Status
<1>5. ASSUME NEW c \in Candidates, Discard(c)
      PROVE  \A d \in Candidates : Status(d) # "none" => Status(d)' # "none"
  BY <1>5, DiscardCases DEF Status
<1>6. QED
  BY <1>1, <1>2, <1>3, <1>4, <1>5, MostAreQuiet

LEMMA OthersFit ==
    ASSUME TypeOK, ArgsFit, [Next]_vars, NEW p \in Processes,
           pc'[p] = pc[p], arg'[p] = arg[p], base'[p] = base[p]
    PROVE  /\ Asks(p)' => arg'[p] \in Candidates /\ row'[arg'[p]].status # "none"
           /\ pc'[p] = "marking" => arg'[p] \in Candidates
           /\ pc'[p] \in {"recalled", "merging"} => arg'[p] \in Memories
           /\ pc'[p] = "merging" => base'[p][arg'[p]] # None
BY NeverNone DEF ArgsFit, Asks, Status

LEMMA NextArgs == TypeOK /\ ArgsFit /\ [Next]_vars => ArgsFit'
<1> SUFFICES ASSUME TypeOK, ArgsFit, [Next]_vars, NEW q \in Processes
             PROVE  /\ Asks(q)' => arg'[q] \in Candidates /\ row'[arg'[q]].status # "none"
                    /\ pc'[q] = "marking" => arg'[q] \in Candidates
                    /\ pc'[q] \in {"recalled", "merging"} => arg'[q] \in Memories
                    /\ pc'[q] = "merging" => base'[q][arg'[q]] # None
  BY DEF ArgsFit, Status
<1> USE DEF TypeOK
<1>1. CASE UNCHANGED process
  BY <1>1, OthersFit DEF process
<1>2. ASSUME NEW p \in Processes, p # q,
             Scan(p) \/ Review(p) \/ Abandon(p) \/ Recall(p) \/ ReadForMerge(p) \/ Merge(p)
      PROVE  pc'[q] = pc[q] /\ arg'[q] = arg[q] /\ base'[q] = base[q]
  BY <1>2 DEF Scan, ReadActive, CheckRow, MarkRow, Find, Persist, Review, CheckStage,
     CheckPromote, StoreSummary, CheckApply, ApplyRefused, Apply, Abandon, Recall,
     ReadForMerge, Merge, Rest, Go, process
<1>3. ASSUME Rest(q) PROVE pc'[q] = "idle"
  BY <1>3 DEF Rest
<1>4. CASE Rest(q) BY <1>3, <1>4 DEF Asks
<1>5. ASSUME NEW there, NEW what, NEW versions, Go(q, there, what, versions)
      PROVE  pc'[q] = there /\ arg'[q] = what
  BY <1>5 DEF Go
<1>6. CASE Scan(q)
  <2>1. CASE ReadActive(q) BY <2>1 DEF ReadActive, Asks
  <2>2. CASE CheckRow(q)
    <3>1. pc'[q] = "marking" => arg'[q] \in Candidates
      BY <2>2 DEF CheckRow
    <3>2. pc'[q] \in {"checking", "marking"}
      BY <2>2 DEF CheckRow
    <3>3. QED BY <3>1, <3>2 DEF Asks
  <2>3. CASE MarkRow(q) BY <2>3 DEF MarkRow, Asks
  <2>4. CASE Find(q) BY <1>4, <1>5, <2>4 DEF Find, Asks
  <2>5. CASE Persist(q) BY <1>4, <2>5 DEF Persist
  <2>6. QED BY <1>6, <2>1, <2>2, <2>3, <2>4, <2>5 DEF Scan
<1>7. CASE Review(q)
  <2>1. CASE CheckStage(q) BY <1>1, <1>5, <2>1, NeverNone DEF CheckStage, Asks, Status
  <2>2. CASE CheckPromote(q) BY <1>1, <1>5, <2>2, NeverNone DEF CheckPromote, Asks, Status
  <2>3. CASE CheckApply(q) BY <1>1, <1>5, <2>3, NeverNone DEF CheckApply, Asks, Status
  <2>4. CASE StoreSummary(q) \/ ApplyRefused(q) \/ Apply(q)
    BY <1>4, <2>4 DEF StoreSummary, ApplyRefused, Apply
  <2>5. QED BY <1>7, <2>1, <2>2, <2>3, <2>4 DEF Review
<1>8. CASE Recall(q)
  BY <1>5, <1>8 DEF Recall, Asks
<1>9. CASE ReadForMerge(q)
  <2>1. CASE ~Rest(q)
    <3>1. /\ text[arg[q]] # None /\ pc'[q] = "merging" /\ arg'[q] = arg[q]
          /\ base'[q] = Take({arg[q]}) /\ arg[q] \in Memories
      BY <1>9, <2>1 DEF ReadForMerge, ArgsFit
    <3>2. base'[q][arg[q]] = text[arg[q]] BY <3>1 DEF Take
    <3>3. QED BY <3>1, <3>2 DEF Asks
  <2>2. QED BY <1>4, <2>1
<1>10. CASE Merge(q) \/ Abandon(q)
  BY <1>4, <1>10 DEF Merge, Abandon
<1>11. CASE \E c \in Candidates : Discard(c)
  BY <1>1, <1>11 DEF Discard
<1>12. CASE UserAction \/ UNCHANGED vars
  BY <1>1, <1>12, UserIsQuiet DEF vars
<1>13. CASE \E p \in Processes : LookAction(p) \/ CheckAction(p) \/ StoreSummary(p)
                                   \/ MarkRow(p) \/ Persist(p) \/ Apply(p)
  <2>1. PICK p \in Processes :
           Scan(p) \/ Review(p) \/ Abandon(p) \/ Recall(p) \/ ReadForMerge(p) \/ Merge(p)
    BY <1>13 DEF Scan, Review, LookAction, CheckAction
  <2>2. CASE p # q BY <1>2, <2>1, <2>2, OthersFit
  <2>3. QED BY <1>6, <1>7, <1>8, <1>9, <1>10, <2>1, <2>2
<1>14. QED BY <1>11, <1>12, <1>13, NextCases

-----------------------------------------------------------------------------
(* Reviews are final.                                                        *)

\* What was made stale stays so, and a summary that is there was made.
VerdictInv ==
    /\ \A c \in overrun : Status(c) = "stale"
    /\ \A c \in Candidates : summary[c].live => summary[c].made # 0

ReviewInv == ReviewsAreFinal /\ VerdictInv

LEMMA NothingInCommon ==
    ASSUME NEW S, NEW T, S \cap T = {}
    PROVE  Cardinality(S \cap T) <= 1
BY FS_EmptySet

LEMMA QuietReviews ==
    ASSUME TypeOK, ReviewInv, Quiet
    PROVE  ReviewInv'
<1> USE DEF ReviewInv, ReviewsAreFinal
<1>1. \A c \in Open' : c \in Open /\ row'[c].sources = row[c].sources
  BY DEF Quiet, Kept, Open, Active, Status
<1>2. OneOpenCandidate'
  BY <1>1 DEF OneOpenCandidate
<1>3. \A c \in Candidates :
         Status(c) \in {"applied", "discarded", "none"} \/
         Status(c)' \in {"applied", "discarded"} => row'[c] = row[c]
  BY DEF Quiet, Kept, Open, Active, Status
<1>4. OneVerdict'
  <2>1. \A c \in Candidates :
           /\ summary'[c].made = summary[c].made
           /\ Status(c)' = "discarded" <=> Status(c) = "discarded"
           /\ Status(c)' = "applied" <=> Status(c) = "applied"
    BY <1>3 DEF Quiet, Status
  <2>2. QED BY <2>1 DEF OneVerdict, Quiet
<1>5. RejectedStaysRejected'
  <2>1. \A d \in refused' \ overrun' : row'[d] = row[d]
    BY <1>3 DEF OneVerdict, Quiet, TypeOK
  <2>2. QED BY <1>1, <2>1 DEF RejectedStaysRejected, Quiet
<1>6. VerdictInv'
  <2>1. \A c \in overrun' : Status(c)' = "stale"
    BY DEF VerdictInv, Quiet, Kept, Open, Active, Status, TypeOK
  <2>2. QED BY <2>1 DEF VerdictInv, Quiet
<1>7. QED BY <1>2, <1>4, <1>5, <1>6

LEMMA MarkReviews ==
    ASSUME TypeOK, ArgsFit, ReviewInv, NEW p \in Processes, MarkRow(p)
    PROVE  ReviewInv'
<1> USE DEF ReviewInv, ReviewsAreFinal
<1>0. PICK c \in Candidates :
         /\ Status(c)' = "stale" /\ \A d \in Candidates \ {c} : row'[d] = row[d]
         /\ overrun' = IF Status(c) \in {"applied", "discarded"}
                       THEN overrun \cup {c} ELSE overrun
  BY MarkCases
<1>1. UNCHANGED <<summary, refused>>
  BY DEF MarkRow, memories
<1>2. \A d \in Open' : d \in Open /\ row'[d] = row[d]
  BY <1>0 DEF Open, Active, Status
<1>3. OneOpenCandidate'
  BY <1>2 DEF OneOpenCandidate
<1>4. \A d \in refused' \ overrun' : d # c /\ d \in refused \ overrun
  BY <1>0, <1>1 DEF OneVerdict
<1>5. RejectedStaysRejected'
  BY <1>0, <1>2, <1>4 DEF RejectedStaysRejected, TypeOK
<1>6. OneVerdict'
  <2>1. CASE c \in overrun'
    BY <1>0, <1>1, <2>1 DEF OneVerdict, Status
  <2>2. CASE c \notin overrun'
    BY <1>0, <1>1, <2>2 DEF OneVerdict, Status
  <2>3. QED BY <2>1, <2>2
<1>7. VerdictInv'
  BY <1>0, <1>1 DEF VerdictInv, Status, TypeOK
<1>8. QED BY <1>3, <1>5, <1>6, <1>7

LEMMA PersistReviews ==
    ASSUME TypeOK, ArgsFit, ReviewInv, NEW p \in Processes, Persist(p)
    PROVE  ReviewInv'
<1> USE DEF ReviewInv, ReviewsAreFinal
<1> DEFINE S == Taken(base[p])
<1>0. UNCHANGED <<summary, refused, overrun>> /\ S \subseteq Memories
  BY VersionTypes DEF Persist, memories, TypeOK
<1> HIDE DEF S
<1>1. CASE UNCHANGED row
  <2>1. OneOpenCandidate' BY <1>1 DEF OneOpenCandidate, Open, Active, Status
  <2>2. RejectedStaysRejected'
    BY <1>0, <1>1 DEF RejectedStaysRejected, Open, Active, Status
  <2>3. OneVerdict' /\ VerdictInv' BY <1>0, <1>1 DEF OneVerdict, VerdictInv, Status
  <2>4. QED BY <2>1, <2>2, <2>3
<1>2. CASE ~UNCHANGED row
  <2>1. PICK c \in Candidates :
                 /\ Status(c) = "none" /\ ~AskedBefore(S)
                 /\ Status(c)' = "pending_summary" /\ row'[c].sources = S
                 /\ \A d \in Candidates \ {c} :
                       \/ row'[d] = row[d] /\ d \notin Overlapping(S)
                       \/ d \in Overlapping(S) /\ Status(d)' = "stale"
    BY <1>2, PersistCases DEF S
  <2>2. \A d \in Open' \ {c} : /\ d \in Open /\ row'[d] = row[d]
                               /\ row[d].sources \cap S = {}
    BY <2>1 DEF Open, Active, Status, Overlapping
  <2>3. OneOpenCandidate'
    BY <2>1, <2>2 DEF OneOpenCandidate
  <2>4. \A d \in Candidates \ Open : d # c => row'[d] = row[d]
    BY <2>1 DEF Overlapping
  <2>5. \A d \in refused \ overrun : d # c /\ Status(d) = "discarded" /\ row'[d] = row[d]
    <3>1. \A d \in refused \ overrun : Status(d) = "discarded" /\ d \in Candidates
      BY DEF OneVerdict, TypeOK
    <3>2. QED BY <2>1, <2>4, <3>1 DEF Open, Active
  <2>6. \A d \in refused \ overrun : Cardinality(S \cap row[d].sources) <= 1
    <3> TAKE d \in refused \ overrun
    <3>1. d \in Candidates /\ ~(Cardinality(S \cap row[d].sources) > 1)
      BY <2>1, <2>5 DEF AskedBefore, Rejected, TypeOK
    <3>2. Cardinality(S \cap row[d].sources) \in Nat
      BY <1>0, CompactionAssumption, FS_Subset, FS_CardinalityType
    <3>3. QED BY <3>1, <3>2
  <2>7. RejectedStaysRejected'
    BY <1>0, <2>1, <2>2, <2>5, <2>6 DEF RejectedStaysRejected
  <2>8. OneVerdict'
    <3>1. \A d \in Candidates :
             /\ Status(d)' = "discarded" <=> Status(d) = "discarded"
             /\ Status(d)' = "applied" <=> Status(d) = "applied"
      BY <2>1 DEF Overlapping, Open, Active, Status
    <3>2. QED BY <1>0, <3>1 DEF OneVerdict
  <2>9. VerdictInv'
    <3>1. \A d \in overrun : d # c /\ row'[d] = row[d]
      BY <2>1, <2>4 DEF VerdictInv, Open, Active, TypeOK
    <3>2. QED BY <1>0, <3>1 DEF VerdictInv, Status
  <2>10. QED BY <2>3, <2>7, <2>8, <2>9
<1>3. QED BY <1>1, <1>2

LEMMA ApplyReviews ==
    ASSUME TypeOK, ArgsFit, ReviewInv, NEW p \in Processes, Apply(p)
    PROVE  ReviewInv'
<1> USE DEF ReviewInv, ReviewsAreFinal
<1>0. PICK c \in Candidates :
         /\ Status(c) = "summary_staged" /\ Status(c)' = "applied"
         /\ \A d \in Candidates \ {c} : row'[d] = row[d] /\ summary'[d] = summary[d]
         /\ summary'[c].made = summary[c].made + 1 /\ summary'[c].live
  BY ApplyCases
<1>1. UNCHANGED <<refused, overrun>>
  BY DEF Apply, past
<1>2. \A d \in Open' : d \in Open /\ row'[d] = row[d]
  BY <1>0 DEF Open, Active, Status
<1>3. OneOpenCandidate'
  BY <1>2 DEF OneOpenCandidate
<1>4. c \notin refused \cup overrun /\ summary[c].made = 0
  <2>1. summary[c].made \in Nat BY DEF TypeOK
  <2>2. c \notin overrun BY <1>0 DEF VerdictInv
  <2>3. QED BY <1>0, <2>1, <2>2 DEF OneVerdict
<1>5. RejectedStaysRejected'
  BY <1>0, <1>1, <1>2, <1>4 DEF RejectedStaysRejected, TypeOK
<1>6. OneVerdict'
  BY <1>0, <1>1, <1>4 DEF OneVerdict, Status
<1>7. VerdictInv'
  BY <1>0, <1>1, <1>4 DEF VerdictInv, Status, TypeOK
<1>8. QED BY <1>3, <1>5, <1>6, <1>7

LEMMA DiscardReviews ==
    ASSUME TypeOK, ReviewInv, NEW c \in Candidates, Discard(c)
    PROVE  ReviewInv'
<1> USE DEF ReviewInv, ReviewsAreFinal
<1>0. /\ c \in Open /\ Status(c)' = "discarded"
      /\ row'[c].sources = row[c].sources
      /\ \A d \in Candidates \ {c} : row'[d] = row[d]
  BY DiscardCases
<1>1. UNCHANGED <<summary, overrun>> /\ refused' = refused \cup {c}
  BY DEF Discard, memories
<1>2. \A d \in Open' : d # c /\ d \in Open /\ row'[d] = row[d]
  BY <1>0 DEF Open, Active, Status
<1>3. OneOpenCandidate'
  BY <1>2 DEF OneOpenCandidate
<1>4. c \notin overrun /\ summary[c].made # 1 /\ summary[c].made \in Nat
  BY <1>0 DEF VerdictInv, OneVerdict, Open, Active, TypeOK
<1>5. RejectedStaysRejected'
  <2>1. ASSUME NEW d \in Open', NEW e \in refused' \ overrun'
        PROVE  Cardinality(row'[d].sources \cap row'[e].sources) <= 1
    <3>1. CASE e = c
      <4>1. row'[d].sources \cap row'[c].sources = {}
        BY <1>0, <1>2 DEF OneOpenCandidate
      <4>2. QED BY <3>1, <4>1, NothingInCommon
    <3>2. CASE e # c
      BY <1>0, <1>1, <1>2, <3>2 DEF RejectedStaysRejected, TypeOK
    <3>3. QED BY <3>1, <3>2
  <2>2. QED BY <2>1 DEF RejectedStaysRejected
<1>6. OneVerdict'
  <2>1. \A d \in Candidates \ {c} : Status(d)' = Status(d)
    BY <1>0 DEF Status
  <2>2. QED BY <1>0, <1>1, <1>4, <2>1 DEF OneVerdict
<1>7. VerdictInv'
  BY <1>0, <1>1, <1>4 DEF VerdictInv, Status, TypeOK
<1>8. QED BY <1>3, <1>5, <1>6, <1>7

LEMMA InitReviews == Init => ArgsFit /\ ReviewInv
<1> SUFFICES ASSUME Init PROVE ArgsFit /\ ReviewInv
  OBVIOUS
<1>1. Open = {} /\ \A c \in Candidates : Status(c) = "none" /\ summary[c] = NoSummary
  BY DEF Init, Open, Active, Status, NoRow
<1>2. ArgsFit
  BY DEF Init, ArgsFit, Asks
<1>3. ReviewInv
  BY <1>1 DEF Init, NoSummary, ReviewInv, ReviewsAreFinal, OneOpenCandidate,
     RejectedStaysRejected, OneVerdict, VerdictInv
<1>4. QED BY <1>2, <1>3

LEMMA NextReviews == TypeOK /\ ArgsFit /\ ReviewInv /\ [Next]_vars => ReviewInv'
BY MostAreQuiet, QuietReviews, MarkReviews, PersistReviews, ApplyReviews, DiscardReviews

-----------------------------------------------------------------------------
(* Sources and their summaries.                                              *)

\* Only an apply, a delete, a replaced summary and a dropped log entry matter.
LEMMA SummariesStay ==
    ASSUME [Next]_vars
    PROVE  \/ UNCHANGED <<into, summary, dropped>>
           \/ DeleteSome
           \/ \E p \in Processes : Apply(p)
           \/ \E c \in Candidates : ReplaceSummary(c)
           \/ \E m \in Memories : DropWithLog(m)
BY ZenonT(60) DEF Next, Scan, ReadActive, CheckRow, MarkRow, Find, Persist, Review, CheckStage,
   CheckPromote, StoreSummary, CheckApply, ApplyRefused, Abandon, Recall,
   ReadForMerge, Merge, Claim, Expire, Discard, Replace, memories, past, vars

LEMMA NextSources ==
    TypeOK /\ ArgsFit /\ SourcesHaveTheirSummary /\ [Next]_vars
    => SourcesHaveTheirSummary'
<1> SUFFICES ASSUME TypeOK, ArgsFit, SourcesHaveTheirSummary, [Next]_vars
             PROVE  SourcesHaveTheirSummary'
  OBVIOUS
<1>0. \A m \in Memories : into[m] # None => into[m] \in Candidates
  BY DEF TypeOK
<1>1. CASE UNCHANGED <<into, summary, dropped>>
  BY <1>1 DEF SourcesHaveTheirSummary
<1>2. CASE DeleteSome
  <2>1. PICK S \in SUBSET Memories, C \in SUBSET Candidates : Delete(S, C)
    BY <1>2 DEF DeleteSome
  <2>2. /\ \A m \in Memories : into'[m] # None =>
              m \notin S /\ into[m] \notin C /\ into'[m] = into[m]
        /\ \A m \in Memories : m \notin S /\ into[m] \notin C => into'[m] = into[m]
    BY <2>1 DEF Delete, Restored
  <2>3. \A c \in Candidates :
           /\ c \notin C => summary'[c].live = summary[c].live
           /\ summary'[c].live => c \notin C
           /\ c \notin C => summary'[c].lists \subseteq summary[c].lists
           /\ c \notin C /\ (\E m \in S : into[m] = c) => summary'[c].lists \cap S = {}
    BY <2>1 DEF Delete, NoSummary, TypeOK
  <2>4. \A m \in Memories : into'[m] # None => summary'[into'[m]].live
    BY <1>0, <2>2, <2>3 DEF SourcesHaveTheirSummary
  <2>5. ASSUME NEW c \in Candidates, summary'[c].live,
               NEW m \in summary'[c].lists \ dropped'
        PROVE  into'[m] = c
    <3>1. c \notin C /\ summary[c].live /\ m \in summary[c].lists \ dropped
      BY <2>1, <2>3, <2>5 DEF Delete
    <3>2. m \in Memories /\ into[m] = c
      BY <3>1 DEF SourcesHaveTheirSummary, TypeOK
    <3>3. m \notin S
      BY <2>3, <2>5, <3>1, <3>2
    <3>4. QED BY <2>2, <3>1, <3>2, <3>3
  <2>6. QED BY <2>4, <2>5 DEF SourcesHaveTheirSummary
<1>3. ASSUME NEW p \in Processes, Apply(p) PROVE SourcesHaveTheirSummary'
  <2>1. PICK c \in Candidates :
           /\ c = arg[p] /\ summary'[c].live /\ summary'[c].lists = row[c].sources
           /\ \A d \in Candidates \ {c} : summary'[d] = summary[d]
           /\ into' = [m \in Memories |-> IF m \in row[c].sources THEN c ELSE into[m]]
    BY <1>3, ApplyCases
  <2>2. row[c].sources \subseteq Memories /\ \A m \in row[c].sources : into[m] = None
    BY <1>3, <2>1 DEF Apply, Applicable, Sound, Whole, TypeOK
  <2>3. dropped' = dropped BY <1>3 DEF Apply, past
  <2>4. \A m \in Memories : into'[m] # None => summary'[into'[m]].live
    BY <1>0, <2>1 DEF SourcesHaveTheirSummary
  <2>5. ASSUME NEW d \in Candidates, summary'[d].live,
               NEW m \in summary'[d].lists \ dropped'
        PROVE  into'[m] = d
    <3>1. CASE d = c BY <2>1, <2>2, <2>5, <3>1
    <3>2. CASE d # c
      <4>1. m \in Memories /\ into[m] = d
        BY <2>1, <2>3, <2>5, <3>2 DEF SourcesHaveTheirSummary, TypeOK
      <4>2. m \notin row[c].sources
        BY <2>2, <4>1, Constants
      <4>3. QED BY <2>1, <4>1, <4>2
    <3>3. QED BY <3>1, <3>2
  <2>6. QED BY <2>4, <2>5 DEF SourcesHaveTheirSummary
<1>4. ASSUME NEW c \in Candidates, ReplaceSummary(c) PROVE SourcesHaveTheirSummary'
  <2>1. /\ summary'[c].live = summary[c].live /\ summary'[c].lists = {}
        /\ \A d \in Candidates \ {c} : summary'[d] = summary[d]
    BY <1>4 DEF ReplaceSummary, TypeOK
  <2>2. UNCHANGED <<into, dropped>>
    BY <1>4 DEF ReplaceSummary, past
  <2>3. QED BY <1>0, <2>1, <2>2 DEF SourcesHaveTheirSummary
<1>5. ASSUME NEW m \in Memories, DropWithLog(m) PROVE SourcesHaveTheirSummary'
  <2>1. /\ into'[m] = None /\ \A n \in Memories \ {m} : into'[n] = into[n]
        /\ summary' = summary
        /\ dropped' = IF into[m] = None THEN dropped ELSE dropped \cup {m}
    BY <1>5 DEF DropWithLog, TypeOK
  <2>2. \A n \in Memories : into'[n] # None => summary'[into'[n]].live
    BY <2>1 DEF SourcesHaveTheirSummary
  <2>3. ASSUME NEW c \in Candidates, summary'[c].live,
               NEW n \in summary'[c].lists \ dropped'
        PROVE  into'[n] = c
    <3>1. n \in Memories /\ into[n] = c
      BY <2>1, <2>3 DEF SourcesHaveTheirSummary, TypeOK
    <3>2. n # m
      BY <2>1, <2>3, <3>1, Constants
    <3>3. QED BY <2>1, <3>1, <3>2
  <2>4. QED BY <2>2, <2>3 DEF SourcesHaveTheirSummary
<1>6. QED BY <1>1, <1>2, <1>3, <1>4, <1>5, SummariesStay

-----------------------------------------------------------------------------
(* What is hidden was read.                                                  *)

\* A memory says what it said, or more.
Grown(versions, m) ==
    versions[m] \in Texts /\ (text[m] # None => text[m] >= versions[m])

Says(c, versions) ==
    \A m \in row[c].sources :
        Grown(versions, m) /\ versions[m] >= row[c].snapshot[m]

Sharp == Open \ blurred

\* The words of an open candidate were read of its sources after its snapshot, and
\* those have only grown: an equal hash means that nothing was written in between.
ReadInv ==
    /\ \A c \in Sharp : \A m \in row[c].sources : Grown(row[c].snapshot, m)
    /\ \A c \in Sharp \cap Active : Says(c, row[c].words)
    /\ \A p \in Processes :
          /\ pc[p] = "staging" /\ Status(arg[p]) = "pending_summary" =>
                base[p] = row[arg[p]].words
          /\ pc[p] = "promoting" /\ arg[p] \in Sharp => Says(arg[p], base[p])

\* The texts of the sources of a candidate that stays open can only grow.
LEMMA TextsGrow ==
    ASSUME TypeOK, ArgsFit, [Next]_vars, NEW c \in Open', NEW m \in row'[c].sources,
           m \in Memories, text'[m] # None
    PROVE  text[m] # None /\ text'[m] >= text[m]
<1> USE DEF TypeOK
<1>0. text[m] # None => text[m] \in Nat /\ text[m] >= text[m]
  <2>1. text \in [Memories -> Texts \cup {None}] BY DEF Versions
  <2>2. text[m] # None => text[m] \in Nat BY <2>1, Constants
  <2>3. QED BY <2>2
<1>1. CASE UNCHANGED text BY <1>0, <1>1
<1>2. ASSUME NEW p \in Processes, Merge(p) PROVE text[m] # None /\ text'[m] >= text[m]
  <2>1. arg[p] \in Memories /\ base[p][arg[p]] # None
    BY <1>2 DEF Merge, ArgsFit
  <2>2. CASE Untouched(p)
    <3>1. PICK t \in Texts : t > text[arg[p]] /\ text' = [text EXCEPT ![arg[p]] = t]
      BY <1>2, <2>2 DEF Merge, Write
    <3>2. text[arg[p]] # None BY <2>1, <2>2 DEF Untouched
    <3>3. text[arg[p]] \in Nat BY <2>1, <3>2, Constants DEF Versions
    <3>4. text \in [Memories -> Texts \cup {None}] BY DEF Versions
    <3>5. CASE m = arg[p] BY <3>1, <3>2, <3>3, <3>4, <3>5, Constants
    <3>6. CASE m # arg[p] BY <1>0, <3>1, <3>4, <3>6
    <3>7. QED BY <3>5, <3>6
  <2>3. CASE ~Untouched(p) BY <1>1, <1>2, <2>3 DEF Merge
  <2>4. QED BY <2>2, <2>3
<1>3. ASSUME NEW S, row' = StaleFor(S) PROVE m \notin S
  BY <1>3, StaledType DEF StaleFor, Open, Active, Status
<1>4. text \in [Memories -> Texts \cup {None}] BY DEF Versions
<1>5. ASSUME NEW n \in Memories, Replace(n)
      PROVE  text[m] # None /\ text'[m] >= text[m]
  <2>1. m # n BY <1>3, <1>5 DEF Replace
  <2>2. text'[m] = text[m] BY <1>4, <1>5, <2>1 DEF Replace, Write
  <2>3. QED BY <1>0, <2>2
<1>6. CASE DeleteSome
  <2>1. PICK S \in SUBSET Memories, C \in SUBSET Candidates : Delete(S, C)
    BY <1>6 DEF DeleteSome
  <2>2. text'[m] = text[m] BY <1>3, <2>1 DEF Delete
  <2>3. QED BY <1>0, <2>2
<1>7. ASSUME NEW n \in Memories, DropWithLog(n)
      PROVE  text[m] # None /\ text'[m] >= text[m]
  <2>1. text'[m] = text[m] BY <1>4, <1>7 DEF DropWithLog
  <2>2. QED BY <1>0, <2>1
<1>8. QED
  BY <1>1, <1>2, <1>5, <1>6, <1>7
     DEF Next, Scan, ReadActive, CheckRow, MarkRow, Find, Persist, Review, CheckStage,
         CheckPromote, StoreSummary, CheckApply, ApplyRefused, Apply, Abandon, Recall,
         ReadForMerge, Claim, Expire, Discard, ReplaceSummary, memories, vars

\* Whatever is still open was so, of the same sources and snapshot, and what is
\* still pending has its words, except for the new candidate of a scan.
Fade == \A c \in Open' :
           /\ Kept(c)
           /\ Status(c)' = "pending_summary" =>
                 Status(c) = "pending_summary" /\ row'[c].words = row[c].words

LEMMA KeptWordsFade ==
    ASSUME Quiet, WordsKept
    PROVE  Fade
BY DEF Quiet, WordsKept, Fade, Kept, Open, Active, Status

LEMMA ClosedFade ==
    ASSUME NEW c, \A d \in Candidates \ {c} : row'[d] = row[d],
           row'[c].status \in {"stale", "applied", "discarded"}
    PROVE  Fade /\ WordsKept
BY DEF WordsKept, Fade, Kept, Open, Active, Status

LEMMA StoreCases ==
    ASSUME TypeOK, ArgsFit, NEW p \in Processes, StoreSummary(p)
    PROVE  /\ Fade /\ UNCHANGED text
           /\ \A c \in Active' :
                 \/ c \in Active /\ row'[c] = row[c]
                 \/ c = arg[p] /\ Status(c) = Awaits(p) /\ row'[c].words = base[p]
<1>1. \A c \in Candidates :
         \/ row'[c] = row[c]
         \/ /\ c = arg[p] /\ Status(c) = Awaits(p) /\ Status(c)' = "summary_staged"
            /\ row'[c].words = base[p]
  <2>1. arg[p] \in Candidates BY DEF StoreSummary, ArgsFit, Asks
  <2>2. CASE Status(arg[p]) = Awaits(p)
    <3>1. row' = [row EXCEPT ![arg[p]] = [row[arg[p]] EXCEPT !.status = "summary_staged",
                                                            !.words = base[p]]]
      BY <2>1, <2>2 DEF StoreSummary, TypeOK
    <3>2. [row[arg[p]] EXCEPT !.status = "summary_staged", !.words = base[p]].status
             = "summary_staged"
      BY <2>1 DEF TypeOK
    <3>3. [row[arg[p]] EXCEPT !.status = "summary_staged", !.words = base[p]].words
             = base[p]
      BY <2>1 DEF TypeOK
    <3> DEFINE stored == [row[arg[p]] EXCEPT !.status = "summary_staged",
                                            !.words = base[p]]
    <3>4. stored.status = "summary_staged" /\ stored.words = base[p]
      BY <3>2, <3>3
    <3>5. row' = [row EXCEPT ![arg[p]] = stored] BY <3>1
    <3> HIDE DEF stored
    <3>6. QED BY <2>1, <2>2, <3>4, <3>5 DEF Status, TypeOK
  <2>3. CASE Status(arg[p]) # Awaits(p) BY <2>3 DEF StoreSummary
  <2>4. QED BY <2>2, <2>3
<1>2. Fade
  BY <1>1, StoreIsQuiet DEF Quiet, Fade, Kept, Open, Active, Status
<1>3. QED BY <1>1, <1>2 DEF StoreSummary, memories, Active, Status

LEMMA MostFade ==
    ASSUME TypeOK, ArgsFit, [Next]_vars
    PROVE  \/ /\ Fade /\ UNCHANGED blurred
              /\ WordsKept \/ \E p \in Processes : StoreSummary(p)
           \/ \E p \in Processes : Persist(p)
<1>1. ASSUME NEW p \in Processes, MarkRow(p) PROVE Fade /\ WordsKept /\ UNCHANGED blurred
  BY <1>1, MarkCases, ClosedFade DEF MarkRow, Status
<1>2. ASSUME NEW p \in Processes, Apply(p) PROVE Fade /\ WordsKept /\ UNCHANGED blurred
  <2>1. PICK c : row'[c].status = "applied" /\ \A d \in Candidates \ {c} : row'[d] = row[d]
    BY <1>2, ApplyCases DEF Status
  <2>2. Fade /\ WordsKept BY <2>1, ClosedFade
  <2>3. QED BY <1>2, <2>2 DEF Apply, past
<1>3. ASSUME NEW c \in Candidates, Discard(c)
      PROVE  Fade /\ WordsKept /\ UNCHANGED blurred
  BY <1>3, DiscardCases, ClosedFade DEF Discard, Status
<1>4. ASSUME NEW p \in Processes, StoreSummary(p) PROVE Fade /\ UNCHANGED blurred
  BY <1>4, StoreCases DEF StoreSummary, past
<1>5. ASSUME NEW p \in Processes, LookAction(p) \/ CheckAction(p)
      PROVE  Fade /\ WordsKept /\ UNCHANGED blurred
  BY <1>5, LookIsQuiet, CheckIsQuiet, KeptWordsFade DEF Quiet
<1>6. CASE UserAction
  BY <1>6, UserIsQuiet, KeptWordsFade DEF Quiet
<1>7. CASE UNCHANGED vars
  BY <1>7 DEF vars, past, Fade, WordsKept, Kept, Open, Active, Status
<1>8. QED BY <1>1, <1>2, <1>3, <1>4, <1>5, <1>6, <1>7, NextCases

LEMMA SourceTypes ==
    ASSUME TypeOK
    PROVE  /\ \A c \in Candidates : row[c].sources \subseteq Memories
           /\ \A m \in Memories : text[m] # None => text[m] \in Texts
           /\ \A m \in Memories, t \in Texts : t \in Nat
BY Constants DEF TypeOK, Versions

\* What grew once still has grown while its candidate is open.
LEMMA GrownStays ==
    ASSUME TypeOK, TypeOK', ArgsFit, [Next]_vars, NEW c \in Open',
           NEW m \in row'[c].sources, NEW versions, Grown(versions, m)
    PROVE  versions[m] \in Texts /\ (text'[m] # None => text'[m] >= versions[m])
<1>1. m \in Memories
  BY DEF TypeOK, Open, Active
<1>2. SUFFICES ASSUME text'[m] # None PROVE text'[m] >= versions[m]
  BY DEF Grown
<1>3. text[m] # None /\ text'[m] >= text[m]
  BY <1>1, <1>2, TextsGrow
<1>4. text[m] \in Nat /\ text'[m] \in Nat /\ versions[m] \in Nat
  BY <1>1, <1>2, <1>3, Constants DEF TypeOK, Versions, Grown
<1>5. text[m] >= versions[m]
  BY <1>3 DEF Grown
<1>6. QED BY <1>3, <1>4, <1>5

\* A process that is about to store a summary read for it has just read, or waits.
LEMMA Readers ==
    ASSUME TypeOK, [Next]_vars, NEW q \in Processes,
           pc'[q] \in {"staging", "promoting"}
    PROVE  \/ pc'[q] = pc[q] /\ arg'[q] = arg[q] /\ base'[q] = base[q]
           \/ CheckStage(q) /\ pc'[q] = "staging" /\ UNCHANGED row
              /\ arg'[q] \in Candidates /\ base'[q] = row[arg'[q]].words
           \/ CheckPromote(q) /\ pc'[q] = "promoting" /\ UNCHANGED row
              /\ arg'[q] \in Candidates /\ base'[q] = Take(row[arg'[q]].sources)
              /\ Status(arg'[q]) = "nudge_exhausted"
              /\ \A m \in row[arg'[q]].sources : text[m] # None
<1> USE DEF TypeOK
<1>1. CASE UNCHANGED process BY <1>1 DEF process
<1>2. ASSUME Rest(q) PROVE pc'[q] = "idle"
  BY <1>2 DEF Rest
<1>3. ASSUME NEW there, NEW what, NEW versions, Go(q, there, what, versions)
      PROVE  pc'[q] = there /\ arg'[q] = what /\ base'[q] = versions
  BY <1>3 DEF Go
<1>4. ASSUME NEW p \in Processes, p # q,
             Scan(p) \/ Review(p) \/ Abandon(p) \/ Recall(p) \/ ReadForMerge(p) \/ Merge(p)
      PROVE  pc'[q] = pc[q] /\ arg'[q] = arg[q] /\ base'[q] = base[q]
  BY <1>4 DEF Scan, ReadActive, CheckRow, MarkRow, Find, Persist, Review, CheckStage,
     CheckPromote, StoreSummary, CheckApply, ApplyRefused, Apply, Abandon, Recall,
     ReadForMerge, Merge, Rest, Go, process
<1>5. CASE Scan(q) \/ Abandon(q) \/ Recall(q) \/ ReadForMerge(q) \/ Merge(q)
  <2>1. CASE ReadActive(q) BY <2>1 DEF ReadActive
  <2>2. CASE CheckRow(q) BY <2>2 DEF CheckRow
  <2>3. CASE MarkRow(q) BY <2>3 DEF MarkRow
  <2>4. CASE Find(q) BY <1>2, <1>3, <2>4 DEF Find
  <2>5. CASE Persist(q) BY <1>2, <2>5 DEF Persist
  <2>6. CASE Abandon(q) \/ Merge(q) BY <1>2, <2>6 DEF Abandon, Merge
  <2>7. CASE Recall(q) BY <1>3, <2>7 DEF Recall
  <2>8. CASE ReadForMerge(q) BY <1>2, <2>8 DEF ReadForMerge
  <2>9. QED BY <1>5, <2>1, <2>2, <2>3, <2>4, <2>5, <2>6, <2>7, <2>8 DEF Scan
<1>6. CASE Review(q)
  <2>1. CASE CheckStage(q) BY <1>1, <1>3, <2>1 DEF CheckStage
  <2>2. CASE CheckPromote(q) BY <1>1, <1>3, <2>2, ZenonT(60) DEF CheckPromote
  <2>3. CASE CheckApply(q) BY <1>1, <1>3, <2>3 DEF CheckApply
  <2>4. CASE StoreSummary(q) \/ ApplyRefused(q) \/ Apply(q)
    BY <1>2, <2>4 DEF StoreSummary, ApplyRefused, Apply
  <2>5. QED BY <1>6, <2>1, <2>2, <2>3, <2>4 DEF Review
<1>7. CASE \E c \in Candidates : Discard(c)
  BY <1>1, <1>7 DEF Discard
<1>8. CASE UserAction \/ UNCHANGED vars
  BY <1>1, <1>8, UserIsQuiet DEF vars
<1>9. CASE \E p \in Processes : LookAction(p) \/ CheckAction(p) \/ StoreSummary(p)
                                   \/ MarkRow(p) \/ Persist(p) \/ Apply(p)
  <2>1. PICK p \in Processes :
           Scan(p) \/ Review(p) \/ Abandon(p) \/ Recall(p) \/ ReadForMerge(p) \/ Merge(p)
    BY <1>9 DEF Scan, Review, LookAction, CheckAction
  <2>2. CASE p # q BY <1>4, <2>1, <2>2
  <2>3. QED BY <1>5, <1>6, <2>1, <2>2
<1>10. QED BY <1>7, <1>8, <1>9, NextCases

LEMMA PersistReads ==
    ASSUME TypeOK, TypeOK', ArgsFit, ReadInv, NEW p \in Processes, Persist(p)
    PROVE  ReadInv'
<1> DEFINE S == Taken(base[p])
<1>0. /\ UNCHANGED text /\ S \subseteq Memories
      /\ [Next]_vars
  BY VersionTypes DEF Persist, memories, TypeOK, Next, Scan
<1>1. /\ pc'[p] = "idle"
      /\ \A q \in Processes \ {p} : pc'[q] = pc[q] /\ arg'[q] = arg[q] /\ base'[q] = base[q]
  BY DEF Persist, Rest, TypeOK
<1> HIDE DEF S
<1>2. CASE UNCHANGED <<row, blurred>>
  <2>1. Open' = Open /\ Active' = Active /\ blurred' = blurred
    BY <1>2 DEF Open, Active, Status
  <2>2. QED BY <1>0, <1>1, <1>2, <2>1 DEF ReadInv, Sharp, Says, Grown, Status
<1>3. CASE ~UNCHANGED <<row, blurred>>
  <2>1. PICK c \in Candidates :
                 /\ Status(c) = "none"
                 /\ Status(c)' = "pending_summary" /\ row'[c].sources = S
                 /\ row'[c].snapshot = Take(S) /\ row'[c].words = base[p]
                 /\ \A d \in Candidates \ {c} :
                       \/ row'[d] = row[d]
                       \/ Status(d)' = "stale"
                 /\ blurred' = IF Take(S) # base[p] THEN blurred \cup {c} ELSE blurred
    BY <1>3, PersistCases DEF S
  <2>2. \A d \in Open' \ {c} : /\ d \in Open /\ row'[d] = row[d]
                               /\ d \in Sharp' => d \in Sharp
                               /\ d \in Active' => d \in Active
    BY <2>1 DEF Open, Active, Status, Sharp
  <2>3. ASSUME c \in Sharp', NEW m \in S
        PROVE  /\ base[p][m] = text[m] /\ Take(S)[m] = text[m]
               /\ text[m] \in Texts /\ text[m] \in Nat
    <3>1. Take(S) = base[p] BY <2>1, <2>3 DEF Sharp
    <3>2. m \in Memories /\ base[p][m] # None BY <1>0 DEF S, Taken
    <3>3. Take(S)[m] = text[m] BY <3>2 DEF Take
    <3>4. QED BY <3>1, <3>2, <3>3, SourceTypes
  <2>4. ASSUME NEW d \in Sharp', NEW m \in row'[d].sources
        PROVE  row'[d].snapshot[m] \in Texts
               /\ (text'[m] # None => text'[m] >= row'[d].snapshot[m])
    BY <1>0, <2>1, <2>2, <2>3 DEF ReadInv, Grown, Sharp
  <2>5. ASSUME NEW d \in Sharp' \cap Active', NEW m \in row'[d].sources
        PROVE  /\ row'[d].words[m] \in Texts
               /\ text'[m] # None => text'[m] >= row'[d].words[m]
               /\ row'[d].words[m] >= row'[d].snapshot[m]
    <3>1. CASE d = c BY <1>0, <2>1, <2>3, <3>1
    <3>2. CASE d # c BY <1>0, <2>2, <3>2 DEF ReadInv, Says, Grown, Sharp
    <3>3. QED BY <3>1, <3>2
  <2>6. ASSUME NEW q \in Processes, pc'[q] = "staging",
               row'[arg'[q]].status = "pending_summary"
        PROVE  base'[q] = row'[arg'[q]].words
    <3>1. q # p /\ pc[q] = "staging" /\ arg'[q] = arg[q] /\ base'[q] = base[q]
      BY <1>1, <2>6
    <3>2. arg[q] \in Candidates /\ Status(arg[q]) # "none"
      BY <3>1 DEF ArgsFit, Asks
    <3>3. arg[q] # c /\ row'[arg[q]] = row[arg[q]]
      BY <2>1, <2>6, <3>1, <3>2 DEF Status
    <3>4. QED BY <2>6, <3>1, <3>3 DEF ReadInv, Status
  <2>7. ASSUME NEW q \in Processes, pc'[q] = "promoting", arg'[q] \in Sharp',
               NEW m \in row'[arg'[q]].sources
        PROVE  /\ base'[q][m] \in Texts
               /\ text'[m] # None => text'[m] >= base'[q][m]
               /\ base'[q][m] >= row'[arg'[q]].snapshot[m]
    <3>1. q # p /\ pc[q] = "promoting" /\ arg'[q] = arg[q] /\ base'[q] = base[q]
      BY <1>1, <2>7
    <3>2. arg[q] \in Candidates /\ Status(arg[q]) # "none"
      BY <3>1 DEF ArgsFit, Asks
    <3>3. arg[q] # c /\ arg[q] \in Sharp /\ row'[arg[q]] = row[arg[q]]
      BY <2>1, <2>2, <2>7, <3>1, <3>2 DEF Sharp
    <3>4. QED BY <1>0, <2>7, <3>1, <3>3 DEF ReadInv, Says, Grown
  <2>8. QED BY <2>4, <2>5, <2>6, <2>7 DEF ReadInv, Says, Grown, Status
<1>4. QED BY <1>2, <1>3

LEMMA FadeReads ==
    ASSUME TypeOK, TypeOK', ArgsFit, ReadInv, [Next]_vars, Fade, UNCHANGED blurred,
           WordsKept \/ \E p \in Processes : StoreSummary(p)
    PROVE  ReadInv'
<1>1. \A c \in Open' : Kept(c) /\ (c \in Sharp' => c \in Sharp)
  BY DEF Fade, Sharp, Kept
<1>2. ASSUME NEW c \in Sharp', NEW m \in row'[c].sources
      PROVE  row'[c].snapshot[m] \in Texts
             /\ (text'[m] # None => text'[m] >= row'[c].snapshot[m])
  <2>1. c \in Open' /\ c \in Sharp BY <1>1, <1>2 DEF Sharp
  <2>2. row'[c].snapshot = row[c].snapshot /\ m \in row[c].sources
    BY <1>1, <1>2, <2>1 DEF Kept
  <2>3. Grown(row[c].snapshot, m) BY <2>1, <2>2 DEF ReadInv
  <2>4. QED BY <1>2, <2>1, <2>2, <2>3, GrownStays
<1>3. ASSUME NEW c \in Sharp', NEW versions, Says(c, versions),
             NEW m \in row'[c].sources
      PROVE  /\ versions[m] \in Texts
             /\ text'[m] # None => text'[m] >= versions[m]
             /\ versions[m] >= row'[c].snapshot[m]
  <2>1. c \in Open' BY <1>3 DEF Sharp
  <2>2. row'[c].snapshot = row[c].snapshot /\ m \in row[c].sources
    BY <1>1, <1>3, <2>1 DEF Kept
  <2>3. Grown(versions, m) /\ versions[m] >= row[c].snapshot[m]
    BY <1>3, <2>2 DEF Says
  <2>4. QED BY <1>3, <2>1, <2>2, <2>3, GrownStays
<1>4. ASSUME NEW c \in Sharp' \cap Active'
      PROVE  Says(c, row'[c].words)
  <2>1. c \in Sharp BY <1>1, <1>4 DEF Sharp
  <2>2. CASE c \in Active /\ row'[c].words = row[c].words
    BY <2>1, <2>2 DEF ReadInv
  <2>3. ASSUME NEW p \in Processes, StoreSummary(p), c = arg[p], Status(c) = Awaits(p),
               row'[c].words = base[p]
        PROVE  Says(c, row'[c].words)
    <3>1. CASE pc[p] = "staging"
      <4>1. c \in Active /\ base[p] = row[c].words
        BY <2>1, <2>3, <3>1 DEF ReadInv, Awaits, Active, Sharp, Open
      <4>2. QED BY <2>1, <2>3, <4>1 DEF ReadInv
    <3>2. CASE pc[p] = "promoting"
      BY <2>1, <2>3, <3>2 DEF ReadInv
    <3>3. QED BY <2>3, <3>1, <3>2 DEF StoreSummary
  <2>4. ASSUME NEW p \in Processes, StoreSummary(p)
        PROVE  Says(c, row'[c].words)
    BY <1>4, <2>2, <2>3, <2>4, StoreCases
  <2>5. CASE WordsKept BY <1>4, <2>2, <2>5 DEF WordsKept
  <2>6. QED BY <2>4, <2>5
<1>5. ASSUME NEW q \in Processes, pc'[q] = "staging",
             row'[arg'[q]].status = "pending_summary", arg'[q] \in Candidates
      PROVE  base'[q] = row'[arg'[q]].words
  <2> DEFINE c == arg'[q]
  <2>1. Status(arg'[q]) = "pending_summary" /\ row'[arg'[q]].words = row[arg'[q]].words
    <3>1. \A d \in Candidates : row'[d].status = "pending_summary" =>
             row[d].status = "pending_summary" /\ row'[d].words = row[d].words
      BY DEF Fade, Open, Active, Status
    <3>2. QED BY <1>5, <3>1 DEF Status
  <2>2. CASE pc'[q] = pc[q] /\ arg'[q] = arg[q] /\ base'[q] = base[q]
    BY <1>5, <2>1, <2>2 DEF ReadInv
  <2>3. QED BY <1>5, <2>1, <2>2, Readers
<1>6. ASSUME NEW q \in Processes, pc'[q] = "promoting", arg'[q] \in Sharp'
      PROVE  Says(arg'[q], base'[q])
  <2>1. arg'[q] \in Sharp
    BY <1>1, <1>6 DEF Sharp
  <2>2. CASE pc'[q] = pc[q] /\ arg'[q] = arg[q] /\ base'[q] = base[q]
    BY <1>6, <2>1, <2>2 DEF ReadInv
  <2>3. CASE /\ arg'[q] \in Candidates /\ base'[q] = Take(row[arg'[q]].sources)
             /\ \A m \in row[arg'[q]].sources : text[m] # None
    <3>1. ASSUME NEW m \in row[arg'[q]].sources
          PROVE  /\ base'[q][m] = text[m] /\ text[m] \in Texts /\ text[m] \in Nat
                 /\ text[m] >= row[arg'[q]].snapshot[m]
      <4>1. m \in Memories /\ text[m] \in Texts /\ text[m] \in Nat
        BY <2>3, <3>1, SourceTypes
      <4>2. Grown(row[arg'[q]].snapshot, m) BY <2>1, <3>1 DEF ReadInv
      <4>3. QED BY <2>3, <3>1, <4>1, <4>2 DEF Take, Grown
    <3>2. QED BY <3>1 DEF Says, Grown
  <2>4. QED BY <1>6, <2>2, <2>3, Readers
<1>7. \A q \in Processes : pc'[q] = "staging" => arg'[q] \in Candidates
  BY NextArgs DEF ArgsFit, Asks
<1>8. QED
  <2>1. \A c \in Sharp' : \A m \in row'[c].sources :
           /\ row'[c].snapshot[m] \in Texts
           /\ text'[m] # None => text'[m] >= row'[c].snapshot[m]
    BY <1>2
  <2>2. \A c \in Sharp' \cap Active' : \A m \in row'[c].sources :
           /\ row'[c].words[m] \in Texts
           /\ text'[m] # None => text'[m] >= row'[c].words[m]
           /\ row'[c].words[m] >= row'[c].snapshot[m]
    BY <1>3, <1>4
  <2>3. \A q \in Processes : pc'[q] = "promoting" /\ arg'[q] \in Sharp' =>
           \A m \in row'[arg'[q]].sources :
              /\ base'[q][m] \in Texts
              /\ text'[m] # None => text'[m] >= base'[q][m]
              /\ base'[q][m] >= row'[arg'[q]].snapshot[m]
    BY <1>3, <1>6
  <2>4. QED BY <1>5, <1>7, <2>1, <2>2, <2>3 DEF ReadInv, Says, Grown, Status

LEMMA NextReads == TypeOK /\ ArgsFit /\ ReadInv /\ [Next]_vars => ReadInv'
BY NextTypes, MostFade, FadeReads, PersistReads

\* A memory that was already hidden stays as it is, or the change is on record.
LEMMA StaysRead ==
    ASSUME TypeOK, NothingHiddenUnread, NEW m \in Memories,
           into'[m] = into[m], into[m] # None, blurred \subseteq blurred',
           m \notin touched' => m \notin touched /\ text'[m] = text[m],
           summary'[into[m]].covers = summary[into[m]].covers,
           m \notin touched', into'[m] \notin blurred'
    PROVE  summary'[into'[m]].covers[m] = text'[m]
BY DEF NothingHiddenUnread

LEMMA MergeIsSeen ==
    ASSUME TypeOK, ArgsFit, NEW p \in Processes, Merge(p), NEW m \in Memories,
           into[m] # None
    PROVE  m \notin touched' => m \notin touched /\ text'[m] = text[m]
<1> USE DEF TypeOK
<1>1. arg[p] \in Memories /\ base[p][arg[p]] # None
  BY DEF Merge, ArgsFit
<1>2. CASE Untouched(p)
  <2>1. PICK t \in Texts : t > text[arg[p]] /\ Write(arg[p], t, meta[p] # None)
    BY <1>2 DEF Merge
  <2>2. text[arg[p]] \in Nat /\ into[arg[p]] = meta[p] /\ t \in Nat
    BY <1>1, <1>2, SourceTypes DEF Untouched
  <2>3. t # text[arg[p]] BY <2>1, <2>2
  <2>4. QED BY <1>1, <2>1, <2>2, <2>3 DEF Write, Versions
<1>3. CASE ~Untouched(p) BY <1>3 DEF Merge
<1>4. QED BY <1>2, <1>3

LEMMA ApplyIsRead ==
    ASSUME TypeOK, ArgsFit, ReviewInv, SourcesHaveTheirSummary, ReadInv,
           NothingHiddenUnread, NEW p \in Processes, Apply(p)
    PROVE  NothingHiddenUnread'
<1>1. PICK c \in Candidates :
         /\ c = arg[p] /\ Status(c) = "summary_staged"
         /\ summary'[c].covers = row[c].words
         /\ \A d \in Candidates \ {c} : summary'[d] = summary[d]
         /\ into' = [m \in Memories |-> IF m \in row[c].sources THEN c ELSE into[m]]
  BY ApplyCases
<1>2. UNCHANGED <<text, touched, blurred>>
  BY DEF Apply, past
<1>3. ASSUME NEW m \in row[c].sources, c \notin blurred
      PROVE  row[c].words[m] = text[m]
  <2>1. text[m] # None /\ text[m] = row[c].snapshot[m]
    BY <1>1, <1>3 DEF Apply, Applicable, Sound, Whole
  <2>2. Grown(row[c].words, m) /\ row[c].words[m] >= row[c].snapshot[m]
    BY <1>1, <1>3 DEF ReadInv, Says, Sharp, Open, Active
  <2>3. row[c].words[m] \in Nat /\ text[m] \in Nat
    BY <1>1, <1>3, <2>1, <2>2, SourceTypes DEF Grown
  <2>4. QED BY <2>1, <2>2, <2>3 DEF Grown
<1>4. \A m \in Memories : into[m] # c
  <2>1. ~summary[c].live
    <3>1. c \notin overrun BY <1>1 DEF ReviewInv, VerdictInv
    <3>2. summary[c].made <= 1 /\ summary[c].made # 1
      BY <1>1, <3>1 DEF ReviewInv, ReviewsAreFinal, OneVerdict
    <3>3. summary[c].made \in Nat /\ summary[c].live \in BOOLEAN BY DEF TypeOK
    <3>4. summary[c].made = 0 BY <3>2, <3>3
    <3>5. QED BY <3>4 DEF ReviewInv, VerdictInv
  <2>2. QED BY <2>1, Constants DEF SourcesHaveTheirSummary
<1>5. SUFFICES ASSUME NEW m \in Memories, into'[m] # None, m \notin touched',
                      into'[m] \notin blurred'
               PROVE  summary'[into'[m]].covers[m] = text'[m]
  BY DEF NothingHiddenUnread
<1>6. CASE m \in row[c].sources
  BY <1>1, <1>2, <1>3, <1>5, <1>6
<1>7. CASE m \notin row[c].sources
  <2>1. into'[m] = into[m] /\ into[m] \in Candidates \ {c}
    BY <1>1, <1>4, <1>5, <1>7 DEF TypeOK
  <2>2. QED BY <1>1, <1>2, <1>5, <2>1, StaysRead
<1>8. QED BY <1>6, <1>7

LEMMA NextUnread ==
    ASSUME TypeOK, ArgsFit, ReviewInv, SourcesHaveTheirSummary, ReadInv,
           NothingHiddenUnread, [Next]_vars
    PROVE  NothingHiddenUnread'
<1> USE DEF TypeOK
<1>0. SUFFICES ASSUME ~\E p \in Processes : Apply(p),
                      NEW m \in Memories, into'[m] # None, m \notin touched',
                      into'[m] \notin blurred'
               PROVE  summary'[into'[m]].covers[m] = text'[m]
  BY ApplyIsRead DEF NothingHiddenUnread
<1>1. blurred \subseteq blurred'
  <2>1. ASSUME NEW p \in Processes, Persist(p) PROVE blurred \subseteq blurred'
    BY <2>1, PersistCases
  <2>2. QED BY <2>1, MostFade
<1>2. CASE UNCHANGED <<text, into, summary, touched>>
  BY <1>0, <1>1, <1>2, StaysRead
<1>3. ASSUME NEW p \in Processes, Merge(p)
      PROVE  summary'[into'[m]].covers[m] = text'[m]
  BY <1>0, <1>1, <1>3, MergeIsSeen, StaysRead DEF Merge
<1>4. ASSUME NEW n \in Memories, Replace(n)
      PROVE  summary'[into'[m]].covers[m] = text'[m]
  <2>1. into'[m] = into[m] /\ summary' = summary
    BY <1>4 DEF Replace
  <2>2. m \notin touched' => m \notin touched /\ text'[m] = text[m]
    BY <1>0, <1>4, <2>1 DEF Replace, Write, Versions
  <2>3. QED BY <1>0, <1>1, <2>1, <2>2, StaysRead
<1>5. ASSUME NEW c \in Candidates, ReplaceSummary(c)
      PROVE  summary'[into'[m]].covers[m] = text'[m]
  <2>1. /\ UNCHANGED <<text, into, touched>>
        /\ \A d \in Candidates : summary'[d].covers = summary[d].covers
    BY <1>5 DEF ReplaceSummary, past
  <2>2. QED BY <1>0, <1>1, <2>1, StaysRead
<1>6. CASE DeleteSome
  <2>1. PICK S \in SUBSET Memories, C \in SUBSET Candidates : Delete(S, C)
    BY <1>6 DEF DeleteSome
  <2>2. m \notin S \cup Restored(C) /\ into'[m] = into[m] /\ text'[m] = text[m]
    BY <1>0, <2>1 DEF Delete
  <2>3. into[m] \in Candidates \ C
    BY <1>0, <2>2 DEF Restored
  <2>4. summary'[into[m]].covers = summary[into[m]].covers
    BY <2>1, <2>3 DEF Delete
  <2>5. QED BY <1>0, <1>1, <2>1, <2>2, <2>4, StaysRead DEF Delete
<1>7. ASSUME NEW n \in Memories, DropWithLog(n)
      PROVE  summary'[into'[m]].covers[m] = text'[m]
  <2>1. m # n BY <1>0, <1>7 DEF DropWithLog
  <2>2. /\ into'[m] = into[m] /\ text'[m] = text[m] /\ summary' = summary
        /\ m \notin touched
    BY <1>0, <1>7, <2>1 DEF DropWithLog, Versions
  <2>3. QED BY <1>0, <1>1, <2>2, StaysRead
<1>8. QED
  BY <1>0, <1>2, <1>3, <1>4, <1>5, <1>6, <1>7
     DEF Next, Scan, ReadActive, CheckRow, MarkRow, Find, Persist, Review, CheckStage,
         CheckPromote, StoreSummary, CheckApply, ApplyRefused, Abandon, Recall,
         ReadForMerge, Claim, Expire, Discard, memories, past, vars

-----------------------------------------------------------------------------
IInv == TypeOK /\ ArgsFit /\ ReviewInv /\ SourcesHaveTheirSummary /\ ReadInv
        /\ NothingHiddenUnread

LEMMA InitInv == Init => IInv
<1> SUFFICES ASSUME Init PROVE IInv
  OBVIOUS
<1>1. SourcesHaveTheirSummary /\ NothingHiddenUnread
  BY DEF Init, SourcesHaveTheirSummary, NothingHiddenUnread, NoSummary
<1>2. ReadInv
  BY DEF Init, ReadInv, Sharp, Open, Active, Status, NoRow
<1>3. QED BY <1>1, <1>2, InitTypes, InitReviews DEF IInv

LEMMA NextInv == IInv /\ [Next]_vars => IInv'
BY NextTypes, NextArgs, NextReviews, NextSources, NextReads, NextUnread DEF IInv

THEOREM Invariance == Spec => []IInv
BY InitInv, NextInv, PTL DEF Spec

\* In every state all variables have their types: what a process carries from one
\* step of a scan, a review or a merge to the next is what that step can work on.
THEOREM TypeCorrect == Spec => []TypeOK
<1>1. IInv => TypeOK BY DEF IInv
<1>2. QED BY <1>1, Invariance, PTL

\* However many scans and reviewers overlap, and however late they are, a memory is
\* in one open candidate, what was rejected is not proposed again, and a candidate
\* has one verdict which its row tells.
THEOREM ReviewsFinal == Spec => []ReviewsAreFinal
<1>1. IInv => ReviewsAreFinal BY DEF IInv, ReviewInv
<1>2. QED BY <1>1, Invariance, PTL

\* No sequence of applies, replacements and deletes hides a memory without a summary
\* or leaves a summary that names what is not behind it.
THEOREM SourcesHaveSummaries == Spec => []SourcesHaveTheirSummary
<1>1. IInv => SourcesHaveTheirSummary BY DEF IInv
<1>2. QED BY <1>1, Invariance, PTL

\* The text of a hidden memory is the one its summary was written from, whoever
\* wrote the summary and whatever was merged or replaced meanwhile.
THEOREM HiddenWasRead == Spec => []NothingHiddenUnread
<1>1. IInv => NothingHiddenUnread BY DEF IInv
<1>2. QED BY <1>1, Invariance, PTL

-----------------------------------------------------------------------------
(* The terminals.                                                            *)

-----------------------------------------------------------------------------
(* Who takes a step.                                                         *)

ShellStep(s) == Output(s) \/ ShellExit(s) \/ Wedge(s) \/ HangUp(s)

SessionStep(s) ==
    ShellStep(s) \/ ReadTorn(s) \/ ReaderStep(s) \/ CommandStep(s) \/ SweepKill(s)

ClientStep(c) == Request(c) \/ HandlerStep(c) \/ Pump(c)

LEMMA TerminalSteps ==
    ASSUME TerminalNext
    PROVE  \/ \E s \in Sessions : SessionStep(s)
           \/ \E c \in Clients : ClientStep(c)
           \/ Sweep
BY DEF TerminalNext, SessionStep, ShellStep, ClientStep

-----------------------------------------------------------------------------
(* What is put into a queue stays there, in its order.                       *)

\* Every queue is as it was or has e added to it.
Adds(e) ==
    /\ wire' \in [Clients -> Seq(Event)]
    /\ \A c \in Clients :
          /\ Len(wire[c]) <= Len(wire'[c])
          /\ \A i \in 1 .. Len(wire[c]) : wire'[c][i] = wire[c][i]
          /\ \A i \in 1 .. Len(wire'[c]) : i > Len(wire[c]) => wire'[c][i] = e

Has(c, e) == \E i \in 1 .. Len(wire[c]) : wire[c][i] = e

LEMMA EmitAdds ==
    ASSUME EventsType, NEW c \in Clients \cup {Nil}, NEW e \in Event, EmitTo(c, e)
    PROVE  /\ Adds(e)
           /\ c \in Clients /\ stage[c] # "gone" => Has(c, e)'
<1> USE TerminalAssumption DEF EventsType
<1>1. CASE UNCHANGED wire /\ (c = Nil \/ stage[c] = "gone")
  <2>1. \A d \in Clients : wire[d] \in Seq(Event) OBVIOUS
  <2>2. Adds(e) BY <1>1, <2>1 DEF Adds
  <2>3. QED BY <1>1, <2>2
<1>2. CASE c # Nil /\ stage[c] # "gone" /\ wire' = [wire EXCEPT ![c] = Append(@, e)]
  <2>1. c \in Clients /\ wire[c] \in Seq(Event) BY <1>2
  <2> DEFINE q == Append(wire[c], e)
  <2>2. /\ q \in Seq(Event) /\ Len(q) = Len(wire[c]) + 1 /\ Len(wire[c]) \in Nat
        /\ \A i \in 1 .. Len(wire[c]) : q[i] = wire[c][i]
        /\ q[Len(wire[c]) + 1] = e
    BY <2>1
  <2> HIDE DEF q
  <2>3. wire' = [wire EXCEPT ![c] = q] BY <1>2 DEF q
  <2>4. wire' \in [Clients -> Seq(Event)] BY <2>1, <2>2, <2>3
  <2>5. wire'[c] = q /\ \A d \in Clients \ {c} : wire'[d] = wire[d]
    BY <2>1, <2>3
  <2>6. \A d \in Clients : Len(wire[d]) \in Nat OBVIOUS
  <2>7. ASSUME NEW d \in Clients
        PROVE  /\ Len(wire[d]) <= Len(wire'[d])
               /\ \A i \in 1 .. Len(wire[d]) : wire'[d][i] = wire[d][i]
               /\ \A i \in 1 .. Len(wire'[d]) : i > Len(wire[d]) => wire'[d][i] = e
    <3>1. CASE d = c BY <2>2, <2>5, <3>1
    <3>2. CASE d # c BY <2>5, <2>6, <3>2
    <3>3. QED BY <3>1, <3>2
  <2>8. Has(c, e)' BY <2>2, <2>5 DEF Has
  <2>9. QED BY <2>1, <2>4, <2>7, <2>8 DEF Adds
<1>3. QED BY <1>1, <1>2 DEF EmitTo

LEMMA EventTypes ==
    ASSUME NEW s \in Sessions
    PROVE  /\ StatusEvent(s) \in Event /\ ExitEvent(s) \in Event
           /\ \A q \in Seq(Chunks) : DataEvent(s, q) \in Event
<1>1. <<>> \in Seq(Chunks) OBVIOUS
<1>2. QED BY <1>1 DEF StatusEvent, ExitEvent, DataEvent, Event

LEMMA AddsType ==
    ASSUME EventsType, NEW e \in Event, Adds(e), UNCHANGED <<sent, pump, known>>,
           condemned' \subseteq Sessions
    PROVE  EventsType'
<1>1. \A c \in Clients : sent'[c] <= Len(wire'[c])
  <2>1. ASSUME NEW c \in Clients PROVE sent'[c] <= Len(wire'[c])
    <3>1. Len(wire[c]) \in Nat /\ Len(wire'[c]) \in Nat /\ sent[c] \in Nat
      BY DEF Adds, EventsType
    <3>2. QED BY <3>1 DEF Adds, EventsType
  <2>2. QED BY <2>1
<1>2. QED BY <1>1 DEF Adds, EventsType

LEMMA TrimmedKeeps ==
    ASSUME NEW S, NEW q \in Seq(S)
    PROVE  /\ Trimmed(q) \in Seq(S) /\ Len(Trimmed(q)) <= Keep
           /\ ChunksOf(Trimmed(q)) \subseteq ChunksOf(q)
<1> USE TerminalAssumption
<1>1. CASE Len(q) <= Keep BY <1>1 DEF Trimmed
<1>2. CASE Len(q) > Keep
  <2> DEFINE m == Len(q) - Keep + 1
             r == SubSeq(q, m, Len(q))
  <2>1. Len(q) \in Nat /\ Keep \in Nat /\ m \in 1 .. Len(q) /\ Len(q) - m + 1 = Keep
    BY <1>2
  <2>2. /\ r \in Seq(S) /\ Len(r) = Keep
        /\ \A i \in 1 .. Keep : r[i] = q[m + i - 1]
    BY <2>1
  <2>3. \A i \in 1 .. Keep : m + i - 1 \in 1 .. Len(q) BY <2>1
  <2>4. Trimmed(q) = r BY <1>2 DEF Trimmed
  <2> HIDE DEF m, r
  <2>5. ChunksOf(r) \subseteq ChunksOf(q) BY <2>2, <2>3 DEF ChunksOf
  <2>6. QED BY <2>1, <2>2, <2>4, <2>5
<1>3. QED BY <1>1, <1>2

LEMMA AppendedChunks ==
    ASSUME NEW S, NEW q \in Seq(S), NEW x \in S
    PROVE  /\ Append(q, x) \in Seq(S)
           /\ ChunksOf(Append(q, x)) = ChunksOf(q) \cup {x}
           /\ ChunksOf(<<x>>) = {x}
<1>1. /\ Append(q, x) \in Seq(S) /\ Len(Append(q, x)) = Len(q) + 1 /\ Len(q) \in Nat
      /\ \A i \in 1 .. Len(q) : Append(q, x)[i] = q[i]
      /\ Append(q, x)[Len(q) + 1] = x
  OBVIOUS
<1>2. ChunksOf(Append(q, x)) = ChunksOf(q) \cup {x}
  BY <1>1 DEF ChunksOf
<1>3. ChunksOf(<<x>>) = {x} BY DEF ChunksOf
<1>4. QED BY <1>1, <1>2, <1>3

\* A command that is sent to a session that has finished is dropped.
LEMMA SendFacts ==
    ASSUME ThreadsType, NEW s \in Sessions, NEW what \in {"write", "kill"},
           Send(s, what)
    PROVE  /\ cmds' \in [Sessions -> Seq({"write", "kill"})]
           /\ \A t \in Sessions : t # s => cmds'[t] = cmds[t]
           /\ KillSent(s) => KillSent(s)'
           /\ finished[s] => cmds'[s] = cmds[s]
           /\ what = "kill" /\ ~finished[s] => KillSent(s)'
           /\ what = "write" => (KillSent(s)' => KillSent(s))
<1> USE DEF ThreadsType
<1>1. CASE finished[s] BY <1>1 DEF Send, KillSent
<1>2. CASE ~finished[s]
  <2>1. cmds[s] \in Seq({"write", "kill"}) OBVIOUS
  <2> DEFINE q == Append(cmds[s], what)
  <2>2. /\ q \in Seq({"write", "kill"}) /\ Len(q) = Len(cmds[s]) + 1
        /\ Len(cmds[s]) \in Nat /\ q[Len(cmds[s]) + 1] = what
        /\ \A i \in 1 .. Len(cmds[s]) : q[i] = cmds[s][i]
    BY <2>1
  <2> HIDE DEF q
  <2>3. cmds' = [cmds EXCEPT ![s] = q] BY <1>2 DEF Send, q
  <2>4. cmds' \in [Sessions -> Seq({"write", "kill"})] /\ cmds'[s] = q
        /\ \A t \in Sessions : t # s => cmds'[t] = cmds[t]
    BY <2>2, <2>3
  <2>5. KillSent(s) => KillSent(s)' BY <2>2, <2>4 DEF KillSent
  <2>6. what = "kill" => KillSent(s)'
    <3>1. Len(q) \in 1 .. Len(q) BY <2>2
    <3>2. QED BY <2>2, <2>4, <3>1 DEF KillSent
  <2>7. ASSUME what = "write", KillSent(s)' PROVE KillSent(s)
    <3>1. PICK i \in 1 .. Len(q) : q[i] = "kill" BY <2>4, <2>7 DEF KillSent
    <3>2. i \in 1 .. Len(cmds[s]) BY <2>2, <2>7, <3>1
    <3>3. QED BY <2>2, <3>1, <3>2 DEF KillSent
  <2>8. QED BY <1>2, <2>4, <2>5, <2>6, <2>7
<1>3. QED BY <1>1, <1>2

LEMMA TailFacts ==
    ASSUME ThreadsType, NEW s \in Sessions, cmds[s] # <<>>,
           cmds' = [cmds EXCEPT ![s] = Tail(@)]
    PROVE  /\ cmds' \in [Sessions -> Seq({"write", "kill"})]
           /\ \A t \in Sessions : t # s => cmds'[t] = cmds[t]
           /\ KillSent(s)' => KillSent(s)
           /\ Head(cmds[s]) = "write" /\ KillSent(s) => KillSent(s)'
           /\ Head(cmds[s]) = "kill" => KillSent(s)
<1> USE DEF ThreadsType
<1>1. cmds[s] \in Seq({"write", "kill"}) OBVIOUS
<1> DEFINE q == Tail(cmds[s])
<1>2. /\ q \in Seq({"write", "kill"}) /\ Len(q) = Len(cmds[s]) - 1
      /\ Len(cmds[s]) \in Nat \ {0} /\ Head(cmds[s]) = cmds[s][1]
      /\ \A i \in 1 .. Len(q) : q[i] = cmds[s][i + 1]
  BY <1>1
<1> HIDE DEF q
<1>3. cmds' = [cmds EXCEPT ![s] = q] BY DEF q
<1>4. cmds' \in [Sessions -> Seq({"write", "kill"})] /\ cmds'[s] = q
      /\ \A t \in Sessions : t # s => cmds'[t] = cmds[t]
  BY <1>2, <1>3
<1>5. ASSUME KillSent(s)' PROVE KillSent(s)
  <2>1. PICK i \in 1 .. Len(q) : q[i] = "kill" BY <1>4, <1>5 DEF KillSent
  <2>2. i + 1 \in 1 .. Len(cmds[s]) BY <1>2, <2>1
  <2>3. QED BY <1>2, <2>1, <2>2 DEF KillSent
<1>6. ASSUME Head(cmds[s]) = "write", KillSent(s) PROVE KillSent(s)'
  <2>1. PICK i \in 1 .. Len(cmds[s]) : cmds[s][i] = "kill" BY <1>6 DEF KillSent
  <2>2. i # 1 BY <1>2, <1>6, <2>1
  <2>3. i - 1 \in 1 .. Len(q) /\ (i - 1) + 1 = i BY <1>2, <2>1, <2>2
  <2>4. q[i - 1] = "kill" BY <1>2, <2>1, <2>3
  <2>5. QED BY <1>4, <2>3, <2>4 DEF KillSent
<1>7. Head(cmds[s]) = "kill" => KillSent(s)
  <2>1. 1 \in 1 .. Len(cmds[s]) BY <1>2
  <2>2. QED BY <1>2, <2>1 DEF KillSent
<1>8. QED BY <1>4, <1>5, <1>6, <1>7

\* What a queue has told it has told for good.
LEMMA TellsMore ==
    ASSUME EventsType, NEW e \in Event, Adds(e), NEW c \in Clients
    PROVE  /\ Told(c) \subseteq Told(c)'
           /\ Has(c, e)' => ChunksOf(e.data) \subseteq Told(c)'
           /\ \A x : Has(c, x) => Has(c, x)'
<1>1. Len(wire[c]) \in Nat /\ Len(wire'[c]) \in Nat BY DEF EventsType, Adds
<1>2. \A i \in 1 .. Len(wire[c]) : i \in 1 .. Len(wire'[c]) /\ wire'[c][i] = wire[c][i]
  BY <1>1 DEF Adds
<1>3. Told(c) \subseteq Told(c)'
  <2>1. ASSUME NEW x \in Told(c) PROVE x \in Told(c)'
    <3>1. PICK i \in 1 .. Len(wire[c]) : x \in ChunksOf(wire[c][i].data)
      BY DEF Told
    <3>2. i \in 1 .. Len(wire'[c]) /\ x \in ChunksOf(wire'[c][i].data)
      BY <1>2, <3>1
    <3>3. QED BY <3>2 DEF Told, ChunksOf
  <2>2. QED BY <2>1
<1>4. ASSUME Has(c, e)' PROVE ChunksOf(e.data) \subseteq Told(c)'
  <2>1. PICK i \in 1 .. Len(wire'[c]) : wire'[c][i] = e BY <1>4 DEF Has
  <2>2. QED BY <2>1 DEF Told, ChunksOf
<1>5. ASSUME NEW x, Has(c, x) PROVE Has(c, x)'
  BY <1>2, <1>5 DEF Has
<1>6. QED BY <1>3, <1>4, <1>5

LEMMA FreshNotEnding ==
    ASSUME TerminalTypeOK, NEW s \in Sessions, Fresh(s)
    PROVE  ~Ending(s) /\ ~KillSent(s)
<1>1. ~KillSent(s) BY DEF Fresh, KillSent
<1>2. QED BY <1>1 DEF Fresh, Ending, TerminalTypeOK, EntriesType

LEMMA FinishedEnding ==
    ASSUME ShellsInv, NEW s \in Sessions, finished[s]
    PROVE  Ending(s)
BY DEF ShellsInv, ShellFits, Ending

-----------------------------------------------------------------------------
(* Types.                                                                    *)

LEMMA Unread ==
    ASSUME ShellsType, ThreadsType, ShellsInv, NEW s \in Sessions, reader[s] # "off"
    PROVE  fd[s] \in Fds /\ Source(s) \in Sessions \cup {Nil}
BY DEF ShellsType, ThreadsType, ShellsInv, ShellFits, Fresh, Source

LEMMA Handed ==
    ASSUME HandlersType, HandsInv, NEW c \in Clients, stage[c] \notin {"ready", "gone"}
    PROVE  hand[c] \in Sessions /\ hand[c] # Nil
BY TerminalAssumption DEF HandlersType, HandsInv, HandFits

LEMMA SessionKeepsShellsType ==
    ASSUME TerminalTypeOK, ShellsInv, HandsInv, NEW s \in Sessions, SessionStep(s)
    PROVE  ShellsType'
<1> USE TerminalAssumption DEF TerminalTypeOK, ShellsType
<1>1. CASE ReadEmit(s) \/ ReadEnd(s) \/ ReaderKill(s) \/ DoWrite(s)
           \/ ExitEmit(s) \/ SweepKill(s)
  <2>1. UNCHANGED <<shell, wrote, taken, fd, open>>
    BY <1>1 DEF ReadEmit, ReadEnd, ReaderKill, DoWrite, ExitEmit, SweepKill, Emit, Send,
       Mark, If, bounds, commands, entries, events, handler, owner, terminal
  <2>2. QED BY <2>1
<1>2. CASE Output(s)
  BY <1>2 DEF Output, bounds, commands, entries, events, handler, owner, threads
<1>3. CASE ShellExit(s)
  BY <1>3 DEF ShellExit, Become, Up, bounds, commands, entries, events, handler, owner,
     threads
<1>4. CASE Wedge(s)
  BY <1>4 DEF Wedge, Become, Fault, commands, entries, events, handler, owner, threads
<1>5. CASE HangUp(s)
  BY <1>5 DEF HangUp, Become, Fault, commands, entries, events, handler, owner, threads
<1>6. CASE ReadTorn(s)
  BY <1>6, Unread DEF ReadTorn, Fault, Mark, Source, commands, entries, events, handler,
     owner
<1>7. CASE Read(s)
  BY <1>7, Unread DEF Read, Mark, If, Source, bounds, commands, entries, events,
     handler, owner
<1>8. CASE DoKill(s)
  BY <1>8 DEF DoKill, NextIs, bounds, entries, events, handler, owner
<1>9. CASE Finish(s)
  BY <1>9 DEF Finish, bounds, entries, events, handler, owner
<1>10. QED
  BY <1>1, <1>2, <1>3, <1>4, <1>5, <1>6, <1>7, <1>8, <1>9 DEF SessionStep, ShellStep,
     ReaderStep, CommandStep

LEMMA ClientKeepsShellsType ==
    ASSUME TerminalTypeOK, ShellsInv, HandsInv, NEW c \in Clients, ClientStep(c)
    PROVE  ShellsType'
<1> USE TerminalAssumption DEF TerminalTypeOK, ShellsType
<1>1. CASE SpawnRefused(c) \/ AskWrite(c) \/ AskKill(c) \/ Disconnect(c)
           \/ Announce(c) \/ Spawned(c) \/ Found(c) \/ TakeOver(c) \/ Snapshot(c)
           \/ Replay(c) \/ Attached(c) \/ Leave(c) \/ Pump(c)
           \/ \E s \in Sessions : Look(c, s)
  <2>1. UNCHANGED <<shell, wrote, taken, fd, open>>
    BY <1>1 DEF SpawnRefused, AskWrite, AskKill, Disconnect, Announce, Spawned, Found,
       TakeOver, Snapshot, Replay, Attached, Leave, Pump, Look, Ask, Rebind, Send, Goto,
       Emit, Mark, If, EmitTo, Remove, Detach, bounds, commands, entries, events,
       handler, owner, terminal, threads
  <2>2. QED BY <2>1
<1>2. ASSUME NEW s \in Sessions, Spawn(c, s) PROVE ShellsType'
  BY <1>2 DEF Spawn, Forked, Ask, Goto, Listening, Unbound, events
<1>3. ASSUME NEW s \in Sessions, SpawnFails(c, s) PROVE ShellsType'
  BY <1>3 DEF SpawnFails, Forked, Fault, Rebind, Listening, Unbound, events
<1>4. QED
  BY <1>1, <1>2, <1>3 DEF ClientStep, Request, HandlerStep

LEMMA SessionKeepsThreadsType ==
    ASSUME TerminalTypeOK, ShellsInv, HandsInv, NEW s \in Sessions, SessionStep(s)
    PROVE  ThreadsType'
<1> USE TerminalAssumption DEF TerminalTypeOK, ThreadsType
<1>1. CASE Output(s) \/ ShellExit(s) \/ Wedge(s) \/ HangUp(s)
  <2>1. UNCHANGED <<reader, chunk, scroll, cmds, cmd, finished>>
    BY <1>1 DEF Output, ShellExit, Wedge, HangUp, Become, Fault, bounds, commands,
       entries, events, handler, owner, threads
  <2>2. QED BY <2>1
<1>2. CASE ReadTorn(s)
  BY <1>2, Unread DEF ReadTorn, Fault, Mark, Source, commands, entries, events, handler,
     owner
<1>3. CASE Read(s)
  <2> DEFINE new == <<Source(s), taken[Source(s)] + 1>>
             q == Append(scroll[s], new)
  <2>1. Source(s) \in Sessions BY <1>3, Unread DEF Read
  <2>2. new \in Chunks
    <3>1. taken[Source(s)] \in 0 .. MaxOut BY <2>1 DEF ShellsType
    <3>2. taken[Source(s)] + 1 \in Nat BY <3>1
    <3>3. QED BY <2>1, <3>2 DEF Chunks
  <2>3. /\ chunk' = [chunk EXCEPT ![s] = <<new>>]
        /\ scroll' = [scroll EXCEPT ![s] = Trimmed(q)]
        /\ reader' = [reader EXCEPT ![s] = "kept"] /\ UNCHANGED commands
    BY <1>3 DEF Read
  <2> HIDE DEF new
  <2>4. q \in Seq(Chunks) /\ <<new>> \in Seq(Chunks) BY <2>2
  <2> HIDE DEF q
  <2>5. Trimmed(q) \in Seq(Chunks) /\ Len(Trimmed(q)) <= Keep
    BY <2>4, TrimmedKeeps
  <2>6. scroll' \in [Sessions -> Seq(Chunks)]
        /\ \A t \in Sessions : Len(scroll'[t]) <= Keep
    BY <2>3, <2>5
  <2>7. QED BY <2>3, <2>4, <2>6 DEF commands
<1>4. CASE ReadEmit(s)
  BY <1>4 DEF ReadEmit, Emit, bounds, commands, entries, handler, owner, terminal
<1>5. CASE ReadEnd(s)
  BY <1>5 DEF ReadEnd, Source, bounds, commands, entries, events, handler, owner,
     terminal
<1>6. CASE ReaderKill(s)
  BY <1>6, SendFacts DEF ReaderKill, Send, bounds, entries, events, handler, owner,
     terminal
<1>7. CASE DoWrite(s)
  <2>1. cmds' \in [Sessions -> Seq({"write", "kill"})]
    BY <1>7, TailFacts DEF DoWrite, NextIs
  <2>2. QED
    BY <1>7, <2>1 DEF DoWrite, Mark, If, NextIs, bounds, entries, events, handler,
       owner, terminal
<1>8. CASE DoKill(s)
  <2>1. cmds' \in [Sessions -> Seq({"write", "kill"})]
    BY <1>8, TailFacts DEF DoKill, NextIs
  <2>2. QED BY <1>8, <2>1 DEF DoKill, NextIs, bounds, entries, events, handler, owner
<1>9. CASE Finish(s)
  BY <1>9 DEF Finish, bounds, entries, events, handler, owner
<1>10. CASE ExitEmit(s)
  BY <1>10 DEF ExitEmit, Emit, bounds, entries, handler, owner, terminal
<1>11. CASE SweepKill(s)
  <2>1. cmds' \in [Sessions -> Seq({"write", "kill"})] BY <1>11, SendFacts DEF SweepKill
  <2>2. QED BY <1>11, <2>1 DEF SweepKill
<1>12. QED
  BY <1>1, <1>2, <1>3, <1>4, <1>5, <1>6, <1>7, <1>8, <1>9, <1>10, <1>11 DEF SessionStep,
     ShellStep, ReaderStep, CommandStep

LEMMA ClientKeepsThreadsType ==
    ASSUME TerminalTypeOK, ShellsInv, HandsInv, NEW c \in Clients, ClientStep(c)
    PROVE  ThreadsType'
<1> USE TerminalAssumption DEF TerminalTypeOK, ThreadsType
<1>1. CASE SpawnRefused(c) \/ Disconnect(c) \/ Announce(c) \/ Spawned(c)
           \/ Found(c) \/ TakeOver(c) \/ Snapshot(c) \/ Replay(c) \/ Attached(c)
           \/ Leave(c) \/ Pump(c) \/ \E s \in Sessions : Look(c, s)
  <2>1. UNCHANGED <<reader, chunk, scroll, cmds, cmd, finished>>
    BY <1>1 DEF SpawnRefused, Disconnect, Announce, Spawned, Found, TakeOver, Snapshot,
       Replay, Attached, Leave, Pump, Look, Ask, Rebind, Goto, Emit, Mark, If, EmitTo,
       Remove, Detach, bounds, commands, entries, events, handler, owner, terminal,
       threads
  <2>2. QED BY <2>1
<1>2. ASSUME NEW s \in Sessions, Spawn(c, s) PROVE ThreadsType'
  BY <1>2 DEF Spawn, Forked, Ask, Goto, Listening, Unbound, events
<1>3. ASSUME NEW s \in Sessions, SpawnFails(c, s) PROVE ThreadsType'
  BY <1>3 DEF SpawnFails, Forked, Fault, Rebind, Listening, Unbound, events
<1>4. CASE AskWrite(c)
  <2>1. mine[c] \in Sessions BY <1>4 DEF AskWrite, HandlersType
  <2>2. cmds' \in [Sessions -> Seq({"write", "kill"})]
    BY <1>4, <2>1, SendFacts DEF AskWrite
  <2>3. QED BY <1>4, <2>2 DEF AskWrite
<1>5. CASE AskKill(c)
  <2>1. mine[c] \in Sessions BY <1>5 DEF AskKill, HandlersType
  <2>2. cmds' \in [Sessions -> Seq({"write", "kill"})]
    BY <1>5, <2>1, SendFacts DEF AskKill
  <2>3. QED BY <1>5, <2>2 DEF AskKill
<1>6. QED
  BY <1>1, <1>2, <1>3, <1>4, <1>5 DEF ClientStep, Request, HandlerStep

LEMMA SessionKeepsEntriesType ==
    ASSUME TerminalTypeOK, ShellsInv, HandsInv, NEW s \in Sessions, SessionStep(s)
    PROVE  EntriesType'
<1> USE TerminalAssumption DEF TerminalTypeOK, EntriesType
<1>1. CASE Output(s) \/ ShellExit(s) \/ Wedge(s) \/ HangUp(s) \/ ReadTorn(s)
           \/ Read(s) \/ ReadEmit(s) \/ ReadEnd(s) \/ ReaderKill(s) \/ DoWrite(s)
           \/ DoKill(s) \/ Finish(s) \/ ExitEmit(s)
  <2>1. UNCHANGED <<emit, token, registry, detached, doomed, swept>>
    BY <1>1 DEF Output, ShellExit, Wedge, HangUp, ReadTorn, Read, ReadEmit, ReadEnd,
       ReaderKill, DoWrite, DoKill, Finish, ExitEmit, Become, Fault, Mark, If, Emit,
       Send, bounds, commands, entries, events, handler, owner, terminal, threads
  <2>2. QED BY <2>1
<1>2. CASE SweepKill(s)
  BY <1>2 DEF SweepKill, Send, bounds, events, handler, owner, terminal
<1>3. QED
  BY <1>1, <1>2 DEF SessionStep, ShellStep, ReaderStep, CommandStep

LEMMA ClientKeepsEntriesType ==
    ASSUME TerminalTypeOK, ShellsInv, HandsInv, NEW c \in Clients, ClientStep(c)
    PROVE  EntriesType'
<1> USE TerminalAssumption DEF TerminalTypeOK, EntriesType
<1>1. CASE SpawnRefused(c) \/ AskWrite(c) \/ AskKill(c) \/ Disconnect(c)
           \/ Announce(c) \/ Spawned(c) \/ Found(c) \/ Snapshot(c) \/ Replay(c)
           \/ \E s \in Sessions : Look(c, s)
  <2>1. UNCHANGED <<emit, token, registry, detached, doomed, swept>>
    BY <1>1 DEF SpawnRefused, AskWrite, AskKill, Disconnect, Announce, Spawned, Found,
       Snapshot, Replay, Look, Ask, Rebind, Send, Goto, Emit, Mark, If, bounds,
       commands, entries, events, handler, owner, terminal, threads
  <2>2. QED BY <2>1
<1>2. ASSUME NEW s \in Sessions, Spawn(c, s) PROVE EntriesType'
  <2>1. /\ shell[s] = "none" /\ registry' = registry \cup {s}
        /\ emit' = [emit EXCEPT ![s] = c] /\ token' = [token EXCEPT ![s] = c]
        /\ UNCHANGED <<detached, doomed, swept>>
    BY <1>2 DEF Spawn, Forked
  <2>2. s \notin swept BY <2>1 DEF ShellsInv, ShellFits, Fresh
  <2>3. QED BY <2>1, <2>2
<1>3. ASSUME NEW s \in Sessions, SpawnFails(c, s) PROVE EntriesType'
  <2>1. /\ shell[s] = "none" /\ registry' = registry \cup {s}
        /\ emit' = [emit EXCEPT ![s] = c] /\ token' = [token EXCEPT ![s] = c]
        /\ UNCHANGED <<detached, doomed, swept>>
    BY <1>3 DEF SpawnFails, Forked
  <2>2. s \notin swept BY <2>1 DEF ShellsInv, ShellFits, Fresh
  <2>3. QED BY <2>1, <2>2
<1>4. CASE TakeOver(c)
  BY <1>4 DEF TakeOver, Goto, Mark, If, bounds, commands, entries, events, terminal,
     threads
<1>5. CASE Attached(c)
  BY <1>5 DEF Attached, Goto, EmitTo, Mark, If, bounds, commands, owner, terminal,
     threads
<1>6. CASE Leave(c)
  BY <1>6 DEF Leave, Goto, Remove, Detach, Owns, bounds, commands, terminal, threads
<1>7. CASE Pump(c)
  BY <1>7 DEF Pump, Remove, bounds, commands, handler, owner, terminal, threads
<1>8. QED
  BY <1>1, <1>2, <1>3, <1>4, <1>5, <1>6, <1>7 DEF ClientStep, Request, HandlerStep

LEMMA SessionKeepsHandlersType ==
    ASSUME TerminalTypeOK, ShellsInv, HandsInv, NEW s \in Sessions, SessionStep(s)
    PROVE  HandlersType'
<1> USE TerminalAssumption DEF TerminalTypeOK, HandlersType
<1>1. CASE Output(s) \/ ShellExit(s) \/ Wedge(s) \/ HangUp(s) \/ ReadTorn(s)
           \/ Read(s) \/ ReadEmit(s) \/ ReadEnd(s) \/ ReaderKill(s) \/ DoWrite(s)
           \/ DoKill(s) \/ Finish(s) \/ ExitEmit(s) \/ SweepKill(s)
  <2>1. UNCHANGED <<socket, stage, hand, mine, mark, held>>
    BY <1>1 DEF Output, ShellExit, Wedge, HangUp, ReadTorn, Read, ReadEmit, ReadEnd,
       ReaderKill, DoWrite, DoKill, Finish, ExitEmit, SweepKill, Become, Fault, Mark,
       If, Emit, Send, bounds, commands, entries, events, handler, owner, terminal,
       threads
  <2>2. QED BY <2>1
<1>2. QED
  BY <1>1 DEF SessionStep, ShellStep, ReaderStep, CommandStep

LEMMA ClientKeepsHandlersType ==
    ASSUME TerminalTypeOK, ShellsInv, HandsInv, NEW c \in Clients, ClientStep(c)
    PROVE  HandlersType'
<1> USE TerminalAssumption DEF TerminalTypeOK, HandlersType
<1>1. CASE AskWrite(c) \/ AskKill(c) \/ Pump(c)
  <2>1. UNCHANGED <<socket, stage, hand, mine, mark, held>>
    BY <1>1 DEF AskWrite, AskKill, Pump, Send, Ask, Remove, bounds, commands, entries,
       events, handler, owner, terminal, threads
  <2>2. QED BY <2>1
<1>2. CASE SpawnRefused(c)
  BY <1>2 DEF SpawnRefused, Ask, Rebind, Listening, Unbound, commands, entries, events,
     owner, terminal, threads
<1>3. ASSUME NEW s \in Sessions, Spawn(c, s) PROVE HandlersType'
  BY <1>3 DEF Spawn, Forked, Ask, Goto, Listening, Unbound, events
<1>4. ASSUME NEW s \in Sessions, SpawnFails(c, s) PROVE HandlersType'
  BY <1>4 DEF SpawnFails, Forked, Fault, Rebind, Listening, Unbound, events
<1>5. ASSUME NEW s \in Sessions, Look(c, s) PROVE HandlersType'
  BY <1>5 DEF Look, Ask, Goto, Listening, Unbound, commands, entries, events, owner,
     terminal, threads
<1>6. CASE Disconnect(c)
  BY <1>6 DEF Disconnect, bounds, commands, entries, events, owner, terminal, threads
<1>7. CASE Announce(c)
  BY <1>7 DEF Announce, Goto, Emit, bounds, commands, entries, owner, terminal, threads
<1>8. CASE Spawned(c)
  <2>1. hand[c] \in Sessions BY <1>8, Handed DEF Spawned
  <2>2. token[hand[c]] \in Clients \cup {Nil} BY <2>1 DEF EntriesType
  <2>3. QED BY <1>8, <2>1, <2>2 DEF Spawned, Rebind, Goto
<1>9. CASE Found(c)
  <2>1. hand[c] \in Sessions BY <1>9, Handed DEF Found
  <2>2. /\ hand' \in [Clients -> Sessions \cup {Nil}]
        /\ mine' \in [Clients -> Sessions \cup {Nil}]
    BY <1>9, <2>1 DEF Found, Rebind
  <2>3. QED BY <1>9, <2>2 DEF Found, Goto
<1>10. CASE TakeOver(c)
  BY <1>10 DEF TakeOver, Goto, Mark, If, bounds, commands, entries, events, terminal,
     threads
<1>11. CASE Snapshot(c)
  <2>1. hand[c] \in Sessions BY <1>11, Handed DEF Snapshot
  <2>2. scroll[hand[c]] \in Seq(Chunks) BY <2>1 DEF ThreadsType
  <2>3. QED BY <1>11, <2>2 DEF Snapshot, Goto
<1>12. CASE Replay(c)
  BY <1>12 DEF Replay, Goto, Emit, bounds, commands, entries, owner, terminal, threads
<1>13. CASE Attached(c)
  BY <1>13 DEF Attached, Goto, EmitTo, Mark, If, bounds, commands, owner, terminal,
     threads
<1>14. CASE Leave(c)
  BY <1>14 DEF Leave, Goto, Remove, Detach, Owns, bounds, commands, terminal, threads
<1>15. QED
  BY <1>1, <1>2, <1>3, <1>4, <1>5, <1>6, <1>7, <1>8, <1>9, <1>10, <1>11, <1>12, <1>13,
     <1>14 DEF ClientStep, Request, HandlerStep

LEMMA SessionKeepsEventsType ==
    ASSUME TerminalTypeOK, ShellsInv, HandsInv, NEW s \in Sessions, SessionStep(s)
    PROVE  EventsType'
<1> USE TerminalAssumption DEF TerminalTypeOK, EventsType
<1>1. CASE Output(s) \/ ShellExit(s) \/ Wedge(s) \/ HangUp(s) \/ ReadTorn(s)
           \/ Read(s) \/ ReadEnd(s) \/ ReaderKill(s) \/ DoWrite(s) \/ DoKill(s)
           \/ Finish(s) \/ SweepKill(s)
  <2>1. UNCHANGED <<wire, sent, pump, known, condemned>>
    BY <1>1 DEF Output, ShellExit, Wedge, HangUp, ReadTorn, Read, ReadEnd, ReaderKill,
       DoWrite, DoKill, Finish, SweepKill, Become, Fault, Mark, If, Send, bounds,
       commands, entries, events, handler, owner, terminal, threads
  <2>2. QED BY <2>1
<1>2. CASE ReadEmit(s)
  <2>1. DataEvent(s, chunk[s]) \in Event BY EventTypes DEF ThreadsType
  <2>2. Adds(DataEvent(s, chunk[s]))
    BY <1>2, <2>1, EmitAdds DEF ReadEmit, Emit, EntriesType
  <2>3. QED BY <1>2, <2>1, <2>2, AddsType DEF ReadEmit
<1>3. CASE ExitEmit(s)
  <2>1. ExitEvent(s) \in Event BY EventTypes
  <2>2. Adds(ExitEvent(s)) BY <1>3, <2>1, EmitAdds DEF ExitEmit, Emit, EntriesType
  <2>3. QED BY <1>3, <2>1, <2>2, AddsType DEF ExitEmit
<1>4. QED
  BY <1>1, <1>2, <1>3 DEF SessionStep, ShellStep, ReaderStep, CommandStep

LEMMA ClientKeepsEventsType ==
    ASSUME TerminalTypeOK, ShellsInv, HandsInv, NEW c \in Clients, ClientStep(c)
    PROVE  EventsType'
<1> USE TerminalAssumption DEF TerminalTypeOK, EventsType
<1>1. CASE SpawnRefused(c) \/ AskWrite(c) \/ Disconnect(c) \/ Spawned(c)
           \/ Found(c) \/ TakeOver(c) \/ Snapshot(c)
           \/ \E s \in Sessions : Spawn(c, s) \/ SpawnFails(c, s) \/ Look(c, s)
  <2>1. UNCHANGED <<wire, sent, pump, known, condemned>>
    BY <1>1 DEF SpawnRefused, AskWrite, Disconnect, Spawned, Found, TakeOver, Snapshot,
       Spawn, SpawnFails, Look, Ask, Rebind, Send, Goto, Mark, If, Forked, Fault,
       bounds, commands, entries, events, handler, owner, terminal, threads
  <2>2. QED BY <2>1
<1>2. CASE AskKill(c)
  BY <1>2 DEF AskKill, HandlersType, events
<1>3. CASE Announce(c)
  <2>1. hand[c] \in Sessions BY <1>3, Handed DEF Announce
  <2>2. StatusEvent(hand[c]) \in Event BY <2>1, EventTypes
  <2>3. Adds(StatusEvent(hand[c]))
    BY <1>3, <2>1, <2>2, EmitAdds DEF Announce, Emit, EntriesType
  <2>4. QED BY <1>3, <2>2, <2>3, AddsType DEF Announce
<1>4. CASE Replay(c)
  <2>1. hand[c] \in Sessions BY <1>4, Handed DEF Replay
  <2>2. DataEvent(hand[c], held[c]) \in Event BY <2>1, EventTypes DEF HandlersType
  <2>3. Adds(DataEvent(hand[c], held[c]))
    BY <1>4, <2>1, <2>2, EmitAdds DEF Replay, Emit, EntriesType
  <2>4. QED BY <1>4, <2>2, <2>3, AddsType DEF Replay
<1>5. CASE Attached(c)
  <2>1. hand[c] \in Sessions BY <1>5, Handed DEF Attached
  <2>2. StatusEvent(hand[c]) \in Event BY <2>1, EventTypes
  <2>3. Adds(StatusEvent(hand[c])) BY <1>5, <2>2, EmitAdds DEF Attached
  <2>4. QED BY <1>5, <2>2, <2>3, AddsType DEF Attached
<1>6. CASE Leave(c)
  BY <1>6 DEF Leave, Goto, Remove, Detach, Owns, bounds, commands, terminal, threads
<1>7. CASE Pump(c)
  <2> DEFINE e == wire[c][sent[c] + 1]
  <2>1. wire[c] \in Seq(Event) /\ sent[c] \in Nat /\ sent[c] < Len(wire[c])
    BY <1>7 DEF Pump
  <2>2. sent[c] + 1 \in 1 .. Len(wire[c]) BY <2>1
  <2>3. e \in Event BY <2>1, <2>2
  <2>4. e.id \in Sessions BY <2>3 DEF Event
  <2>5. /\ UNCHANGED <<wire, condemned>>
        /\ \/ /\ sent' = [sent EXCEPT ![c] = @ + 1]
              /\ known' = known \cup {e.id} /\ pump' = pump
           \/ /\ pump' = [pump EXCEPT ![c] = FALSE]
              /\ UNCHANGED <<sent, known>>
    BY <1>7 DEF Pump
  <2> HIDE DEF e
  <2>6. sent' \in [Clients -> Nat] /\ \A d \in Clients : sent'[d] <= Len(wire[d])
    <3>1. CASE sent' = [sent EXCEPT ![c] = @ + 1]
      <4>1. /\ sent' \in [Clients -> Nat] /\ sent'[c] = sent[c] + 1
            /\ \A d \in Clients \ {c} : sent'[d] = sent[d]
        BY ONLY <2>1, <3>1, sent \in [Clients -> Nat], c \in Clients
      <4>2. sent'[c] <= Len(wire[c]) BY <2>1, <2>2, <4>1
      <4>3. QED BY <4>1, <4>2
    <3>2. CASE UNCHANGED sent BY <3>2
    <3>3. QED BY <2>5, <3>1, <3>2
  <2>7. QED BY <2>4, <2>5, <2>6
<1>8. QED
  BY <1>1, <1>2, <1>3, <1>4, <1>5, <1>6, <1>7 DEF ClientStep, Request, HandlerStep

-----------------------------------------------------------------------------
(* The five steps that tell something, and whom.                             *)

LEMMA ReadEmits ==
    ASSUME TerminalTypeOK, NEW s \in Sessions, ReadEmit(s),
           NEW e, e = DataEvent(s, chunk[s])
    PROVE  /\ e \in Event /\ Adds(e)
           /\ \A c \in Clients : emit[s] = c /\ stage[c] # "gone" => Has(c, e)'
<1> USE DEF TerminalTypeOK, ThreadsType, EntriesType
<1>1. e \in Event BY EventTypes
<1>2. EmitTo(emit[s], e) /\ emit[s] \in Clients \cup {Nil} BY DEF ReadEmit, Emit
<1>3. QED BY <1>1, <1>2, EmitAdds

LEMMA ExitEmits ==
    ASSUME TerminalTypeOK, NEW s \in Sessions, ExitEmit(s), NEW e, e = ExitEvent(s)
    PROVE  /\ e \in Event /\ Adds(e)
           /\ \A c \in Clients : emit[s] = c /\ stage[c] # "gone" => Has(c, e)'
<1> USE DEF TerminalTypeOK, EntriesType
<1>1. e \in Event BY EventTypes
<1>2. EmitTo(emit[s], e) /\ emit[s] \in Clients \cup {Nil} BY DEF ExitEmit, Emit
<1>3. QED BY <1>1, <1>2, EmitAdds

LEMMA Announces ==
    ASSUME TerminalTypeOK, HandsInv, NEW c \in Clients, Announce(c),
           NEW e, e = StatusEvent(hand[c])
    PROVE  e \in Event /\ Adds(e) /\ e.type # "exit"
<1> USE DEF TerminalTypeOK, EntriesType
<1>1. hand[c] \in Sessions BY Handed DEF Announce
<1>2. e \in Event BY <1>1, EventTypes
<1>3. EmitTo(emit[hand[c]], e) /\ emit[hand[c]] \in Clients \cup {Nil}
  BY <1>1 DEF Announce, Emit
<1>4. QED BY <1>2, <1>3, EmitAdds DEF StatusEvent

LEMMA Replays ==
    ASSUME TerminalTypeOK, HandsInv, NEW c \in Clients, Replay(c),
           NEW e, e = DataEvent(hand[c], held[c])
    PROVE  /\ e \in Event /\ Adds(e) /\ e.type # "exit"
           /\ emit[hand[c]] = c /\ stage[c] # "gone" => Has(c, e)'
<1> USE DEF TerminalTypeOK, EntriesType, HandlersType
<1>1. hand[c] \in Sessions BY Handed DEF Replay
<1>2. e \in Event BY <1>1, EventTypes
<1>3. EmitTo(emit[hand[c]], e) /\ emit[hand[c]] \in Clients \cup {Nil}
  BY <1>1 DEF Replay, Emit
<1>4. QED BY <1>2, <1>3, EmitAdds DEF DataEvent

LEMMA Attaches ==
    ASSUME TerminalTypeOK, HandsInv, NEW c \in Clients, Attached(c),
           NEW e, e = StatusEvent(hand[c])
    PROVE  e \in Event /\ Adds(e) /\ e.type # "exit"
<1> USE DEF TerminalTypeOK
<1>1. hand[c] \in Sessions BY Handed DEF Attached
<1>2. e \in Event BY <1>1, EventTypes
<1>3. EmitTo(c, e) BY DEF Attached
<1>4. QED BY <1>2, <1>3, EmitAdds DEF StatusEvent

LEMMA ExitsStay ==
    ASSUME TerminalTypeOK, NEW d \in Clients, ExitsFit(d),
           \A t \in Sessions : cmd[t] = "over" => cmd'[t] = "over",
           \/ wire'[d] = wire[d]
           \/ \E e \in Event : /\ Adds(e)
                               /\ e.type = "exit" => cmd'[e.id] = "over"
    PROVE  ExitsFit(d)'
<1>1. \A i \in 1 .. Len(wire[d]) : wire[d][i].id \in Sessions
  <2>1. wire[d] \in Seq(Event) BY DEF TerminalTypeOK, EventsType
  <2>2. \A i \in 1 .. Len(wire[d]) : wire[d][i] \in Event BY <2>1
  <2>3. QED BY <2>2 DEF Event
<1>2. CASE wire'[d] = wire[d] BY <1>1, <1>2 DEF ExitsFit
<1>3. ASSUME NEW e \in Event, Adds(e), e.type = "exit" => cmd'[e.id] = "over"
      PROVE  ExitsFit(d)'
  <2>1. Len(wire[d]) \in Nat /\ Len(wire'[d]) \in Nat
    BY <1>3 DEF Adds, TerminalTypeOK, EventsType
  <2>2. ASSUME NEW i \in 1 .. Len(wire'[d]), wire'[d][i].type = "exit"
        PROVE  cmd'[wire'[d][i].id] = "over"
    <3>1. CASE i > Len(wire[d]) BY <1>3, <2>2, <3>1 DEF Adds
    <3>2. CASE i \in 1 .. Len(wire[d])
      <4>1. wire'[d][i] = wire[d][i] BY <1>3, <3>2 DEF Adds
      <4>2. QED BY <1>1, <2>2, <3>2, <4>1 DEF ExitsFit
    <3>3. QED BY <2>1, <3>1, <3>2
  <2>3. QED BY <2>2 DEF ExitsFit
<1>4. QED BY <1>2, <1>3
-----------------------------------------------------------------------------
(* The bounds, the shells, the handlers and the tokens.                      *)

LEMMA SessionKeepsBounds ==
    ASSUME TerminalTypeOK, ShellsInv, HandsInv, NEW s \in Sessions, SessionStep(s)
    PROVE  BoundsType'
<1> USE TerminalAssumption DEF TerminalTypeOK, BoundsType, Marks
<1>1. CASE Output(s) \/ ReadEmit(s) \/ ReadEnd(s) \/ ReaderKill(s) \/ DoKill(s)
           \/ Finish(s) \/ ExitEmit(s) \/ SweepKill(s)
  <2>1. UNCHANGED <<asks, faults, marks>>
    BY <1>1 DEF Output, ReadEmit, ReadEnd, ReaderKill, DoKill, Finish, ExitEmit,
       SweepKill, Emit, Send, bounds, commands, entries, events, handler, owner,
       terminal, threads
  <2>2. QED BY <2>1
<1>2. CASE ShellExit(s)
  BY <1>2 DEF ShellExit, Become, Up, bounds, commands, entries, events, handler, owner,
     threads
<1>3. CASE Wedge(s)
  BY <1>3 DEF Wedge, Become, Fault, commands, entries, events, handler, owner, threads
<1>4. CASE HangUp(s)
  BY <1>4 DEF HangUp, Become, Fault, commands, entries, events, handler, owner, threads
<1>5. CASE ReadTorn(s)
  BY <1>5 DEF ReadTorn, Fault, Mark, Source, commands, entries, events, handler, owner
<1>6. CASE Read(s)
  BY <1>6 DEF Read, Mark, If, Source, bounds, commands, entries, events, handler, owner
<1>7. CASE DoWrite(s)
  BY <1>7 DEF DoWrite, Mark, If, NextIs, bounds, entries, events, handler, owner,
     terminal
<1>8. QED
  BY <1>1, <1>2, <1>3, <1>4, <1>5, <1>6, <1>7 DEF SessionStep, ShellStep, ReaderStep,
     CommandStep

LEMMA ClientKeepsBounds ==
    ASSUME TerminalTypeOK, ShellsInv, HandsInv, NEW c \in Clients, ClientStep(c)
    PROVE  BoundsType'
<1> USE TerminalAssumption DEF TerminalTypeOK, BoundsType, Marks
<1>1. CASE Disconnect(c) \/ Announce(c) \/ Found(c) \/ Snapshot(c) \/ Replay(c)
           \/ Leave(c) \/ Pump(c)
  <2>1. UNCHANGED <<asks, faults, marks>>
    BY <1>1 DEF Disconnect, Announce, Found, Snapshot, Replay, Leave, Pump, Goto, Emit,
       Rebind, Remove, Detach, bounds, commands, entries, events, handler, owner,
       terminal, threads
  <2>2. QED BY <2>1
<1>2. CASE SpawnRefused(c)
  BY <1>2 DEF SpawnRefused, Ask, Rebind, Listening, Unbound, commands, entries, events,
     owner, terminal, threads
<1>3. ASSUME NEW s \in Sessions, Spawn(c, s) PROVE BoundsType'
  BY <1>3 DEF Spawn, Forked, Ask, Goto, Listening, Unbound, events
<1>4. ASSUME NEW s \in Sessions, SpawnFails(c, s) PROVE BoundsType'
  BY <1>4 DEF SpawnFails, Forked, Fault, Rebind, Listening, Unbound, events
<1>5. ASSUME NEW s \in Sessions, Look(c, s) PROVE BoundsType'
  BY <1>5 DEF Look, Ask, Goto, Listening, Unbound, commands, entries, events, owner,
     terminal, threads
<1>6. CASE AskWrite(c)
  BY <1>6 DEF AskWrite, Send, Ask, Listening, entries, events, handler, owner, terminal
<1>7. CASE AskKill(c)
  BY <1>7 DEF AskKill, Send, Ask, Listening, entries, events, handler, owner, terminal
<1>8. CASE Spawned(c)
  BY <1>8 DEF Spawned, Rebind, Goto, Mark, If, bounds, commands, entries, events, owner,
     terminal, threads
<1>9. CASE TakeOver(c)
  BY <1>9 DEF TakeOver, Goto, Mark, If, bounds, commands, entries, events, terminal,
     threads
<1>10. CASE Attached(c)
  BY <1>10 DEF Attached, Goto, EmitTo, Mark, If, bounds, commands, owner, terminal,
     threads
<1>11. QED
  BY <1>1, <1>2, <1>3, <1>4, <1>5, <1>6, <1>7, <1>8, <1>9, <1>10 DEF ClientStep,
     Request, HandlerStep

LEMMA SessionKeepsShells ==
    ASSUME TerminalTypeOK, ShellsInv, HandsInv, NEW s \in Sessions, SessionStep(s)
    PROVE  ShellsInv'
<1> USE TerminalAssumption DEF TerminalTypeOK, ShellsInv, ShellFits, Fresh
<1> SUFFICES ASSUME NEW t \in Sessions PROVE ShellFits(t)'
  OBVIOUS
<1>1. CASE Output(s)
  <2>1. UNCHANGED <<shell, reader, cmd, scroll, cmds, emit, token, registry, swept, fd,
                    finished, open, chunk>>
    BY <1>1 DEF Output, bounds, commands, entries, events, handler, owner, threads
  <2>2. QED BY <2>1 DEF ShellsType, ThreadsType, EntriesType, HandlersType
<1>2. CASE ShellExit(s)
  <2>1. CASE t = s
    BY <1>2, <2>1 DEF ShellExit, Become, Up, bounds, commands, entries, events, handler,
       owner, threads, ShellsType, ThreadsType, EntriesType, HandlersType
  <2>2. CASE t # s
    BY <1>2, <2>2 DEF ShellExit, Become, Up, bounds, commands, entries, events, handler,
       owner, threads, ShellsType, ThreadsType, EntriesType, HandlersType
  <2>3. QED BY <2>1, <2>2
<1>3. CASE Wedge(s)
  <2>1. CASE t = s
    BY <1>3, <2>1 DEF Wedge, Become, Fault, commands, entries, events, handler, owner,
       threads, ShellsType, ThreadsType, EntriesType, HandlersType
  <2>2. CASE t # s
    BY <1>3, <2>2 DEF Wedge, Become, Fault, commands, entries, events, handler, owner,
       threads, ShellsType, ThreadsType, EntriesType, HandlersType
  <2>3. QED BY <2>1, <2>2
<1>4. CASE HangUp(s)
  <2>1. CASE t = s
    BY <1>4, <2>1 DEF HangUp, Become, Fault, commands, entries, events, handler, owner,
       threads, ShellsType, ThreadsType, EntriesType, HandlersType
  <2>2. CASE t # s
    BY <1>4, <2>2 DEF HangUp, Become, Fault, commands, entries, events, handler, owner,
       threads, ShellsType, ThreadsType, EntriesType, HandlersType
  <2>3. QED BY <2>1, <2>2
<1>5. CASE ReadTorn(s)
  <2>1. CASE t = s
    BY <1>5, <2>1 DEF ReadTorn, Fault, Mark, Source, commands, entries, events, handler,
       owner, ShellsType, ThreadsType, EntriesType, HandlersType
  <2>2. CASE t # s
    BY <1>5, <2>2 DEF ReadTorn, Fault, Mark, Source, commands, entries, events, handler,
       owner, ShellsType, ThreadsType, EntriesType, HandlersType
  <2>3. QED BY <2>1, <2>2
<1>6. CASE Read(s)
  <2>1. CASE t = s
    BY <1>6, <2>1 DEF Read, Mark, If, Source, bounds, commands, entries, events,
       handler, owner, ShellsType, ThreadsType, EntriesType, HandlersType
  <2>2. CASE t # s
    BY <1>6, <2>2 DEF Read, Mark, If, Source, bounds, commands, entries, events,
       handler, owner, ShellsType, ThreadsType, EntriesType, HandlersType
  <2>3. QED BY <2>1, <2>2
<1>7. CASE ReadEmit(s)
  <2>1. CASE t = s
    BY <1>7, <2>1 DEF ReadEmit, Emit, bounds, commands, entries, handler, owner,
       terminal, ShellsType, ThreadsType, EntriesType, HandlersType
  <2>2. CASE t # s
    BY <1>7, <2>2 DEF ReadEmit, Emit, bounds, commands, entries, handler, owner,
       terminal, ShellsType, ThreadsType, EntriesType, HandlersType
  <2>3. QED BY <2>1, <2>2
<1>8. CASE ReadEnd(s)
  <2>1. CASE t = s
    BY <1>8, <2>1 DEF ReadEnd, Source, bounds, commands, entries, events, handler,
       owner, terminal, ShellsType, ThreadsType, EntriesType, HandlersType
  <2>2. CASE t # s
    BY <1>8, <2>2 DEF ReadEnd, Source, bounds, commands, entries, events, handler,
       owner, terminal, ShellsType, ThreadsType, EntriesType, HandlersType
  <2>3. QED BY <2>1, <2>2
<1>9. CASE ReaderKill(s)
  <2>1. CASE t = s
    BY <1>9, <2>1 DEF ReaderKill, Send, bounds, entries, events, handler, owner,
       terminal, ShellsType, ThreadsType, EntriesType, HandlersType
  <2>2. CASE t # s
    BY <1>9, <2>2 DEF ReaderKill, Send, bounds, entries, events, handler, owner,
       terminal, ShellsType, ThreadsType, EntriesType, HandlersType
  <2>3. QED BY <2>1, <2>2
<1>10. CASE DoWrite(s)
  <2>1. /\ cmd[s] = "idle" /\ cmd'[s] \in {"idle", "wait"} /\ shell[s] # "none"
        /\ \A q \in Sessions \ {s} : cmd'[q] = cmd[q]
        /\ UNCHANGED <<shell, fd, open, reader, chunk, scroll, finished, emit, token,
                       registry, swept>>
    BY <1>10 DEF DoWrite, NextIs, ThreadsType, terminal, entries, owner
  <2>2. t = s \/ cmds'[t] = cmds[t] BY <1>10, TailFacts DEF DoWrite, NextIs
  <2>3. CASE t = s BY <2>1, <2>3
  <2>4. CASE t # s BY <2>1, <2>2, <2>4
  <2>5. QED BY <2>3, <2>4
<1>11. CASE DoKill(s)
  <2>1. /\ cmd[s] = "idle" /\ cmd'[s] = "wait" /\ shell[s] # "none"
        /\ shell'[s] = "down"
        /\ \A q \in Sessions \ {s} : cmd'[q] = cmd[q] /\ shell'[q] = shell[q]
        /\ UNCHANGED <<fd, open, reader, chunk, scroll, finished, emit, token, registry,
                       swept>>
    BY <1>11 DEF DoKill, NextIs, ThreadsType, ShellsType, entries, owner
  <2>2. t = s \/ cmds'[t] = cmds[t] BY <1>11, TailFacts DEF DoKill, NextIs
  <2>3. CASE t = s BY <2>1, <2>3
  <2>4. CASE t # s BY <2>1, <2>2, <2>4
  <2>5. QED BY <2>3, <2>4
<1>12. CASE Finish(s)
  <2>1. /\ shell[s] # "none" /\ fd[s] \in Fds /\ open[fd[s]] = s /\ ~finished[s]
        /\ cmd'[s] = "closed" /\ finished'[s] = TRUE
        /\ open' = [open EXCEPT ![fd[s]] = Nil]
        /\ \A q \in Sessions \ {s} : /\ cmd'[q] = cmd[q] /\ finished'[q] = finished[q]
                                        /\ cmds'[q] = cmds[q]
        /\ UNCHANGED <<shell, fd, reader, chunk, scroll, emit, token, registry, swept>>
    BY <1>12 DEF Finish, ThreadsType, entries, owner
  <2>2. CASE t = s BY <2>1, <2>2
  <2>3. CASE t # s
    <3>1. shell[t] # "none" /\ ~finished[t] => fd[t] \in Fds \ {fd[s]}
      BY <2>1, <2>3
    <3>2. shell[t] # "none" /\ ~finished[t] => open'[fd[t]] = open[fd[t]]
      BY <2>1, <3>1 DEF ShellsType
    <3>3. QED BY <2>1, <2>3, <3>2
  <2>4. QED BY <2>2, <2>3
<1>13. CASE ExitEmit(s)
  <2>1. CASE t = s
    BY <1>13, <2>1 DEF ExitEmit, Emit, bounds, entries, handler, owner, terminal,
       ShellsType, ThreadsType, EntriesType, HandlersType
  <2>2. CASE t # s
    BY <1>13, <2>2 DEF ExitEmit, Emit, bounds, entries, handler, owner, terminal,
       ShellsType, ThreadsType, EntriesType, HandlersType
  <2>3. QED BY <2>1, <2>2
<1>14. CASE SweepKill(s)
  <2>1. CASE t = s
    BY <1>14, <2>1 DEF SweepKill, Send, bounds, events, handler, owner, terminal,
       ShellsType, ThreadsType, EntriesType, HandlersType
  <2>2. CASE t # s
    BY <1>14, <2>2 DEF SweepKill, Send, bounds, events, handler, owner, terminal,
       ShellsType, ThreadsType, EntriesType, HandlersType
  <2>3. QED BY <2>1, <2>2
<1>15. QED
  BY <1>1, <1>2, <1>3, <1>4, <1>5, <1>6, <1>7, <1>8, <1>9, <1>10, <1>11, <1>12, <1>13,
     <1>14 DEF SessionStep, ShellStep, ReaderStep, CommandStep

LEMMA ClientKeepsShells ==
    ASSUME TerminalTypeOK, ShellsInv, HandsInv, NEW c \in Clients, ClientStep(c)
    PROVE  ShellsInv'
<1> USE TerminalAssumption DEF TerminalTypeOK, ShellsInv, ShellFits, Fresh
<1> SUFFICES ASSUME NEW t \in Sessions PROVE ShellFits(t)'
  OBVIOUS
<1>1. CASE SpawnRefused(c) \/ Disconnect(c) \/ Announce(c) \/ Spawned(c)
           \/ Found(c) \/ Snapshot(c) \/ Replay(c) \/ Attached(c)
           \/ \E s \in Sessions : Look(c, s)
  <2>1. UNCHANGED <<shell, reader, cmd, scroll, cmds, emit, token, registry, swept, fd,
                    finished, open, chunk>>
    BY <1>1 DEF SpawnRefused, Disconnect, Announce, Spawned, Found, Snapshot, Replay,
       Attached, Look, Ask, Rebind, Goto, Emit, Mark, If, EmitTo, bounds, commands,
       entries, events, owner, terminal, threads
  <2>2. QED BY <2>1 DEF ShellsType, ThreadsType, EntriesType, HandlersType
<1>2. ASSUME NEW s \in Sessions, Spawn(c, s) PROVE ShellFits(t)'
  <2>1. PICK f \in Fds : /\ open[f] = Nil /\ fd' = [fd EXCEPT ![s] = f]
                            /\ open' = [open EXCEPT ![f] = s]
    BY <1>2 DEF Spawn, Forked
  <2>2. /\ shell[s] = "none" /\ Fresh(s) /\ fd'[s] = f /\ open'[f] = s
        /\ shell'[s] = "up" /\ emit'[s] = c /\ token'[s] = c
        /\ cmd'[s] \in {"off", "idle"} /\ reader'[s] \in {"off", "read"}
        /\ \A q \in Sessions \ {s} :
              /\ shell'[q] = shell[q] /\ fd'[q] = fd[q] /\ reader'[q] = reader[q]
              /\ cmd'[q] = cmd[q] /\ emit'[q] = emit[q] /\ token'[q] = token[q]
        /\ registry' = registry \cup {s}
        /\ UNCHANGED <<chunk, scroll, cmds, finished, swept>>
    BY <1>2, <2>1 DEF Spawn, Forked, ShellsType, ThreadsType, EntriesType
  <2>3. CASE t = s BY <2>2, <2>3
  <2>4. CASE t # s
    <3>1. shell[t] # "none" /\ ~finished[t] => open'[fd[t]] = open[fd[t]]
      BY <2>1, <2>4 DEF ShellsType
    <3>2. QED BY <2>2, <2>4, <3>1
  <2>5. QED BY <2>3, <2>4
<1>3. ASSUME NEW s \in Sessions, SpawnFails(c, s) PROVE ShellFits(t)'
  <2>1. PICK f \in Fds : /\ open[f] = Nil /\ fd' = [fd EXCEPT ![s] = f]
                            /\ open' = [open EXCEPT ![f] = s]
    BY <1>3 DEF SpawnFails, Forked
  <2>2. /\ shell[s] = "none" /\ Fresh(s) /\ fd'[s] = f /\ open'[f] = s
        /\ shell'[s] = "up" /\ emit'[s] = c /\ token'[s] = c
        /\ cmd'[s] \in {"off", "idle"} /\ reader'[s] \in {"off", "read"}
        /\ \A q \in Sessions \ {s} :
              /\ shell'[q] = shell[q] /\ fd'[q] = fd[q] /\ reader'[q] = reader[q]
              /\ cmd'[q] = cmd[q] /\ emit'[q] = emit[q] /\ token'[q] = token[q]
        /\ registry' = registry \cup {s}
        /\ UNCHANGED <<chunk, scroll, cmds, finished, swept>>
    BY <1>3, <2>1 DEF SpawnFails, Forked, ShellsType, ThreadsType, EntriesType
  <2>3. CASE t = s BY <2>2, <2>3
  <2>4. CASE t # s
    <3>1. shell[t] # "none" /\ ~finished[t] => open'[fd[t]] = open[fd[t]]
      BY <2>1, <2>4 DEF ShellsType
    <3>2. QED BY <2>2, <2>4, <3>1
  <2>5. QED BY <2>3, <2>4
<1>4. CASE AskWrite(c)
  <2>1. mine[c] \in Sessions /\ shell[mine[c]] # "none"
    BY <1>4 DEF AskWrite, HandlersType, HandsInv, HandFits
  <2>2. t = mine[c] \/ cmds'[t] = cmds[t]
    BY <1>4, <2>1, SendFacts DEF AskWrite
  <2>3. UNCHANGED <<shell, fd, open, reader, chunk, scroll, cmd, finished, emit, token,
                    registry, swept>>
    BY <1>4 DEF AskWrite, terminal, entries, owner
  <2>4. QED BY <2>1, <2>2, <2>3
<1>5. CASE AskKill(c)
  <2>1. mine[c] \in Sessions /\ shell[mine[c]] # "none"
    BY <1>5 DEF AskKill, HandlersType, HandsInv, HandFits
  <2>2. t = mine[c] \/ cmds'[t] = cmds[t]
    BY <1>5, <2>1, SendFacts DEF AskKill
  <2>3. UNCHANGED <<shell, fd, open, reader, chunk, scroll, cmd, finished, emit, token,
                    registry, swept>>
    BY <1>5 DEF AskKill, terminal, entries, owner
  <2>4. QED BY <2>1, <2>2, <2>3
<1>6. CASE TakeOver(c)
  <2>1. hand[c] \in Sessions /\ shell[hand[c]] # "none"
    BY <1>6, Handed DEF TakeOver, HandsInv, HandFits
  <2>2. /\ emit'[hand[c]] = c /\ token'[hand[c]] = c
        /\ \A q \in Sessions \ {hand[c]} : emit'[q] = emit[q] /\ token'[q] = token[q]
        /\ UNCHANGED <<shell, fd, open, reader, chunk, scroll, cmd, finished, registry,
                       swept, cmds>>
    BY <1>6, <2>1 DEF TakeOver, EntriesType, terminal, threads, commands, entries
  <2>3. QED BY <2>1, <2>2
<1>7. CASE Leave(c)
  <2>1. /\ emit'[t] \in {emit[t], Nil} /\ registry' \subseteq registry
        /\ UNCHANGED <<shell, fd, open, reader, chunk, scroll, cmd, finished, token,
                       swept, cmds>>
    BY <1>7 DEF Leave, Remove, Detach, EntriesType, terminal, threads, commands
  <2>2. QED BY <2>1
<1>8. CASE Pump(c)
  BY <1>8 DEF Pump, Remove, bounds, commands, handler, owner, terminal, threads,
     ShellsType, ThreadsType, EntriesType, HandlersType
<1>9. QED
  BY <1>1, <1>2, <1>3, <1>4, <1>5, <1>6, <1>7, <1>8 DEF ClientStep, Request, HandlerStep

LEMMA SessionKeepsHands ==
    ASSUME TerminalTypeOK, ShellsInv, HandsInv, NEW s \in Sessions, SessionStep(s)
    PROVE  HandsInv'
<1> USE TerminalAssumption DEF TerminalTypeOK, HandsInv, HandFits, Unbound
<1> SUFFICES ASSUME NEW d \in Clients PROVE HandFits(d)'
  OBVIOUS
<1>1. CASE Output(s) \/ ReadTorn(s) \/ Read(s) \/ ReadEmit(s) \/ ReadEnd(s)
           \/ ReaderKill(s) \/ DoWrite(s) \/ ExitEmit(s) \/ SweepKill(s)
  <2>1. UNCHANGED <<hand, stage, mine, shell, finished>>
    BY <1>1 DEF Output, ReadTorn, Read, ReadEmit, ReadEnd, ReaderKill, DoWrite,
       ExitEmit, SweepKill, Fault, Mark, If, Emit, Send, bounds, commands, entries,
       events, handler, owner, terminal, threads
  <2>2. QED BY <2>1 DEF HandlersType, ShellsType, ThreadsType
<1>2. CASE ShellExit(s)
  BY <1>2 DEF ShellExit, Become, Up, bounds, commands, entries, events, handler, owner,
     threads, HandlersType, ShellsType, ThreadsType
<1>3. CASE Wedge(s)
  BY <1>3 DEF Wedge, Become, Fault, commands, entries, events, handler, owner, threads,
     HandlersType, ShellsType, ThreadsType
<1>4. CASE HangUp(s)
  BY <1>4 DEF HangUp, Become, Fault, commands, entries, events, handler, owner, threads,
     HandlersType, ShellsType, ThreadsType
<1>5. CASE DoKill(s)
  BY <1>5 DEF DoKill, NextIs, bounds, entries, events, handler, owner, HandlersType,
     ShellsType, ThreadsType
<1>6. CASE Finish(s)
  BY <1>6 DEF Finish, bounds, entries, events, handler, owner, HandlersType, ShellsType,
     ThreadsType
<1>7. QED
  BY <1>1, <1>2, <1>3, <1>4, <1>5, <1>6 DEF SessionStep, ShellStep, ReaderStep,
     CommandStep

LEMMA ClientKeepsHands ==
    ASSUME TerminalTypeOK, ShellsInv, HandsInv, NEW c \in Clients, ClientStep(c)
    PROVE  HandsInv'
<1> USE TerminalAssumption DEF TerminalTypeOK, HandsInv, HandFits, Unbound
<1> SUFFICES ASSUME NEW d \in Clients PROVE HandFits(d)'
  OBVIOUS
<1>1. CASE AskWrite(c) \/ AskKill(c) \/ Disconnect(c) \/ Pump(c)
  <2>1. UNCHANGED <<hand, stage, mine, shell, finished>>
    BY <1>1 DEF AskWrite, AskKill, Disconnect, Pump, Send, Ask, Remove, bounds,
       commands, entries, events, handler, owner, terminal, threads
  <2>2. QED BY <2>1 DEF HandlersType, ShellsType, ThreadsType
<1>2. CASE SpawnRefused(c)
  <2>1. CASE d = c
    BY <1>2, <2>1 DEF SpawnRefused, Ask, Rebind, Listening, commands, entries, events,
       owner, terminal, threads, HandlersType, ShellsType, ThreadsType
  <2>2. CASE d # c
    BY <1>2, <2>2 DEF SpawnRefused, Ask, Rebind, Listening, commands, entries, events,
       owner, terminal, threads, HandlersType, ShellsType, ThreadsType
  <2>3. QED BY <2>1, <2>2
<1>3. ASSUME NEW s \in Sessions, Spawn(c, s) PROVE HandFits(d)'
  <2>1. CASE d = c
    BY <1>3, <2>1 DEF Spawn, Forked, Ask, Goto, Listening, events, HandlersType,
       ShellsType, ThreadsType
  <2>2. CASE d # c
    BY <1>3, <2>2 DEF Spawn, Forked, Ask, Goto, Listening, events, HandlersType,
       ShellsType, ThreadsType
  <2>3. QED BY <2>1, <2>2
<1>4. ASSUME NEW s \in Sessions, SpawnFails(c, s) PROVE HandFits(d)'
  <2>1. CASE d = c
    BY <1>4, <2>1 DEF SpawnFails, Forked, Fault, Rebind, Listening, events,
       HandlersType, ShellsType, ThreadsType
  <2>2. CASE d # c
    BY <1>4, <2>2 DEF SpawnFails, Forked, Fault, Rebind, Listening, events,
       HandlersType, ShellsType, ThreadsType
  <2>3. QED BY <2>1, <2>2
<1>5. ASSUME NEW s \in Sessions, Look(c, s) PROVE HandFits(d)'
  <2>1. shell[s] # "none" BY <1>5 DEF Look, ShellsInv, ShellFits, Fresh
  <2>2. /\ stage'[c] = "found" /\ hand'[c] = s /\ mine'[c] = mine[c] /\ Unbound(c)
        /\ stage[c] = "ready"
        /\ \A e \in Clients \ {c} :
              /\ stage'[e] = stage[e] /\ hand'[e] = hand[e] /\ mine'[e] = mine[e]
        /\ UNCHANGED <<shell, finished>>
    BY <1>5 DEF Look, Listening, Goto, HandlersType, terminal, threads, commands
  <2>3. CASE d = c BY <2>1, <2>2, <2>3
  <2>4. CASE d # c BY <2>2, <2>4
  <2>5. QED BY <2>3, <2>4
<1>6. CASE Announce(c)
  <2>1. hand[c] \in Sessions /\ hand[c] # Nil BY <1>6, Handed DEF Announce
  <2>2. /\ stage'[c] = "spawned" /\ hand'[c] = hand[c] /\ mine'[c] = mine[c]
        /\ \A e \in Clients \ {c} :
              /\ stage'[e] = stage[e] /\ hand'[e] = hand[e] /\ mine'[e] = mine[e]
        /\ UNCHANGED <<shell, finished>>
    BY <1>6 DEF Announce, Rebind, Goto, HandlersType, terminal, threads, commands
  <2>3. CASE d = c BY <1>6, <2>1, <2>2, <2>3 DEF Announce
  <2>4. CASE d # c BY <2>2, <2>4
  <2>5. QED BY <2>3, <2>4
<1>7. CASE Spawned(c)
  <2>1. hand[c] \in Sessions /\ hand[c] # Nil BY <1>7, Handed DEF Spawned
  <2>2. /\ stage'[c] = "ready" /\ hand'[c] = Nil /\ mine'[c] = hand[c]
        /\ \A e \in Clients \ {c} :
              /\ stage'[e] = stage[e] /\ hand'[e] = hand[e] /\ mine'[e] = mine[e]
        /\ UNCHANGED <<shell, finished>>
    BY <1>7 DEF Spawned, Rebind, Goto, HandlersType, terminal, threads, commands
  <2>3. CASE d = c BY <1>7, <2>1, <2>2, <2>3 DEF Spawned
  <2>4. CASE d # c BY <2>2, <2>4
  <2>5. QED BY <2>3, <2>4
<1>8. CASE Found(c)
  <2>1. hand[c] \in Sessions /\ hand[c] # Nil BY <1>8, Handed DEF Found
  <2>2. /\ \/ stage'[c] = "ready" /\ hand'[c] = Nil /\ mine'[c] = mine[c]
           \/ stage'[c] = "attach" /\ hand'[c] = hand[c] /\ mine'[c] = hand[c]
        /\ \A e \in Clients \ {c} :
              /\ stage'[e] = stage[e] /\ hand'[e] = hand[e] /\ mine'[e] = mine[e]
        /\ UNCHANGED <<shell, finished>>
    BY <1>8 DEF Found, Rebind, Goto, HandlersType, terminal, threads, commands
  <2>3. CASE d = c BY <1>8, <2>1, <2>2, <2>3 DEF Found
  <2>4. CASE d # c BY <2>2, <2>4
  <2>5. QED BY <2>3, <2>4
<1>9. CASE TakeOver(c)
  <2>1. hand[c] \in Sessions /\ hand[c] # Nil BY <1>9, Handed DEF TakeOver
  <2>2. /\ stage'[c] = "snapshot" /\ hand'[c] = hand[c] /\ mine'[c] = mine[c]
        /\ \A e \in Clients \ {c} :
              /\ stage'[e] = stage[e] /\ hand'[e] = hand[e] /\ mine'[e] = mine[e]
        /\ UNCHANGED <<shell, finished>>
    BY <1>9 DEF TakeOver, Rebind, Goto, HandlersType, terminal, threads, commands
  <2>3. CASE d = c BY <1>9, <2>1, <2>2, <2>3 DEF TakeOver
  <2>4. CASE d # c BY <2>2, <2>4
  <2>5. QED BY <2>3, <2>4
<1>10. CASE Snapshot(c)
  <2>1. hand[c] \in Sessions /\ hand[c] # Nil BY <1>10, Handed DEF Snapshot
  <2>2. /\ stage'[c] \in {"attached", "replay"} /\ hand'[c] = hand[c] /\ mine'[c] = mine[c]
        /\ \A e \in Clients \ {c} :
              /\ stage'[e] = stage[e] /\ hand'[e] = hand[e] /\ mine'[e] = mine[e]
        /\ UNCHANGED <<shell, finished>>
    BY <1>10 DEF Snapshot, Rebind, Goto, HandlersType, terminal, threads, commands
  <2>3. CASE d = c BY <1>10, <2>1, <2>2, <2>3 DEF Snapshot
  <2>4. CASE d # c BY <2>2, <2>4
  <2>5. QED BY <2>3, <2>4
<1>11. CASE Replay(c)
  <2>1. hand[c] \in Sessions /\ hand[c] # Nil BY <1>11, Handed DEF Replay
  <2>2. /\ stage'[c] = "attached" /\ hand'[c] = hand[c] /\ mine'[c] = mine[c]
        /\ \A e \in Clients \ {c} :
              /\ stage'[e] = stage[e] /\ hand'[e] = hand[e] /\ mine'[e] = mine[e]
        /\ UNCHANGED <<shell, finished>>
    BY <1>11 DEF Replay, Rebind, Goto, HandlersType, terminal, threads, commands
  <2>3. CASE d = c BY <1>11, <2>1, <2>2, <2>3 DEF Replay
  <2>4. CASE d # c BY <2>2, <2>4
  <2>5. QED BY <2>3, <2>4
<1>12. CASE Attached(c)
  <2>1. hand[c] \in Sessions /\ hand[c] # Nil BY <1>12, Handed DEF Attached
  <2>2. /\ stage'[c] = "ready" /\ hand'[c] = Nil /\ mine'[c] = mine[c]
        /\ \A e \in Clients \ {c} :
              /\ stage'[e] = stage[e] /\ hand'[e] = hand[e] /\ mine'[e] = mine[e]
        /\ UNCHANGED <<shell, finished>>
    BY <1>12 DEF Attached, Rebind, Goto, HandlersType, terminal, threads, commands
  <2>3. CASE d = c BY <1>12, <2>1, <2>2, <2>3 DEF Attached
  <2>4. CASE d # c BY <2>2, <2>4
  <2>5. QED BY <2>3, <2>4
<1>13. CASE Leave(c)
  <2>1. CASE d = c
    BY <1>13, <2>1 DEF Leave, Goto, Remove, Detach, Owns, bounds, commands, terminal,
       threads, HandlersType, ShellsType, ThreadsType
  <2>2. CASE d # c
    BY <1>13, <2>2 DEF Leave, Goto, Remove, Detach, Owns, bounds, commands, terminal,
       threads, HandlersType, ShellsType, ThreadsType
  <2>3. QED BY <2>1, <2>2
<1>14. QED
  BY <1>1, <1>2, <1>3, <1>4, <1>5, <1>6, <1>7, <1>8, <1>9, <1>10, <1>11, <1>12, <1>13
     DEF ClientStep, Request, HandlerStep

LEMMA SessionKeepsTokens ==
    ASSUME TerminalTypeOK, ShellsInv, HandsInv, TokensInv, NEW s \in Sessions,
       SessionStep(s)
    PROVE  TokensInv'
<1> USE TerminalAssumption DEF TerminalTypeOK, TokensInv, Unmarked
<1>1. CASE Output(s) \/ ShellExit(s) \/ Wedge(s) \/ HangUp(s) \/ ReadEmit(s)
           \/ ReadEnd(s) \/ ReaderKill(s) \/ DoKill(s) \/ Finish(s)
           \/ ExitEmit(s) \/ SweepKill(s)
  <2>1. UNCHANGED <<marks, mark, stage, mine, emit, token>>
    BY <1>1 DEF Output, ShellExit, Wedge, HangUp, ReadEmit, ReadEnd, ReaderKill, DoKill,
       Finish, ExitEmit, SweepKill, Become, Fault, Emit, Send, bounds, commands,
       entries, events, handler, owner, terminal, threads
  <2>2. QED BY <2>1 DEF HandlersType, EntriesType
<1>2. CASE ReadTorn(s)
  BY <1>2 DEF ReadTorn, Fault, Mark, Source, commands, entries, events, handler, owner,
     HandlersType, EntriesType
<1>3. CASE Read(s)
  BY <1>3 DEF Read, Mark, If, Source, bounds, commands, entries, events, handler, owner,
     HandlersType, EntriesType
<1>4. CASE DoWrite(s)
  BY <1>4 DEF DoWrite, Mark, If, NextIs, bounds, entries, events, handler, owner,
     terminal, HandlersType, EntriesType
<1>5. QED
  BY <1>1, <1>2, <1>3, <1>4 DEF SessionStep, ShellStep, ReaderStep, CommandStep

LEMMA ClientKeepsTokens ==
    ASSUME TerminalTypeOK, ShellsInv, HandsInv, TokensInv, NEW c \in Clients,
       ClientStep(c)
    PROVE  TokensInv'
<1> USE TerminalAssumption DEF TerminalTypeOK, TokensInv, Unmarked
<1>1. CASE AskWrite(c) \/ AskKill(c) \/ Disconnect(c) \/ Pump(c)
  <2>1. UNCHANGED <<marks, mark, stage, mine, emit, token>>
    BY <1>1 DEF AskWrite, AskKill, Disconnect, Pump, Send, Ask, Remove, bounds,
       commands, entries, events, handler, owner, terminal, threads
  <2>2. QED BY <2>1 DEF HandlersType, EntriesType
<1>2. CASE SpawnRefused(c)
  BY <1>2 DEF SpawnRefused, Ask, Rebind, Listening, Unbound, commands, entries, events,
     owner, terminal, threads, HandlersType, EntriesType
<1>3. ASSUME NEW s \in Sessions, Spawn(c, s) PROVE TokensInv'
  BY <1>3 DEF Spawn, Forked, Ask, Goto, Listening, Unbound, events, HandlersType,
     EntriesType
<1>4. ASSUME NEW s \in Sessions, SpawnFails(c, s) PROVE TokensInv'
  BY <1>4 DEF SpawnFails, Forked, Fault, Rebind, Listening, Unbound, events,
     HandlersType, EntriesType
<1>5. ASSUME NEW s \in Sessions, Look(c, s) PROVE TokensInv'
  BY <1>5 DEF Look, Ask, Goto, Listening, Unbound, commands, entries, events, owner,
     terminal, threads, HandlersType, EntriesType
<1>6. CASE Announce(c)
  BY <1>6 DEF Announce, Goto, Emit, bounds, commands, entries, owner, terminal, threads,
     HandlersType, EntriesType
<1>7. CASE Spawned(c)
  BY <1>7 DEF Spawned, Rebind, Goto, Mark, If, bounds, commands, entries, events, owner,
     terminal, threads, HandlersType, EntriesType
<1>8. CASE Found(c)
  <2>1. /\ stage[c] = "found" /\ stage'[c] \in {"ready", "attach"}
        /\ stage'[c] = "ready" => mine'[c] = mine[c]
        /\ \A e \in Clients \ {c} : stage'[e] = stage[e] /\ mine'[e] = mine[e]
        /\ UNCHANGED <<marks, mark, emit, token>>
    BY <1>8 DEF Found, Rebind, Goto, HandlersType, owner
  <2>2. QED BY <2>1 DEF HandlersType, EntriesType
<1>9. CASE TakeOver(c)
  BY <1>9 DEF TakeOver, Goto, Mark, If, bounds, commands, entries, events, terminal,
     threads, HandlersType, EntriesType
<1>10. CASE Snapshot(c)
  BY <1>10 DEF Snapshot, Goto, bounds, commands, entries, events, owner, terminal,
     threads, HandlersType, EntriesType
<1>11. CASE Replay(c)
  BY <1>11 DEF Replay, Goto, Emit, bounds, commands, entries, owner, terminal, threads,
     HandlersType, EntriesType
<1>12. CASE Attached(c)
  BY <1>12 DEF Attached, Goto, EmitTo, Mark, If, bounds, commands, owner, terminal,
     threads, HandlersType, EntriesType
<1>13. CASE Leave(c)
  BY <1>13 DEF Leave, Goto, Remove, Detach, Owns, bounds, commands, terminal, threads,
     HandlersType, EntriesType
<1>14. QED
  BY <1>1, <1>2, <1>3, <1>4, <1>5, <1>6, <1>7, <1>8, <1>9, <1>10, <1>11, <1>12, <1>13
     DEF ClientStep, Request, HandlerStep
-----------------------------------------------------------------------------
(* What has begun to end goes on ending, and only that leaves the registry.  *)

LEMMA SessionKeepsEnded ==
    ASSUME TerminalTypeOK, ShellsInv, NEW s \in Sessions, SessionStep(s)
    PROVE  \A t \in Sessions : Ending(t) => Ending(t)'
<1> USE TerminalAssumption DEF ShellsType, ThreadsType, EntriesType, HandlersType,
     TerminalTypeOK
<1> SUFFICES ASSUME NEW t \in Sessions PROVE Ending(t) => Ending(t)'
  OBVIOUS
<1>1. CASE Output(s) \/ ShellExit(s) \/ Wedge(s) \/ HangUp(s)
  <2>1. UNCHANGED <<doomed, reader, cmd, cmds>>
    BY <1>1 DEF Output, ShellExit, Wedge, HangUp, Become, Fault, bounds, commands,
       entries, events, handler, owner, threads
  <2>2. QED BY <2>1 DEF Ending, KillSent
<1>2. CASE ReadTorn(s)
  <2>1. CASE t = s
    BY <1>2, <2>1 DEF ReadTorn, Fault, Mark, Source, commands, entries, events, handler,
       owner, Ending, KillSent
  <2>2. CASE t # s
    BY <1>2, <2>2 DEF ReadTorn, Fault, Mark, Source, commands, entries, events, handler,
       owner, Ending, KillSent
  <2>3. QED BY <2>1, <2>2
<1>3. CASE Read(s)
  <2>1. CASE t = s
    BY <1>3, <2>1 DEF Read, Mark, If, Source, bounds, commands, entries, events,
       handler, owner, Ending, KillSent
  <2>2. CASE t # s
    BY <1>3, <2>2 DEF Read, Mark, If, Source, bounds, commands, entries, events,
       handler, owner, Ending, KillSent
  <2>3. QED BY <2>1, <2>2
<1>4. CASE ReadEmit(s)
  <2>1. CASE t = s
    BY <1>4, <2>1 DEF ReadEmit, Emit, bounds, commands, entries, handler, owner,
       terminal, Ending, KillSent
  <2>2. CASE t # s
    BY <1>4, <2>2 DEF ReadEmit, Emit, bounds, commands, entries, handler, owner,
       terminal, Ending, KillSent
  <2>3. QED BY <2>1, <2>2
<1>5. CASE ReadEnd(s)
  <2>1. CASE t = s
    BY <1>5, <2>1 DEF ReadEnd, Source, bounds, commands, entries, events, handler,
       owner, terminal, Ending, KillSent
  <2>2. CASE t # s
    BY <1>5, <2>2 DEF ReadEnd, Source, bounds, commands, entries, events, handler,
       owner, terminal, Ending, KillSent
  <2>3. QED BY <2>1, <2>2
<1>6. CASE ReaderKill(s)
  <2>1. CASE t = s
    <3>1. reader'[s] = "over" BY <1>6 DEF ReaderKill
    <3>2. QED BY <2>1, <3>1 DEF Ending
  <2>2. CASE t # s
    <3>1. cmds'[t] = cmds[t] BY <1>6, <2>2, SendFacts DEF ReaderKill
    <3>2. QED BY <1>6, <2>2, <3>1 DEF ReaderKill, Ending, KillSent, entries
  <2>3. QED BY <2>1, <2>2
<1>7. CASE DoWrite(s)
  <2>1. CASE t = s
    <3>1. KillSent(s) => KillSent(s)' BY <1>7, TailFacts DEF DoWrite, NextIs
    <3>2. cmd'[s] = cmd[s] \/ cmd'[s] = "wait" BY <1>7 DEF DoWrite
    <3>3. QED BY <1>7, <2>1, <3>1, <3>2 DEF DoWrite, Ending, entries
  <2>2. CASE t # s
    <3>1. cmds'[t] = cmds[t] BY <1>7, <2>2, TailFacts DEF DoWrite, NextIs
    <3>2. cmd'[t] = cmd[t] BY <1>7, <2>2 DEF DoWrite
    <3>3. QED BY <1>7, <3>1, <3>2 DEF DoWrite, Ending, KillSent, entries
  <2>3. QED BY <2>1, <2>2
<1>8. CASE DoKill(s)
  <2>1. CASE t = s
    <3>1. cmd'[s] = "wait" BY <1>8 DEF DoKill
    <3>2. QED BY <2>1, <3>1 DEF Ending
  <2>2. CASE t # s
    <3>1. cmds'[t] = cmds[t] BY <1>8, <2>2, TailFacts DEF DoKill, NextIs
    <3>2. cmd'[t] = cmd[t] BY <1>8, <2>2 DEF DoKill
    <3>3. QED BY <1>8, <3>1, <3>2 DEF DoKill, Ending, KillSent, entries
  <2>3. QED BY <2>1, <2>2
<1>9. CASE Finish(s)
  <2>1. CASE t = s
    <3>1. cmd'[s] = "closed" BY <1>9 DEF Finish
    <3>2. QED BY <2>1, <3>1 DEF Ending
  <2>2. CASE t # s
    <3>1. cmds'[t] = cmds[t] /\ cmd'[t] = cmd[t] BY <1>9, <2>2 DEF Finish
    <3>2. QED BY <1>9, <3>1 DEF Finish, Ending, KillSent, entries
  <2>3. QED BY <2>1, <2>2
<1>10. CASE ExitEmit(s)
  <2>1. CASE t = s
    BY <1>10, <2>1 DEF ExitEmit, Emit, bounds, entries, handler, owner, terminal,
       Ending, KillSent
  <2>2. CASE t # s
    BY <1>10, <2>2 DEF ExitEmit, Emit, bounds, entries, handler, owner, terminal,
       Ending, KillSent
  <2>3. QED BY <2>1, <2>2
<1>11. CASE SweepKill(s)
  <2>1. CASE t = s
    <3>1. finished[s] \/ KillSent(s)' BY <1>11, SendFacts DEF SweepKill
    <3>2. finished[s] => cmd[s] \in {"closed", "over"} BY DEF ShellsInv, ShellFits
    <3>3. QED BY <1>11, <2>1, <3>1, <3>2 DEF SweepKill, Ending
  <2>2. CASE t # s
    <3>1. cmds'[t] = cmds[t] BY <1>11, <2>2, SendFacts DEF SweepKill
    <3>2. QED BY <1>11, <2>2, <3>1 DEF SweepKill, Ending, KillSent
  <2>3. QED BY <2>1, <2>2
<1>12. QED
  BY <1>1, <1>2, <1>3, <1>4, <1>5, <1>6, <1>7, <1>8, <1>9, <1>10, <1>11 DEF SessionStep,
     ShellStep, ReaderStep, CommandStep

LEMMA ClientKeepsEnded ==
    ASSUME TerminalTypeOK, ShellsInv, NEW c \in Clients, ClientStep(c)
    PROVE  \A t \in Sessions : Ending(t) => Ending(t)'
<1> USE TerminalAssumption DEF ShellsType, ThreadsType, EntriesType, HandlersType,
     TerminalTypeOK
<1> SUFFICES ASSUME NEW t \in Sessions PROVE Ending(t) => Ending(t)'
  OBVIOUS
<1>1. CASE SpawnRefused(c) \/ Disconnect(c) \/ Announce(c) \/ Spawned(c)
           \/ Found(c) \/ TakeOver(c) \/ Snapshot(c) \/ Replay(c) \/ Attached(c)
           \/ Leave(c) \/ Pump(c) \/ \E s \in Sessions : Look(c, s)
  <2>1. UNCHANGED <<doomed, reader, cmd, cmds>>
    BY <1>1 DEF SpawnRefused, Disconnect, Announce, Spawned, Found, TakeOver, Snapshot,
       Replay, Attached, Leave, Pump, Look, Ask, Rebind, Goto, Emit, Mark, If, EmitTo,
       Remove, Detach, bounds, commands, entries, events, handler, owner, terminal,
       threads
  <2>2. QED BY <2>1 DEF Ending, KillSent
<1>2. ASSUME NEW s \in Sessions, Spawn(c, s) PROVE Ending(t) => Ending(t)'
  <2>1. CASE t = s
    <3>1. Fresh(s) BY <1>2 DEF Spawn, Forked, ShellsInv, ShellFits
    <3>2. QED BY <2>1, <3>1, FreshNotEnding
  <2>2. CASE t # s
    <3>1. /\ reader'[t] = reader[t] /\ cmd'[t] = cmd[t]
          /\ UNCHANGED <<doomed, cmds>>
      BY <1>2, <2>2 DEF Spawn, Forked
    <3>2. QED BY <3>1 DEF Ending, KillSent
  <2>3. QED BY <2>1, <2>2
<1>3. ASSUME NEW s \in Sessions, SpawnFails(c, s) PROVE Ending(t) => Ending(t)'
  <2>1. CASE t = s
    <3>1. Fresh(s) BY <1>3 DEF SpawnFails, Forked, ShellsInv, ShellFits
    <3>2. QED BY <2>1, <3>1, FreshNotEnding
  <2>2. CASE t # s
    <3>1. /\ reader'[t] = reader[t] /\ cmd'[t] = cmd[t]
          /\ UNCHANGED <<doomed, cmds>>
      BY <1>3, <2>2 DEF SpawnFails, Forked
    <3>2. QED BY <3>1 DEF Ending, KillSent
  <2>3. QED BY <2>1, <2>2
<1>4. CASE AskWrite(c)
  <2>1. KillSent(t) => KillSent(t)'
    <3>1. CASE t = mine[c] BY <1>4, <3>1, SendFacts DEF AskWrite
    <3>2. CASE t # mine[c]
      <4>1. mine[c] \in Sessions BY <1>4 DEF AskWrite
      <4>2. cmds'[t] = cmds[t] BY <1>4, <3>2, <4>1, SendFacts DEF AskWrite
      <4>3. QED BY <4>2 DEF KillSent
    <3>3. QED BY <3>1, <3>2
  <2>2. QED BY <1>4, <2>1 DEF AskWrite, Ending, entries
<1>5. CASE AskKill(c)
  <2>1. KillSent(t) => KillSent(t)'
    <3>1. CASE t = mine[c] BY <1>5, <3>1, SendFacts DEF AskKill
    <3>2. CASE t # mine[c]
      <4>1. mine[c] \in Sessions BY <1>5 DEF AskKill
      <4>2. cmds'[t] = cmds[t] BY <1>5, <3>2, <4>1, SendFacts DEF AskKill
      <4>3. QED BY <4>2 DEF KillSent
    <3>3. QED BY <3>1, <3>2
  <2>2. QED BY <1>5, <2>1 DEF AskKill, Ending, entries
<1>6. QED
  BY <1>1, <1>2, <1>3, <1>4, <1>5 DEF ClientStep, Request, HandlerStep

\* The exit that a pump sends is that of a session whose command thread is over.
LEMMA PumpedEnds ==
    ASSUME TerminalTypeOK, EndingInv, NEW c \in Clients, Pump(c),
           wire[c][sent[c] + 1].type = "exit"
    PROVE  /\ wire[c][sent[c] + 1].id \in Sessions
           /\ Ending(wire[c][sent[c] + 1].id)
<1> USE DEF TerminalTypeOK, EventsType
<1>1. wire[c] \in Seq(Event) /\ sent[c] \in Nat /\ sent[c] < Len(wire[c]) BY DEF Pump
<1>2. sent[c] + 1 \in 1 .. Len(wire[c]) BY <1>1
<1>3. wire[c][sent[c] + 1] \in Event BY <1>1, <1>2
<1>4. QED BY <1>2, <1>3 DEF EndingInv, ExitsFit, Ending, Event

LEMMA SessionKeepsEnds ==
    ASSUME TerminalTypeOK, ShellsInv, HandsInv, EndingInv, NEW s \in Sessions,
       SessionStep(s)
    PROVE  \A t \in Sessions : EndFits(t)'
<1> USE TerminalAssumption DEF TerminalTypeOK, EndingInv, ShellsType, ThreadsType,
     EntriesType, HandlersType, EndFits
<1> SUFFICES ASSUME NEW t \in Sessions PROVE EndFits(t)'
  OBVIOUS
<1>1. \A q \in Sessions : Ending(q) => Ending(q)'
  BY SessionKeepsEnded
<1> USE <1>1
<1>2. CASE Output(s) \/ ReadTorn(s) \/ Read(s) \/ ReadEmit(s) \/ ReadEnd(s)
           \/ ReaderKill(s) \/ DoWrite(s) \/ Finish(s) \/ ExitEmit(s)
           \/ SweepKill(s)
  <2>1. UNCHANGED <<swept, shell, registry>>
    BY <1>2 DEF Output, ReadTorn, Read, ReadEmit, ReadEnd, ReaderKill, DoWrite, Finish,
       ExitEmit, SweepKill, Fault, Mark, If, Emit, Send, bounds, commands, entries,
       events, handler, owner, terminal, threads
  <2>2. QED BY <2>1
<1>3. CASE ShellExit(s)
  <2>1. CASE t = s
    BY <1>3, <2>1 DEF ShellExit, Become, Up, bounds, commands, entries, events, handler,
       owner, threads
  <2>2. CASE t # s
    BY <1>3, <2>2 DEF ShellExit, Become, Up, bounds, commands, entries, events, handler,
       owner, threads
  <2>3. QED BY <2>1, <2>2
<1>4. CASE Wedge(s)
  <2>1. CASE t = s
    BY <1>4, <2>1 DEF Wedge, Become, Fault, commands, entries, events, handler, owner,
       threads
  <2>2. CASE t # s
    BY <1>4, <2>2 DEF Wedge, Become, Fault, commands, entries, events, handler, owner,
       threads
  <2>3. QED BY <2>1, <2>2
<1>5. CASE HangUp(s)
  <2>1. CASE t = s
    BY <1>5, <2>1 DEF HangUp, Become, Fault, commands, entries, events, handler, owner,
       threads
  <2>2. CASE t # s
    BY <1>5, <2>2 DEF HangUp, Become, Fault, commands, entries, events, handler, owner,
       threads
  <2>3. QED BY <2>1, <2>2
<1>6. CASE DoKill(s)
  <2>1. shell[s] # "none" /\ shell'[s] = "down"
    BY <1>6 DEF DoKill, NextIs, ShellsInv, ShellFits, Fresh
  <2>2. \A q \in Sessions \ {s} : shell'[q] = shell[q] BY <1>6 DEF DoKill
  <2>3. UNCHANGED <<registry, swept>> BY <1>6 DEF DoKill, entries
  <2>4. QED BY <2>1, <2>2, <2>3
<1>7. QED
  BY <1>2, <1>3, <1>4, <1>5, <1>6 DEF SessionStep, ShellStep, ReaderStep, CommandStep

LEMMA ClientKeepsEnds ==
    ASSUME TerminalTypeOK, ShellsInv, HandsInv, EndingInv, NEW c \in Clients,
       ClientStep(c)
    PROVE  \A t \in Sessions : EndFits(t)'
<1> USE TerminalAssumption DEF TerminalTypeOK, EndingInv, ShellsType, ThreadsType,
     EntriesType, HandlersType, EndFits
<1> SUFFICES ASSUME NEW t \in Sessions PROVE EndFits(t)'
  OBVIOUS
<1>1. \A q \in Sessions : Ending(q) => Ending(q)'
  BY ClientKeepsEnded
<1> USE <1>1
<1>2. CASE SpawnRefused(c) \/ AskWrite(c) \/ AskKill(c) \/ Disconnect(c)
           \/ Announce(c) \/ Spawned(c) \/ Found(c) \/ TakeOver(c) \/ Snapshot(c)
           \/ Replay(c) \/ Attached(c) \/ \E s \in Sessions : Look(c, s)
  <2>1. UNCHANGED <<swept, shell, registry>>
    BY <1>2 DEF SpawnRefused, AskWrite, AskKill, Disconnect, Announce, Spawned, Found,
       TakeOver, Snapshot, Replay, Attached, Look, Ask, Rebind, Send, Goto, Emit, Mark,
       If, EmitTo, bounds, commands, entries, events, handler, owner, terminal, threads
  <2>2. QED BY <2>1
<1>3. ASSUME NEW s \in Sessions, Spawn(c, s) PROVE EndFits(t)'
  <2>1. Fresh(s) /\ s \notin swept /\ UNCHANGED swept
    BY <1>3 DEF Spawn, Forked, ShellsInv, ShellFits, Fresh
  <2>2. registry' = registry \cup {s} /\ \A q \in Sessions \ {s} : shell'[q] = shell[q]
    BY <1>3 DEF Spawn, Forked
  <2>3. QED BY <2>1, <2>2
<1>4. ASSUME NEW s \in Sessions, SpawnFails(c, s) PROVE EndFits(t)'
  <2>1. Fresh(s) /\ s \notin swept /\ UNCHANGED swept
    BY <1>4 DEF SpawnFails, Forked, ShellsInv, ShellFits, Fresh
  <2>2. registry' = registry \cup {s} /\ \A q \in Sessions \ {s} : shell'[q] = shell[q]
    BY <1>4 DEF SpawnFails, Forked
  <2>3. QED BY <2>1, <2>2
<1>5. CASE Leave(c)
  <2>1. UNCHANGED <<shell, swept>> BY <1>5 DEF Leave, terminal
  <2>2. CASE registry' = registry BY <2>1, <2>2
  <2>3. CASE finished[mine[c]] /\ mine[c] # Nil /\ Remove(mine[c])
    <3>1. mine[c] \in Sessions BY <2>3
    <3>2. Ending(mine[c]) BY <2>3, <3>1, FinishedEnding
    <3>3. registry' = registry \ {mine[c]} BY <2>3 DEF Remove
    <3>4. QED BY <2>1, <3>1, <3>2, <3>3
  <2>4. QED BY <1>5, <2>2, <2>3 DEF Leave, Detach
<1>6. CASE Pump(c)
  <2> DEFINE e == wire[c][sent[c] + 1]
  <2>1. UNCHANGED <<shell, swept>> BY <1>6 DEF Pump, terminal
  <2>2. CASE registry' = registry BY <2>1, <2>2
  <2>3. CASE e.type = "exit" /\ Remove(e.id)
    <3>1. Ending(e.id) BY <1>6, <2>3, PumpedEnds
    <3>2. registry' = registry \ {e.id} BY <2>3 DEF Remove
    <3>3. QED BY <2>1, <3>1, <3>2
  <2>4. QED BY <1>6, <2>2, <2>3 DEF Pump
<1>7. QED
  BY <1>2, <1>3, <1>4, <1>5, <1>6 DEF ClientStep, Request, HandlerStep

LEMMA SessionKeepsExits ==
    ASSUME TerminalTypeOK, ShellsInv, HandsInv, EndingInv, NEW s \in Sessions,
       SessionStep(s)
    PROVE  \A d \in Clients : ExitsFit(d)'
<1> USE DEF TerminalTypeOK, EventsType, ThreadsType
<1> SUFFICES ASSUME NEW d \in Clients PROVE ExitsFit(d)'
  OBVIOUS
<1>1. ExitsFit(d) BY DEF EndingInv
<1> USE <1>1
<1>2. CASE Output(s) \/ ShellExit(s) \/ Wedge(s) \/ HangUp(s) \/ ReadTorn(s)
           \/ Read(s) \/ ReadEnd(s) \/ ReaderKill(s) \/ SweepKill(s)
  <2>1. UNCHANGED <<wire, cmd>>
    BY <1>2 DEF Output, ShellExit, Wedge, HangUp, ReadTorn, Read, ReadEnd, ReaderKill,
       SweepKill, Become, Fault, Mark, If, Send, bounds, commands, entries, events,
       handler, owner, terminal, threads
  <2>2. QED BY <2>1 DEF ExitsFit
<1>3. CASE ReadEmit(s)
  <2>1. PICK e : e = DataEvent(s, chunk[s]) OBVIOUS
  <2>2. e \in Event /\ Adds(e) /\ e.type # "exit" BY <1>3, <2>1, ReadEmits DEF DataEvent
  <2>3. cmd' = cmd BY <1>3 DEF ReadEmit, commands
  <2>4. QED BY <2>2, <2>3, ExitsStay
<1>4. CASE DoWrite(s)
  <2>1. \A t \in Sessions : cmd[t] = "over" => cmd'[t] = "over"
    BY <1>4 DEF DoWrite, Mark, If, NextIs, bounds, entries, events, handler, owner,
       terminal
  <2>2. wire'[d] = wire[d]
    BY <1>4 DEF DoWrite, Mark, If, NextIs, bounds, entries, events, handler, owner,
       terminal
  <2>3. QED BY <2>1, <2>2, ExitsStay
<1>5. CASE DoKill(s)
  <2>1. \A t \in Sessions : cmd[t] = "over" => cmd'[t] = "over"
    BY <1>5 DEF DoKill, NextIs, bounds, entries, events, handler, owner
  <2>2. wire'[d] = wire[d]
    BY <1>5 DEF DoKill, NextIs, bounds, entries, events, handler, owner
  <2>3. QED BY <2>1, <2>2, ExitsStay
<1>6. CASE Finish(s)
  <2>1. \A t \in Sessions : cmd[t] = "over" => cmd'[t] = "over"
    BY <1>6 DEF Finish, bounds, entries, events, handler, owner
  <2>2. wire'[d] = wire[d] BY <1>6 DEF Finish, bounds, entries, events, handler, owner
  <2>3. QED BY <2>1, <2>2, ExitsStay
<1>7. CASE ExitEmit(s)
  <2>1. PICK e : e = ExitEvent(s) OBVIOUS
  <2>2. e \in Event /\ Adds(e) /\ e.id = s BY <1>7, <2>1, ExitEmits DEF ExitEvent
  <2>3. /\ cmd'[s] = "over"
        /\ \A t \in Sessions : cmd[t] = "over" => cmd'[t] = "over"
    BY <1>7 DEF ExitEmit
  <2>4. QED BY <2>2, <2>3, ExitsStay
<1>8. QED
  BY <1>2, <1>3, <1>4, <1>5, <1>6, <1>7 DEF SessionStep, ShellStep, ReaderStep,
     CommandStep

LEMMA ClientKeepsExits ==
    ASSUME TerminalTypeOK, ShellsInv, HandsInv, EndingInv, NEW c \in Clients,
       ClientStep(c)
    PROVE  \A d \in Clients : ExitsFit(d)'
<1> USE DEF TerminalTypeOK, EventsType, ThreadsType
<1> SUFFICES ASSUME NEW d \in Clients PROVE ExitsFit(d)'
  OBVIOUS
<1>1. ExitsFit(d) BY DEF EndingInv
<1> USE <1>1
<1>2. CASE SpawnRefused(c) \/ AskWrite(c) \/ AskKill(c) \/ Disconnect(c)
           \/ Spawned(c) \/ Found(c) \/ TakeOver(c) \/ Snapshot(c) \/ Pump(c)
           \/ \E s \in Sessions : SpawnFails(c, s) \/ Look(c, s)
  <2>1. UNCHANGED <<wire, cmd>>
    BY <1>2 DEF SpawnRefused, AskWrite, AskKill, Disconnect, Spawned, Found, TakeOver,
       Snapshot, Pump, SpawnFails, Look, Ask, Rebind, Send, Goto, Mark, If, Remove,
       Forked, Fault, bounds, commands, entries, events, handler, owner, terminal,
       threads
  <2>2. QED BY <2>1 DEF ExitsFit
<1>3. ASSUME NEW s \in Sessions, Spawn(c, s) PROVE ExitsFit(d)'
  <2>1. cmd[s] = "off" BY <1>3 DEF Spawn, Forked, ShellsInv, ShellFits, Fresh
  <2>2. \A t \in Sessions : cmd[t] = "over" => cmd'[t] = "over"
    BY <1>3, <2>1 DEF Spawn
  <2>3. wire' = wire BY <1>3 DEF Spawn, Forked, events
  <2>4. QED BY <2>2, <2>3, ExitsStay
<1>4. CASE Announce(c)
  <2>1. PICK e : e = StatusEvent(hand[c]) OBVIOUS
  <2>2. e \in Event /\ Adds(e) /\ e.type # "exit" BY <1>4, <2>1, Announces
  <2>3. cmd' = cmd BY <1>4 DEF Announce, threads, commands
  <2>4. QED BY <2>2, <2>3, ExitsStay
<1>5. CASE Replay(c)
  <2>1. PICK e : e = DataEvent(hand[c], held[c]) OBVIOUS
  <2>2. e \in Event /\ Adds(e) /\ e.type # "exit" BY <1>5, <2>1, Replays
  <2>3. cmd' = cmd BY <1>5 DEF Replay, threads, commands
  <2>4. QED BY <2>2, <2>3, ExitsStay
<1>6. CASE Attached(c)
  <2>1. PICK e : e = StatusEvent(hand[c]) OBVIOUS
  <2>2. e \in Event /\ Adds(e) /\ e.type # "exit" BY <1>6, <2>1, Attaches
  <2>3. cmd' = cmd BY <1>6 DEF Attached, threads, commands
  <2>4. QED BY <2>2, <2>3, ExitsStay
<1>7. CASE Leave(c)
  <2>1. wire' = [wire EXCEPT ![c] = <<>>] /\ UNCHANGED cmd
    BY <1>7 DEF Leave, threads, commands
  <2>2. CASE d = c
    <3>1. wire'[d] = <<>> BY <2>1, <2>2
    <3>2. QED BY <3>1 DEF ExitsFit
  <2>3. CASE d # c
    <3>1. wire'[d] = wire[d] BY <2>1, <2>3
    <3>2. QED BY <2>1, <3>1, ExitsStay
  <2>4. QED BY <2>2, <2>3
<1>8. QED
  BY <1>2, <1>3, <1>4, <1>5, <1>6, <1>7 DEF ClientStep, Request, HandlerStep

-----------------------------------------------------------------------------
(* The end of a session, and of its output.                                  *)

\* A step that starts no end, and undoes none, leaves what a session's end rests on.
LEMMA OutputStays ==
    ASSUME NEW t \in Sessions, OutputFits(t),
           t \in condemned \cup swept => t \in condemned' \cup swept',
           marks \subseteq marks',
           KillSent(t)' => KillSent(t),
           cmd'[t] \in {"wait", "closed", "over"} =>
               \/ cmd[t] \in {"wait", "closed", "over"} \/ KillSent(t)
               \/ "raised" \in marks',
           reader[t] = "over" => reader'[t] = "over",
           reader'[t] \in {"end", "over"} => reader[t] \in {"end", "over"},
           Ended(t) => Ended(t)' \/ "stolen" \in marks'
    PROVE  OutputFits(t)'
BY DEF OutputFits, Unmarked

\* A reader that has not been told the end has a session with its descriptor.
LEMMA ReaderReads ==
    ASSUME TerminalTypeOK, ShellsInv, OutputInv, NEW s \in Sessions,
           reader[s] = "read", s \notin condemned \cup swept, Unmarked({"raised"})
    PROVE  Source(s) = s
<1>1. shell[s] # "none" BY DEF ShellsInv, ShellFits, Fresh
<1>2. OutputFits(s) BY DEF OutputInv
<1>3. cmd[s] \notin {"closed", "over"} BY <1>2 DEF OutputFits
<1>4. QED BY <1>1, <1>3 DEF ShellsInv, ShellFits, Source

LEMMA SessionKeepsOutput ==
    ASSUME TerminalTypeOK, ShellsInv, HandsInv, OutputInv, NEW s \in Sessions,
       SessionStep(s)
    PROVE  OutputInv'
<1> USE TerminalAssumption DEF TerminalTypeOK, ShellsType, ThreadsType, EntriesType,
     HandlersType
<1> SUFFICES ASSUME NEW t \in Sessions PROVE OutputFits(t)'
  BY DEF OutputInv
<1>1. OutputFits(t) BY DEF OutputInv
<1> USE <1>1
<1>2. CASE Output(s)
  <2>1. KillSent(t)' => KillSent(t)
    BY <1>2 DEF Output, bounds, commands, entries, events, handler, owner, threads,
       KillSent
  <2>2. /\ t \in condemned \cup swept => t \in condemned' \cup swept'
        /\ marks \subseteq marks'
        /\ cmd'[t] \in {"wait", "closed", "over"} => cmd[t] \in {"wait", "closed", "over"}
        /\ reader[t] = "over" => reader'[t] = "over"
        /\ reader'[t] \in {"end", "over"} => reader[t] \in {"end", "over"}
        /\ Ended(t) => Ended(t)'
    BY <1>2 DEF Output, bounds, commands, entries, events, handler, owner, threads,
       Ended
  <2>3. QED BY <2>1, <2>2, OutputStays
<1>3. CASE ShellExit(s)
  <2>1. KillSent(t)' => KillSent(t)
    BY <1>3 DEF ShellExit, Become, Up, bounds, commands, entries, events, handler,
       owner, threads, KillSent
  <2>2. /\ t \in condemned \cup swept => t \in condemned' \cup swept'
        /\ marks \subseteq marks'
        /\ cmd'[t] \in {"wait", "closed", "over"} => cmd[t] \in {"wait", "closed", "over"}
        /\ reader[t] = "over" => reader'[t] = "over"
        /\ reader'[t] \in {"end", "over"} => reader[t] \in {"end", "over"}
        /\ Ended(t) => Ended(t)'
    BY <1>3 DEF ShellExit, Become, Up, bounds, commands, entries, events, handler,
       owner, threads, Ended
  <2>3. QED BY <2>1, <2>2, OutputStays
<1>4. CASE Wedge(s)
  <2>1. KillSent(t)' => KillSent(t)
    BY <1>4 DEF Wedge, Become, Fault, commands, entries, events, handler, owner,
       threads, KillSent
  <2>2. /\ t \in condemned \cup swept => t \in condemned' \cup swept'
        /\ marks \subseteq marks'
        /\ cmd'[t] \in {"wait", "closed", "over"} => cmd[t] \in {"wait", "closed", "over"}
        /\ reader[t] = "over" => reader'[t] = "over"
        /\ reader'[t] \in {"end", "over"} => reader[t] \in {"end", "over"}
        /\ Ended(t) => Ended(t)'
    BY <1>4 DEF Wedge, Become, Fault, commands, entries, events, handler, owner,
       threads, Ended
  <2>3. QED BY <2>1, <2>2, OutputStays
<1>5. CASE HangUp(s)
  <2>1. KillSent(t)' => KillSent(t)
    BY <1>5 DEF HangUp, Become, Fault, commands, entries, events, handler, owner,
       threads, KillSent
  <2>2. /\ t \in condemned \cup swept => t \in condemned' \cup swept'
        /\ marks \subseteq marks'
        /\ cmd'[t] \in {"wait", "closed", "over"} => cmd[t] \in {"wait", "closed", "over"}
        /\ reader[t] = "over" => reader'[t] = "over"
        /\ reader'[t] \in {"end", "over"} => reader[t] \in {"end", "over"}
        /\ Ended(t) => Ended(t)'
    BY <1>5 DEF HangUp, Become, Fault, commands, entries, events, handler, owner,
       threads, Ended
  <2>3. QED BY <2>1, <2>2, OutputStays
<1>6. CASE ReadTorn(s)
  <2>1. CASE t = s
    <3>1. reader[s] = "read" /\ "torn" \in marks' /\ marks \subseteq marks'
          /\ UNCHANGED <<cmds, cmd, condemned, swept>>
      BY <1>6 DEF ReadTorn, Mark, commands, entries
    <3>2. QED BY <2>1, <3>1 DEF OutputFits, KillSent, Unmarked
  <2>2. CASE t # s
    <3>1. /\ marks \subseteq marks' /\ UNCHANGED <<cmds, cmd, condemned, swept>>
          /\ reader'[t] = reader[t] /\ (Ended(t) => Ended(t)')
      BY <1>6, <2>2 DEF ReadTorn, Mark, commands, entries, Ended
    <3>2. QED BY <3>1, OutputStays DEF KillSent
  <2>3. QED BY <2>1, <2>2
<1>7. CASE Read(s)
  <2>1. /\ reader[s] = "read" /\ reader'[s] = "kept"
        /\ \A q \in Sessions \ {s} : reader'[q] = reader[q]
        /\ marks \subseteq marks' /\ UNCHANGED <<shell, wrote, cmds, cmd, condemned,
                                                 swept>>
    BY <1>7 DEF Read, Mark, commands, entries
  <2>2. Ended(t) => Ended(t)' \/ "stolen" \in marks'
    <3>1. CASE Source(s) = s
      <4>1. taken[s] < wrote[s] /\ \A q \in Sessions \ {s} : taken'[q] = taken[q]
        BY <1>7, <3>1 DEF Read
      <4>2. QED BY <2>1, <4>1 DEF Ended
    <3>2. CASE Source(s) # s
      <4>1. "stolen" \in marks' BY <1>7, <3>2 DEF Read, Mark, If
      <4>2. QED BY <4>1
    <3>3. QED BY <3>1, <3>2
  <2>3. KillSent(t)' => KillSent(t) BY <2>1 DEF KillSent
  <2>4. t = s \/ reader'[t] = reader[t] BY <2>1
  <2>5. QED BY <2>1, <2>2, <2>3, <2>4, OutputStays
<1>8. CASE ReadEmit(s)
  <2>1. KillSent(t)' => KillSent(t)
    BY <1>8 DEF ReadEmit, Emit, bounds, commands, entries, handler, owner, terminal,
       KillSent
  <2>2. /\ t \in condemned \cup swept => t \in condemned' \cup swept'
        /\ marks \subseteq marks'
        /\ cmd'[t] \in {"wait", "closed", "over"} => cmd[t] \in {"wait", "closed", "over"}
        /\ reader[t] = "over" => reader'[t] = "over"
        /\ reader'[t] \in {"end", "over"} => reader[t] \in {"end", "over"}
        /\ Ended(t) => Ended(t)'
    BY <1>8 DEF ReadEmit, Emit, bounds, commands, entries, handler, owner, terminal,
       Ended
  <2>3. QED BY <2>1, <2>2, OutputStays
<1>9. CASE ReadEnd(s)
  <2>1. /\ reader[s] = "read" /\ reader'[s] = "end"
        /\ \A q \in Sessions \ {s} : reader'[q] = reader[q]
        /\ UNCHANGED <<shell, taken, wrote, marks, cmds, cmd, condemned, swept>>
    BY <1>9 DEF ReadEnd, terminal, commands, entries
  <2>2. CASE t = s
    <3>1. ASSUME s \notin condemned \cup swept, Unmarked({"raised", "stolen", "torn"})
          PROVE  Ended(s)
      <4>1. Unmarked({"raised"}) BY <3>1 DEF Unmarked
      <4>2. Source(s) = s BY <2>1, <3>1, <4>1, ReaderReads
      <4>3. Nil # s OBVIOUS
      <4>4. QED BY <1>9, <4>2, <4>3 DEF ReadEnd
    <3>2. QED BY <2>1, <2>2, <3>1 DEF OutputFits, Ended, KillSent, Unmarked
  <2>3. CASE t # s
    <3>1. /\ reader'[t] = reader[t] /\ (KillSent(t)' => KillSent(t))
          /\ Ended(t) => Ended(t)'
      BY <2>1, <2>3 DEF KillSent, Ended
    <3>2. QED BY <2>1, <3>1, OutputStays
  <2>4. QED BY <2>2, <2>3
<1>10. CASE ReaderKill(s)
  <2>1. /\ reader[s] = "end" /\ reader'[s] = "over"
        /\ \A q \in Sessions \ {s} : reader'[q] = reader[q]
        /\ UNCHANGED <<shell, taken, wrote, marks, cmd, condemned, swept>>
    BY <1>10 DEF ReaderKill, terminal, entries
  <2>2. CASE t = s BY <2>1, <2>2 DEF OutputFits, Ended, Unmarked
  <2>3. CASE t # s
    <3>1. cmds'[t] = cmds[t] BY <1>10, <2>3, SendFacts DEF ReaderKill
    <3>2. reader'[t] = reader[t] /\ (Ended(t) => Ended(t)') BY <2>1, <2>3 DEF Ended
    <3>3. QED BY <2>1, <3>1, <3>2, OutputStays DEF KillSent
  <2>4. QED BY <2>2, <2>3
<1>11. CASE DoWrite(s)
  <2>1. KillSent(t)' => KillSent(t)
    <3>1. CASE t = s BY <1>11, <3>1, TailFacts DEF DoWrite, NextIs
    <3>2. CASE t # s
      <4>1. cmds'[t] = cmds[t] BY <1>11, <3>2, TailFacts DEF DoWrite, NextIs
      <4>2. QED BY <4>1 DEF KillSent
    <3>3. QED BY <3>1, <3>2
  <2>2. cmd' = cmd \/ "raised" \in marks' BY <1>11 DEF DoWrite, Mark, If
  <2>3. /\ marks \subseteq marks' /\ (Ended(t) => Ended(t)')
        /\ UNCHANGED <<reader, condemned, swept>>
    BY <1>11 DEF DoWrite, Mark, entries, terminal, Ended
  <2>4. QED BY <2>1, <2>2, <2>3, OutputStays
<1>12. CASE DoKill(s)
  <2>1. /\ UNCHANGED <<reader, condemned, swept, marks>>
        /\ Ended(t) => Ended(t)'
    BY <1>12 DEF DoKill, entries, Ended
  <2>2. KillSent(s) BY <1>12, TailFacts DEF DoKill, NextIs
  <2>3. CASE t = s
    <3>1. KillSent(t)' => KillSent(t) BY <2>2, <2>3
    <3>2. QED BY <2>1, <2>2, <2>3, <3>1, OutputStays
  <2>4. CASE t # s
    <3>1. cmds'[t] = cmds[t] BY <1>12, <2>4, TailFacts DEF DoKill, NextIs
    <3>2. cmd'[t] = cmd[t] BY <1>12, <2>4 DEF DoKill
    <3>3. KillSent(t)' => KillSent(t) BY <3>1 DEF KillSent
    <3>4. QED BY <2>1, <3>2, <3>3, OutputStays
  <2>5. QED BY <2>3, <2>4
<1>13. CASE Finish(s)
  <2>1. KillSent(t)' => KillSent(t)
    <3>1. CASE t = s
      <4>1. cmds'[t] = <<>> BY <1>13, <3>1 DEF Finish
      <4>2. QED BY <4>1 DEF KillSent
    <3>2. CASE t # s
      <4>1. cmds'[t] = cmds[t] BY <1>13, <3>2 DEF Finish
      <4>2. QED BY <4>1 DEF KillSent
    <3>3. QED BY <3>1, <3>2
  <2>2. /\ t \in condemned \cup swept => t \in condemned' \cup swept'
        /\ marks \subseteq marks'
        /\ cmd'[t] \in {"wait", "closed", "over"} => cmd[t] \in {"wait", "closed", "over"}
        /\ reader[t] = "over" => reader'[t] = "over"
        /\ reader'[t] \in {"end", "over"} => reader[t] \in {"end", "over"}
        /\ Ended(t) => Ended(t)'
    BY <1>13 DEF Finish, bounds, entries, events, handler, owner, Ended
  <2>3. QED BY <2>1, <2>2, OutputStays
<1>14. CASE ExitEmit(s)
  <2>1. KillSent(t)' => KillSent(t)
    BY <1>14 DEF ExitEmit, Emit, bounds, entries, handler, owner, terminal, KillSent
  <2>2. /\ t \in condemned \cup swept => t \in condemned' \cup swept'
        /\ marks \subseteq marks'
        /\ cmd'[t] \in {"wait", "closed", "over"} => cmd[t] \in {"wait", "closed", "over"}
        /\ reader[t] = "over" => reader'[t] = "over"
        /\ reader'[t] \in {"end", "over"} => reader[t] \in {"end", "over"}
        /\ Ended(t) => Ended(t)'
    BY <1>14 DEF ExitEmit, Emit, bounds, entries, handler, owner, terminal, Ended
  <2>3. QED BY <2>1, <2>2, OutputStays
<1>15. CASE SweepKill(s)
  <2>1. /\ s \in swept /\ (Ended(t) => Ended(t)')
        /\ UNCHANGED <<reader, cmd, condemned, swept, marks>>
    BY <1>15 DEF SweepKill, terminal, Ended
  <2>2. CASE t = s BY <2>1, <2>2 DEF OutputFits
  <2>3. CASE t # s
    <3>1. cmds'[t] = cmds[t] BY <1>15, <2>3, SendFacts DEF SweepKill
    <3>2. QED BY <2>1, <3>1, OutputStays DEF KillSent
  <2>4. QED BY <2>2, <2>3
<1>16. QED
  BY <1>2, <1>3, <1>4, <1>5, <1>6, <1>7, <1>8, <1>9, <1>10, <1>11, <1>12, <1>13, <1>14,
     <1>15 DEF SessionStep, ShellStep, ReaderStep, CommandStep

LEMMA ClientKeepsOutput ==
    ASSUME TerminalTypeOK, ShellsInv, HandsInv, OutputInv, NEW c \in Clients,
       ClientStep(c)
    PROVE  OutputInv'
<1> USE TerminalAssumption DEF TerminalTypeOK, ShellsType, ThreadsType, EntriesType,
     HandlersType
<1> SUFFICES ASSUME NEW t \in Sessions PROVE OutputFits(t)'
  BY DEF OutputInv
<1>1. OutputFits(t) BY DEF OutputInv
<1> USE <1>1
<1>2. CASE SpawnRefused(c) \/ Disconnect(c) \/ Announce(c) \/ Found(c)
           \/ Snapshot(c) \/ Replay(c) \/ Leave(c) \/ Pump(c)
           \/ \E s \in Sessions : Look(c, s)
  <2>1. UNCHANGED <<condemned, swept, marks, cmds, cmd, reader, shell, taken, wrote>>
    BY <1>2 DEF SpawnRefused, Disconnect, Announce, Found, Snapshot, Replay, Leave,
       Pump, Look, Ask, Rebind, Goto, Emit, Remove, Detach, bounds, commands, entries,
       events, handler, owner, terminal, threads
  <2>2. QED BY <2>1 DEF OutputFits, KillSent, Unmarked, Ended
<1>3. ASSUME NEW s \in Sessions, Spawn(c, s) PROVE OutputFits(t)'
  <2>1. /\ Fresh(s) /\ UNCHANGED <<taken, wrote, cmds, condemned, swept, marks>>
        /\ \A q \in Sessions \ {s} :
              shell'[q] = shell[q] /\ reader'[q] = reader[q] /\ cmd'[q] = cmd[q]
        /\ cmd'[s] \in {"off", "idle"} /\ reader'[s] \in {"off", "read"}
    BY <1>3 DEF Spawn, Forked, ShellsInv, ShellFits, Fresh
  <2>2. CASE t = s
    <3>1. ~KillSent(s)' BY <2>1 DEF Fresh, KillSent
    <3>2. QED BY <2>1, <2>2, <3>1 DEF OutputFits
  <2>3. CASE t # s
    <3>1. (KillSent(t)' => KillSent(t)) /\ (Ended(t) => Ended(t)')
      BY <2>1, <2>3 DEF KillSent, Ended
    <3>2. QED BY <2>1, <2>3, <3>1, OutputStays
  <2>4. QED BY <2>2, <2>3
<1>4. ASSUME NEW s \in Sessions, SpawnFails(c, s) PROVE OutputFits(t)'
  <2>1. /\ Fresh(s) /\ UNCHANGED <<taken, wrote, cmds, condemned, swept, marks>>
        /\ \A q \in Sessions \ {s} :
              shell'[q] = shell[q] /\ reader'[q] = reader[q] /\ cmd'[q] = cmd[q]
        /\ cmd'[s] \in {"off", "idle"} /\ reader'[s] \in {"off", "read"}
    BY <1>4 DEF SpawnFails, Forked, ShellsInv, ShellFits, Fresh
  <2>2. CASE t = s
    <3>1. ~KillSent(s)' BY <2>1 DEF Fresh, KillSent
    <3>2. QED BY <2>1, <2>2, <3>1 DEF OutputFits
  <2>3. CASE t # s
    <3>1. (KillSent(t)' => KillSent(t)) /\ (Ended(t) => Ended(t)')
      BY <2>1, <2>3 DEF KillSent, Ended
    <3>2. QED BY <2>1, <2>3, <3>1, OutputStays
  <2>4. QED BY <2>2, <2>3
<1>5. CASE AskWrite(c)
  <2>1. mine[c] \in Sessions BY <1>5 DEF AskWrite
  <2>2. KillSent(t)' => KillSent(t)
    <3>1. CASE t = mine[c] BY <1>5, <3>1, <2>1, SendFacts DEF AskWrite
    <3>2. CASE t # mine[c]
      <4>1. cmds'[t] = cmds[t] BY <1>5, <2>1, <3>2, SendFacts DEF AskWrite
      <4>2. QED BY <4>1 DEF KillSent
    <3>3. QED BY <3>1, <3>2
  <2>3. /\ UNCHANGED <<reader, cmd, condemned, swept, marks>>
        /\ Ended(t) => Ended(t)'
    BY <1>5 DEF AskWrite, terminal, entries, Ended
  <2>4. QED BY <2>2, <2>3, OutputStays
<1>6. CASE AskKill(c)
  <2>1. mine[c] \in Sessions BY <1>6 DEF AskKill
  <2>2. CASE t = mine[c] BY <1>6, <2>2 DEF AskKill, OutputFits
  <2>3. CASE t # mine[c]
    <3>1. cmds'[t] = cmds[t] BY <1>6, <2>1, <2>3, SendFacts DEF AskKill
    <3>2. /\ UNCHANGED <<reader, cmd, swept, marks>> /\ condemned \subseteq condemned'
          /\ Ended(t) => Ended(t)'
      BY <1>6 DEF AskKill, terminal, entries, Ended
    <3>3. QED BY <3>1, <3>2, OutputStays DEF KillSent
  <2>4. QED BY <2>2, <2>3
<1>7. CASE Spawned(c)
  <2>1. /\ marks \subseteq marks'
        /\ UNCHANGED <<shell, taken, wrote, reader, cmds, cmd, condemned, swept>>
    BY <1>7 DEF Spawned, Mark, terminal, threads, commands, entries
  <2>2. (KillSent(t)' => KillSent(t)) /\ (Ended(t) => Ended(t)')
    BY <2>1 DEF KillSent, Ended
  <2>3. QED BY <2>1, <2>2, OutputStays
<1>8. CASE TakeOver(c)
  <2>1. /\ marks \subseteq marks'
        /\ UNCHANGED <<shell, taken, wrote, reader, cmds, cmd, condemned, swept>>
    BY <1>8 DEF TakeOver, Mark, terminal, threads, commands, entries
  <2>2. (KillSent(t)' => KillSent(t)) /\ (Ended(t) => Ended(t)')
    BY <2>1 DEF KillSent, Ended
  <2>3. QED BY <2>1, <2>2, OutputStays
<1>9. CASE Attached(c)
  <2>1. /\ marks \subseteq marks'
        /\ UNCHANGED <<shell, taken, wrote, reader, cmds, cmd, condemned, swept>>
    BY <1>9 DEF Attached, Mark, terminal, threads, commands, entries
  <2>2. (KillSent(t)' => KillSent(t)) /\ (Ended(t) => Ended(t)')
    BY <2>1 DEF KillSent, Ended
  <2>3. QED BY <2>1, <2>2, OutputStays
<1>10. QED
  BY <1>2, <1>3, <1>4, <1>5, <1>6, <1>7, <1>8, <1>9 DEF ClientStep, Request, HandlerStep

-----------------------------------------------------------------------------
(* What is shown.                                                            *)

LEMMA NextChunk ==
    ASSUME ShellsType, NEW t \in Sessions
    PROVE  <<t, taken[t] + 1>> \in Chunks
<1>1. taken[t] \in 0 .. MaxOut BY DEF ShellsType
<1>2. taken[t] + 1 \in Nat BY <1>1, TerminalAssumption
<1>3. QED BY <1>2 DEF Chunks

\* A step that shows nothing new leaves shown what was shown.
LEMMA ShownStays ==
    ASSUME NEW t \in Sessions, NEW d \in Clients, ShownTo(t, d),
           emit'[t] = d => emit[t] = d,
           stage'[d] # "gone" => stage[d] # "gone" /\ Told(d) \subseteq Told(d)',
           hand[d] = t /\ stage[d] = "snapshot"
               => hand'[d] = t /\ stage'[d] = "snapshot",
           Holds(d, t) \subseteq Holds(d, t)',
           ChunksOf(scroll'[t]) \subseteq ChunksOf(scroll[t]) \cup ChunksOf(chunk'[t]),
           ChunksOf(chunk[t]) \subseteq ChunksOf(chunk'[t])
    PROVE  ShownTo(t, d)'
BY DEF ShownTo, ChunksOf

\* A session that runs and that nobody ends is detached or somebody's.
Guarded(s) ==
    Unmarked({"borrowed", "overtaken"}) =>
    (Up(s) /\ cmd[s] # "off" /\ ~Ending(s) => s \in detached \/ Attended(s))

\* Whoever is shown a session that is over has been told so.
ToldOver(s, c) ==
    cmd[s] = "over" /\ Unmarked({"late"}) /\ emit[s] = c /\ stage[c] # "gone" =>
    Has(c, ExitEvent(s))

LEMMA ExitsTold ==
    ASSUME EndsAreTold, NEW s \in Sessions, NEW c \in Clients
    PROVE  ToldOver(s, c)
BY DEF EndsAreTold, ToldOver, Has

LEMMA ToldOverStays ==
    ASSUME NEW s \in Sessions, NEW c \in Clients, ToldOver(s, c),
           cmd'[s] = "over" => cmd[s] = "over", marks \subseteq marks',
           emit'[s] = c => emit[s] = c, stage'[c] # "gone" => stage[c] # "gone",
           \/ wire'[c] = wire[c]
           \/ Has(c, ExitEvent(s)) => Has(c, ExitEvent(s))'
    PROVE  ToldOver(s, c)'
<1>1. Has(c, ExitEvent(s)) => Has(c, ExitEvent(s))'
  <2>1. CASE wire'[c] = wire[c] BY <2>1 DEF Has
  <2>2. QED BY <2>1
<1>2. QED BY <1>1 DEF ToldOver, Unmarked

LEMMA SessionKeepsShown ==
    ASSUME TerminalTypeOK, ShellsInv, HandsInv, ShownInv, NEW s \in Sessions,
       SessionStep(s)
    PROVE  ShownInv'
<1> USE TerminalAssumption DEF TerminalTypeOK, ShellsType, ThreadsType, EntriesType,
     HandlersType, EventsType
<1> SUFFICES ASSUME NEW t \in Sessions, NEW d \in Clients PROVE ShownTo(t, d)'
  BY DEF ShownInv
<1>1. ShownTo(t, d) BY DEF ShownInv
<1> USE <1>1
<1>2. CASE Output(s) \/ ShellExit(s) \/ Wedge(s) \/ HangUp(s) \/ ReadTorn(s)
           \/ ReadEnd(s) \/ ReaderKill(s) \/ DoWrite(s) \/ DoKill(s) \/ Finish(s)
           \/ SweepKill(s)
  <2>1. UNCHANGED <<emit, stage, hand, scroll, wire, chunk, held>>
    BY <1>2 DEF Output, ShellExit, Wedge, HangUp, ReadTorn, ReadEnd, ReaderKill,
       DoWrite, DoKill, Finish, SweepKill, Become, Fault, Mark, Send, If, bounds,
       commands, entries, events, handler, owner, terminal, threads
  <2>2. Told(d) \subseteq Told(d)' BY <2>1 DEF Told
  <2>3. Holds(d, t) \subseteq Holds(d, t)' BY <2>1 DEF Holds
  <2>4. QED BY <2>1, <2>2, <2>3, ShownStays
<1>3. CASE Read(s)
  <2>1. UNCHANGED <<emit, stage, hand, held, wire>>
    BY <1>3 DEF Read, owner, handler, events
  <2>2. Told(d) \subseteq Told(d)' /\ Holds(d, t) \subseteq Holds(d, t)'
    BY <2>1 DEF Told, Holds
  <2>3. CASE t = s
    <3>1. chunk[s] = <<>> BY <1>3 DEF Read, ShellsInv, ShellFits
    <3> DEFINE new == <<Source(s), taken[Source(s)] + 1>>
    <3>2. Source(s) \in Sessions BY <1>3, Unread DEF Read
    <3>3. new \in Chunks BY <3>2, NextChunk
    <3>4. /\ new \in Chunks /\ chunk'[s] = <<new>>
          /\ scroll'[s] = Trimmed(Append(scroll[s], new))
      BY <1>3, <3>3 DEF Read
    <3> HIDE DEF new
    <3>5. scroll[s] \in Seq(Chunks) OBVIOUS
    <3>6. /\ Append(scroll[s], new) \in Seq(Chunks)
          /\ ChunksOf(Append(scroll[s], new)) = ChunksOf(scroll[s]) \cup {new}
          /\ ChunksOf(<<new>>) = {new}
      BY <3>4, <3>5, AppendedChunks
    <3>7. ChunksOf(scroll'[s]) \subseteq ChunksOf(scroll[s]) \cup {new}
      BY <3>4, <3>6, TrimmedKeeps
    <3>8. ChunksOf(chunk[s]) = {} BY <3>1 DEF ChunksOf
    <3>9. ChunksOf(scroll'[t]) \subseteq ChunksOf(scroll[t]) \cup ChunksOf(chunk'[t])
      BY <2>3, <3>4, <3>6, <3>7
    <3>10. ChunksOf(chunk[t]) \subseteq ChunksOf(chunk'[t]) BY <2>3, <3>8
    <3>11. QED BY <2>1, <2>2, <3>9, <3>10, ShownStays
  <2>4. CASE t # s
    <3>1. chunk'[t] = chunk[t] /\ scroll'[t] = scroll[t]
      BY <1>3, <2>4 DEF Read
    <3>2. QED BY <2>1, <2>2, <3>1, ShownStays
  <2>5. QED BY <2>3, <2>4
<1>4. CASE ReadEmit(s)
  <2>1. PICK e : e = DataEvent(s, chunk[s]) OBVIOUS
  <2>2. /\ e \in Event /\ Adds(e) /\ e.data = chunk[s]
        /\ emit[s] = d /\ stage[d] # "gone" => Has(d, e)'
    BY <1>4, <2>1, ReadEmits DEF DataEvent
  <2>3. Told(d) \subseteq Told(d)' /\ (Has(d, e)' => ChunksOf(chunk[s]) \subseteq Told(d)')
    BY <2>2, TellsMore
  <2>4. UNCHANGED <<emit, stage, hand, held, scroll>>
    BY <1>4 DEF ReadEmit, owner, handler
  <2>5. Holds(d, t) \subseteq Holds(d, t)' BY <2>4 DEF Holds
  <2>6. CASE t = s BY <2>2, <2>3, <2>4, <2>5, <2>6 DEF ShownTo
  <2>7. CASE t # s
    <3>1. chunk'[t] = chunk[t] BY <1>4, <2>7 DEF ReadEmit
    <3>2. QED BY <2>3, <2>4, <2>5, <3>1, ShownStays
  <2>8. QED BY <2>6, <2>7
<1>5. CASE ExitEmit(s)
  <2>1. PICK e : e = ExitEvent(s) OBVIOUS
  <2>2. e \in Event /\ Adds(e) BY <1>5, <2>1, ExitEmits
  <2>3. Told(d) \subseteq Told(d)' BY <2>2, TellsMore
  <2>4. UNCHANGED <<emit, stage, hand, held, scroll, chunk>>
    BY <1>5 DEF ExitEmit, owner, handler
  <2>5. Holds(d, t) \subseteq Holds(d, t)' BY <2>4 DEF Holds
  <2>6. QED BY <2>3, <2>4, <2>5, ShownStays
<1>6. QED
  BY <1>2, <1>3, <1>4, <1>5 DEF SessionStep, ShellStep, ReaderStep, CommandStep

LEMMA ClientKeepsShown ==
    ASSUME TerminalTypeOK, ShellsInv, HandsInv, ShownInv, NEW c \in Clients,
       ClientStep(c)
    PROVE  ShownInv'
<1> USE TerminalAssumption DEF TerminalTypeOK, ShellsType, ThreadsType, EntriesType,
     HandlersType, EventsType
<1> SUFFICES ASSUME NEW t \in Sessions, NEW d \in Clients PROVE ShownTo(t, d)'
  BY DEF ShownInv
<1>1. ShownTo(t, d) BY DEF ShownInv
<1> USE <1>1
<1>2. CASE SpawnRefused(c) \/ AskWrite(c) \/ AskKill(c) \/ Disconnect(c)
           \/ Pump(c)
  <2>1. UNCHANGED <<emit, stage, hand, scroll, wire, chunk, held>>
    BY <1>2 DEF SpawnRefused, AskWrite, AskKill, Disconnect, Pump, Ask, Rebind, Send,
       Remove, bounds, commands, entries, events, handler, owner, terminal, threads
  <2>2. Told(d) \subseteq Told(d)' BY <2>1 DEF Told
  <2>3. Holds(d, t) \subseteq Holds(d, t)' BY <2>1 DEF Holds
  <2>4. QED BY <2>1, <2>2, <2>3, ShownStays
<1>3. ASSUME NEW s \in Sessions, Spawn(c, s) PROVE ShownTo(t, d)'
  <2>1. /\ Fresh(s) /\ UNCHANGED <<scroll, chunk, held, wire>>
        /\ \A q \in Sessions \ {s} : emit'[q] = emit[q]
        /\ hand[c] = Nil /\ stage[c] = "ready"
        /\ \/ stage'[c] = "announce" /\ hand'[c] = s
           \/ stage'[c] = stage[c] /\ hand'[c] = hand[c]
        /\ \A e \in Clients \ {c} : stage'[e] = stage[e] /\ hand'[e] = hand[e]
    BY <1>3 DEF Spawn, Forked, Listening, Goto, ShellsInv, ShellFits, HandsInv,
       HandFits, events
  <2>2. Told(d) \subseteq Told(d)' BY <2>1 DEF Told
  <2>3. CASE t = s
    <3>1. ChunksOf(scroll'[t]) = {} BY <2>1, <2>3 DEF Fresh, ChunksOf
    <3>2. QED BY <3>1 DEF ShownTo
  <2>4. CASE t # s
    <3>1. Holds(d, t) \subseteq Holds(d, t)' BY <2>1, <2>4 DEF Holds
    <3>2. /\ stage'[d] # "gone" => stage[d] # "gone"
          /\ hand[d] = t /\ stage[d] = "snapshot" => hand'[d] = t /\ stage'[d] = "snapshot"
      BY <2>1
    <3>3. QED BY <2>1, <2>2, <2>4, <3>1, <3>2, ShownStays
  <2>5. QED BY <2>3, <2>4
<1>4. ASSUME NEW s \in Sessions, SpawnFails(c, s) PROVE ShownTo(t, d)'
  <2>1. /\ Fresh(s) /\ UNCHANGED <<scroll, chunk, held, wire>>
        /\ \A q \in Sessions \ {s} : emit'[q] = emit[q]
        /\ hand[c] = Nil /\ stage[c] = "ready"
        /\ \/ stage'[c] = "announce" /\ hand'[c] = s
           \/ stage'[c] = stage[c] /\ hand'[c] = hand[c]
        /\ \A e \in Clients \ {c} : stage'[e] = stage[e] /\ hand'[e] = hand[e]
    BY <1>4 DEF SpawnFails, Forked, Listening, Goto, ShellsInv, ShellFits, HandsInv,
       HandFits, events
  <2>2. Told(d) \subseteq Told(d)' BY <2>1 DEF Told
  <2>3. CASE t = s
    <3>1. ChunksOf(scroll'[t]) = {} BY <2>1, <2>3 DEF Fresh, ChunksOf
    <3>2. QED BY <3>1 DEF ShownTo
  <2>4. CASE t # s
    <3>1. Holds(d, t) \subseteq Holds(d, t)' BY <2>1, <2>4 DEF Holds
    <3>2. /\ stage'[d] # "gone" => stage[d] # "gone"
          /\ hand[d] = t /\ stage[d] = "snapshot" => hand'[d] = t /\ stage'[d] = "snapshot"
      BY <2>1
    <3>3. QED BY <2>1, <2>2, <2>4, <3>1, <3>2, ShownStays
  <2>5. QED BY <2>3, <2>4
<1>5. ASSUME NEW s \in Sessions, Look(c, s) PROVE ShownTo(t, d)'
  <2>1. /\ stage[c] = "ready" /\ stage'[c] = "found"
        /\ \A e \in Clients \ {c} : stage'[e] = stage[e] /\ hand'[e] = hand[e]
        /\ UNCHANGED <<emit, scroll, chunk, held, wire>>
    BY <1>5 DEF Look, Goto, Rebind, Listening, owner, threads, events
  <2>2. Told(d) \subseteq Told(d)' BY <2>1 DEF Told
  <2>3. Holds(d, t) \subseteq Holds(d, t)' BY <2>1 DEF Holds
  <2>4. /\ stage'[d] # "gone" => stage[d] # "gone"
        /\ hand[d] = t /\ stage[d] = "snapshot" => hand'[d] = t /\ stage'[d] = "snapshot"
    BY <2>1
  <2>5. QED BY <2>1, <2>2, <2>3, <2>4, ShownStays
<1>6. CASE Announce(c)
  <2>1. /\ stage[c] = "announce" /\ stage'[c] = "spawned"
        /\ \A e \in Clients \ {c} : stage'[e] = stage[e] /\ hand'[e] = hand[e]
        /\ UNCHANGED <<emit, scroll, chunk, held>>
    BY <1>6 DEF Announce, Goto, Rebind, Listening, owner, threads, events
  <2>2. Told(d) \subseteq Told(d)'
    <3>1. PICK e : e = StatusEvent(hand[c]) OBVIOUS
    <3>2. e \in Event /\ Adds(e) BY <1>6, <3>1, Announces
    <3>3. QED BY <3>2, TellsMore
  <2>3. Holds(d, t) \subseteq Holds(d, t)' BY <2>1 DEF Holds
  <2>4. /\ stage'[d] # "gone" => stage[d] # "gone"
        /\ hand[d] = t /\ stage[d] = "snapshot" => hand'[d] = t /\ stage'[d] = "snapshot"
    BY <2>1
  <2>5. QED BY <2>1, <2>2, <2>3, <2>4, ShownStays
<1>7. CASE Spawned(c)
  <2>1. /\ stage[c] = "spawned" /\ stage'[c] = "ready"
        /\ \A e \in Clients \ {c} : stage'[e] = stage[e] /\ hand'[e] = hand[e]
        /\ UNCHANGED <<emit, scroll, chunk, held, wire>>
    BY <1>7 DEF Spawned, Goto, Rebind, Listening, owner, threads, events
  <2>2. Told(d) \subseteq Told(d)' BY <2>1 DEF Told
  <2>3. Holds(d, t) \subseteq Holds(d, t)' BY <2>1 DEF Holds
  <2>4. /\ stage'[d] # "gone" => stage[d] # "gone"
        /\ hand[d] = t /\ stage[d] = "snapshot" => hand'[d] = t /\ stage'[d] = "snapshot"
    BY <2>1
  <2>5. QED BY <2>1, <2>2, <2>3, <2>4, ShownStays
<1>8. CASE Found(c)
  <2>1. /\ stage[c] = "found" /\ stage'[c] \in {"ready", "attach"}
        /\ \A e \in Clients \ {c} : stage'[e] = stage[e] /\ hand'[e] = hand[e]
        /\ UNCHANGED <<emit, scroll, chunk, held, wire>>
    BY <1>8 DEF Found, Goto, Rebind, Listening, owner, threads, events
  <2>2. Told(d) \subseteq Told(d)' BY <2>1 DEF Told
  <2>3. Holds(d, t) \subseteq Holds(d, t)' BY <2>1 DEF Holds
  <2>4. /\ stage'[d] # "gone" => stage[d] # "gone"
        /\ hand[d] = t /\ stage[d] = "snapshot" => hand'[d] = t /\ stage'[d] = "snapshot"
    BY <2>1
  <2>5. QED BY <2>1, <2>2, <2>3, <2>4, ShownStays
<1>9. CASE TakeOver(c)
  <2>1. hand[c] \in Sessions BY <1>9, Handed DEF TakeOver
  <2>2. /\ stage[c] = "attach" /\ stage'[c] = "snapshot" /\ hand[c] \in Sessions
        /\ \A e \in Clients \ {c} : stage'[e] = stage[e]
        /\ emit'[hand[c]] = c /\ \A q \in Sessions \ {hand[c]} : emit'[q] = emit[q]
        /\ UNCHANGED <<hand, scroll, chunk, held, wire>>
    BY <1>9, <2>1 DEF TakeOver, Goto, threads, events
  <2>3. Told(d) \subseteq Told(d)' BY <2>2 DEF Told
  <2>4. CASE t = hand[c] BY <2>2, <2>3, <2>4 DEF ShownTo, Holds
  <2>5. CASE t # hand[c]
    <3>1. Holds(d, t) \subseteq Holds(d, t)' BY <2>2 DEF Holds
    <3>2. /\ stage'[d] # "gone" => stage[d] # "gone"
          /\ hand[d] = t /\ stage[d] = "snapshot" => hand'[d] = t /\ stage'[d] = "snapshot"
      BY <2>2, <2>5
    <3>3. QED BY <2>2, <2>3, <2>5, <3>1, <3>2, ShownStays
  <2>6. QED BY <2>4, <2>5
<1>10. CASE Snapshot(c)
  <2>1. hand[c] \in Sessions BY <1>10, Handed DEF Snapshot
  <2>2. /\ stage[c] = "snapshot" /\ hand[c] \in Sessions
        /\ \A e \in Clients \ {c} : stage'[e] = stage[e] /\ held'[e] = held[e]
        /\ held'[c] = scroll[hand[c]]
        /\ \/ stage'[c] = "attached" /\ scroll[hand[c]] = <<>>
           \/ stage'[c] = "replay"
        /\ UNCHANGED <<emit, hand, scroll, chunk, wire>>
    BY <1>10, <2>1 DEF Snapshot, Goto, threads, events, owner
  <2>3. Told(d) \subseteq Told(d)' BY <2>2 DEF Told
  <2>4. CASE t = hand[c] /\ d = c
    <3>1. CASE scroll[hand[c]] = <<>>
      <4>1. ChunksOf(scroll'[t]) = {} BY <2>2, <2>4, <3>1 DEF ChunksOf
      <4>2. QED BY <4>1 DEF ShownTo
    <3>2. CASE stage'[c] = "replay"
      <4>1. Holds(d, t)' = ChunksOf(scroll'[t]) BY <2>2, <2>4, <3>2 DEF Holds
      <4>2. QED BY <4>1 DEF ShownTo
    <3>3. QED BY <2>2, <3>1, <3>2
  <2>5. CASE ~(t = hand[c] /\ d = c)
    <3>1. Holds(d, t) \subseteq Holds(d, t)' BY <2>2, <2>5 DEF Holds
    <3>2. /\ stage'[d] # "gone" => stage[d] # "gone"
          /\ hand[d] = t /\ stage[d] = "snapshot" => hand'[d] = t /\ stage'[d] = "snapshot"
      BY <2>2, <2>5
    <3>3. QED BY <2>2, <2>3, <3>1, <3>2, ShownStays
  <2>6. QED BY <2>4, <2>5
<1>11. CASE Replay(c)
  <2>1. hand[c] \in Sessions BY <1>11, Handed DEF Replay
  <2>2. /\ stage[c] = "replay" /\ stage'[c] = "attached" /\ hand[c] \in Sessions
        /\ \A e \in Clients \ {c} : stage'[e] = stage[e] /\ held'[e] = held[e]
        /\ UNCHANGED <<emit, hand, scroll, chunk>>
    BY <1>11, <2>1 DEF Replay, Goto, threads, owner
  <2>3. PICK e : e = DataEvent(hand[c], held[c]) OBVIOUS
  <2>4. /\ e \in Event /\ Adds(e) /\ e.data = held[c]
        /\ emit[hand[c]] = c /\ stage[c] # "gone" => Has(c, e)'
    BY <1>11, <2>3, Replays DEF DataEvent
  <2>5. Told(d) \subseteq Told(d)' BY <2>4, TellsMore
  <2>6. Has(c, e)' => ChunksOf(held[c]) \subseteq Told(c)' BY <2>4, TellsMore
  <2>7. CASE t = hand[c] /\ d = c BY <2>2, <2>4, <2>5, <2>6, <2>7 DEF ShownTo, Holds
  <2>8. CASE ~(t = hand[c] /\ d = c)
    <3>1. Holds(d, t) \subseteq Holds(d, t)' BY <2>2, <2>8 DEF Holds
    <3>2. /\ stage'[d] # "gone" => stage[d] # "gone"
          /\ hand[d] = t /\ stage[d] = "snapshot" => hand'[d] = t /\ stage'[d] = "snapshot"
      BY <2>2, <2>8
    <3>3. QED BY <2>2, <2>5, <3>1, <3>2, ShownStays
  <2>9. QED BY <2>7, <2>8
<1>12. CASE Attached(c)
  <2>1. /\ stage[c] = "attached" /\ stage'[c] = "ready"
        /\ \A e \in Clients \ {c} : stage'[e] = stage[e] /\ hand'[e] = hand[e]
        /\ UNCHANGED <<emit, scroll, chunk, held>>
    BY <1>12 DEF Attached, Goto, Rebind, Listening, owner, threads, events
  <2>2. Told(d) \subseteq Told(d)'
    <3>1. PICK e : e = StatusEvent(hand[c]) OBVIOUS
    <3>2. e \in Event /\ Adds(e) BY <1>12, <3>1, Attaches
    <3>3. QED BY <3>2, TellsMore
  <2>3. Holds(d, t) \subseteq Holds(d, t)' BY <2>1 DEF Holds
  <2>4. /\ stage'[d] # "gone" => stage[d] # "gone"
        /\ hand[d] = t /\ stage[d] = "snapshot" => hand'[d] = t /\ stage'[d] = "snapshot"
    BY <2>1
  <2>5. QED BY <2>1, <2>2, <2>3, <2>4, ShownStays
<1>13. CASE Leave(c)
  <2>1. /\ emit'[t] \in {emit[t], Nil} /\ Nil # d
        /\ UNCHANGED <<hand, scroll, chunk, held>>
    BY <1>13 DEF Leave, Detach, threads
  <2>2. CASE d = c
    <3>1. stage'[d] = "gone" BY <1>13, <2>2 DEF Leave, Goto
    <3>2. QED BY <3>1 DEF ShownTo
  <2>3. CASE d # c
    <3>1. stage'[d] = stage[d] /\ wire'[d] = wire[d]
      BY <1>13, <2>3 DEF Leave, Goto
    <3>2. Told(d) \subseteq Told(d)' /\ Holds(d, t) \subseteq Holds(d, t)'
      BY <2>1, <3>1 DEF Told, Holds
    <3>3. QED BY <2>1, <3>1, <3>2, ShownStays
  <2>4. QED BY <2>2, <2>3
<1>14. QED
  BY <1>2, <1>3, <1>4, <1>5, <1>6, <1>7, <1>8, <1>9, <1>10, <1>11, <1>12, <1>13 DEF
     ClientStep, Request, HandlerStep

-----------------------------------------------------------------------------
(* What is told of an end.                                                   *)

LEMMA SessionKeepsToldOver ==
    ASSUME TerminalTypeOK, ShellsInv, HandsInv, EndsAreTold, NEW s \in Sessions,
       SessionStep(s)
    PROVE  \A t \in Sessions, d \in Clients : ToldOver(t, d)'
<1> USE TerminalAssumption DEF TerminalTypeOK, ShellsType, ThreadsType, EntriesType,
     HandlersType, EventsType
<1> SUFFICES ASSUME NEW t \in Sessions, NEW d \in Clients PROVE ToldOver(t, d)'
  OBVIOUS
<1>1. ToldOver(t, d) BY ExitsTold
<1> USE <1>1
<1>2. CASE Output(s) \/ ShellExit(s) \/ Wedge(s) \/ HangUp(s) \/ ReadEnd(s)
           \/ ReaderKill(s) \/ SweepKill(s)
  <2>1. UNCHANGED <<cmd, marks, emit, stage, wire>>
    BY <1>2 DEF Output, ShellExit, Wedge, HangUp, ReadEnd, ReaderKill, SweepKill,
       Become, Fault, Send, bounds, commands, entries, events, handler, owner, terminal,
       threads
  <2>2. QED BY <2>1, ToldOverStays
<1>3. CASE ReadTorn(s)
  <2>1. marks \subseteq marks' /\ UNCHANGED <<cmd, emit, stage, wire>>
    BY <1>3 DEF ReadTorn, Fault, Mark, Source, commands, entries, events, handler, owner
  <2>2. QED BY <2>1, ToldOverStays
<1>4. CASE Read(s)
  <2>1. marks \subseteq marks' /\ UNCHANGED <<cmd, emit, stage, wire>>
    BY <1>4 DEF Read, Mark, If, Source, bounds, commands, entries, events, handler,
       owner
  <2>2. QED BY <2>1, ToldOverStays
<1>5. CASE ReadEmit(s)
  <2>1. PICK e : e = DataEvent(s, chunk[s]) OBVIOUS
  <2>2. e \in Event /\ Adds(e) BY <1>5, <2>1, ReadEmits
  <2>3. Has(d, ExitEvent(t)) => Has(d, ExitEvent(t))' BY <2>2, TellsMore
  <2>4. UNCHANGED <<cmd, emit, stage, marks>>
    BY <1>5 DEF ReadEmit, commands, owner, handler
  <2>5. QED BY <2>3, <2>4, ToldOverStays
<1>6. CASE DoWrite(s)
  <2>1. cmd'[t] = "over" => cmd[t] = "over" BY <1>6 DEF DoWrite
  <2>2. marks \subseteq marks' /\ UNCHANGED <<emit, stage, wire>>
    BY <1>6 DEF DoWrite, Mark, If, NextIs, bounds, entries, events, handler, owner,
       terminal
  <2>3. QED BY <2>1, <2>2, ToldOverStays
<1>7. CASE DoKill(s)
  <2>1. cmd'[t] = "over" => cmd[t] = "over" BY <1>7 DEF DoKill
  <2>2. marks \subseteq marks' /\ UNCHANGED <<emit, stage, wire>>
    BY <1>7 DEF DoKill, NextIs, bounds, entries, events, handler, owner
  <2>3. QED BY <2>1, <2>2, ToldOverStays
<1>8. CASE Finish(s)
  <2>1. cmd'[t] = "over" => cmd[t] = "over" BY <1>8 DEF Finish
  <2>2. marks \subseteq marks' /\ UNCHANGED <<emit, stage, wire>>
    BY <1>8 DEF Finish, bounds, entries, events, handler, owner
  <2>3. QED BY <2>1, <2>2, ToldOverStays
<1>9. CASE ExitEmit(s)
  <2>1. PICK e : e = ExitEvent(s) OBVIOUS
  <2>2. e \in Event /\ Adds(e) /\ (emit[s] = d /\ stage[d] # "gone" => Has(d, e)')
    BY <1>9, <2>1, ExitEmits
  <2>3. Has(d, ExitEvent(t)) => Has(d, ExitEvent(t))' BY <2>2, TellsMore
  <2>4. UNCHANGED <<emit, stage, marks>> BY <1>9 DEF ExitEmit, owner, handler
  <2>5. CASE t = s BY <2>1, <2>2, <2>4, <2>5 DEF ToldOver
  <2>6. CASE t # s
    <3>1. cmd'[t] = cmd[t] BY <1>9, <2>6 DEF ExitEmit
    <3>2. QED BY <2>3, <2>4, <3>1, ToldOverStays
  <2>7. QED BY <2>5, <2>6
<1>10. QED
  BY <1>2, <1>3, <1>4, <1>5, <1>6, <1>7, <1>8, <1>9 DEF SessionStep, ShellStep,
     ReaderStep, CommandStep

LEMMA ClientKeepsToldOver ==
    ASSUME TerminalTypeOK, ShellsInv, HandsInv, EndsAreTold, NEW c \in Clients,
       ClientStep(c)
    PROVE  \A t \in Sessions, d \in Clients : ToldOver(t, d)'
<1> USE TerminalAssumption DEF TerminalTypeOK, ShellsType, ThreadsType, EntriesType,
     HandlersType, EventsType
<1> SUFFICES ASSUME NEW t \in Sessions, NEW d \in Clients PROVE ToldOver(t, d)'
  OBVIOUS
<1>1. ToldOver(t, d) BY ExitsTold
<1> USE <1>1
<1>2. CASE SpawnRefused(c) \/ AskWrite(c) \/ AskKill(c) \/ Disconnect(c)
           \/ Pump(c)
  <2>1. UNCHANGED <<cmd, marks, emit, stage, wire>>
    BY <1>2 DEF SpawnRefused, AskWrite, AskKill, Disconnect, Pump, Ask, Rebind, Send,
       Remove, bounds, commands, entries, events, handler, owner, terminal, threads
  <2>2. QED BY <2>1, ToldOverStays
<1>3. ASSUME NEW s \in Sessions, Spawn(c, s) PROVE ToldOver(t, d)'
  <2>1. /\ cmd[s] = "off" /\ cmd'[s] \in {"off", "idle"}
        /\ stage[c] = "ready"
        /\ \A q \in Sessions \ {s} : cmd'[q] = cmd[q] /\ emit'[q] = emit[q]
        /\ \A e \in Clients \ {c} : stage'[e] = stage[e]
        /\ UNCHANGED <<marks, wire>>
    BY <1>3 DEF Spawn, Forked, Listening, Goto, ShellsInv, ShellFits, Fresh, events
  <2>2. CASE t = s BY <2>1, <2>2 DEF ToldOver
  <2>3. CASE t # s
    <3>1. cmd'[t] = cmd[t] /\ emit'[t] = emit[t] /\ (stage'[d] # "gone" => stage[d] # "gone")
      BY <2>1, <2>3
    <3>2. QED BY <2>1, <3>1, ToldOverStays
  <2>4. QED BY <2>2, <2>3
<1>4. ASSUME NEW s \in Sessions, SpawnFails(c, s) PROVE ToldOver(t, d)'
  <2>1. /\ cmd[s] = "off" /\ cmd'[s] \in {"off", "idle"}
        /\ stage[c] = "ready"
        /\ \A q \in Sessions \ {s} : cmd'[q] = cmd[q] /\ emit'[q] = emit[q]
        /\ \A e \in Clients \ {c} : stage'[e] = stage[e]
        /\ UNCHANGED <<marks, wire>>
    BY <1>4 DEF SpawnFails, Forked, Listening, Goto, ShellsInv, ShellFits, Fresh, events
  <2>2. CASE t = s BY <2>1, <2>2 DEF ToldOver
  <2>3. CASE t # s
    <3>1. cmd'[t] = cmd[t] /\ emit'[t] = emit[t] /\ (stage'[d] # "gone" => stage[d] # "gone")
      BY <2>1, <2>3
    <3>2. QED BY <2>1, <3>1, ToldOverStays
  <2>4. QED BY <2>2, <2>3
<1>5. ASSUME NEW s \in Sessions, Look(c, s) PROVE ToldOver(t, d)'
  <2>1. /\ stage'[d] # "gone" => stage[d] # "gone"
        /\ marks \subseteq marks' /\ UNCHANGED <<cmd, emit, wire>>
    BY <1>5 DEF Look, Goto, Listening, Mark, owner, threads, commands, events
  <2>2. Has(d, ExitEvent(t)) => Has(d, ExitEvent(t))' BY <2>1 DEF Has
  <2>3. QED BY <2>1, <2>2, ToldOverStays
<1>6. CASE Announce(c)
  <2>1. PICK e : e = StatusEvent(hand[c]) OBVIOUS
  <2>2. e \in Event /\ Adds(e) BY <1>6, <2>1, Announces
  <2>3. Has(d, ExitEvent(t)) => Has(d, ExitEvent(t))' BY <2>2, TellsMore
  <2>4. /\ stage'[d] # "gone" => stage[d] # "gone"
        /\ marks \subseteq marks' /\ UNCHANGED <<cmd, emit>>
    BY <1>6 DEF Announce, Goto, Mark, owner, threads, commands
  <2>5. QED BY <2>3, <2>4, ToldOverStays
<1>7. CASE Spawned(c)
  <2>1. /\ stage'[d] # "gone" => stage[d] # "gone"
        /\ marks \subseteq marks' /\ UNCHANGED <<cmd, emit, wire>>
    BY <1>7 DEF Spawned, Goto, Listening, Mark, owner, threads, commands, events
  <2>2. Has(d, ExitEvent(t)) => Has(d, ExitEvent(t))' BY <2>1 DEF Has
  <2>3. QED BY <2>1, <2>2, ToldOverStays
<1>8. CASE Found(c)
  <2>1. /\ stage'[d] # "gone" => stage[d] # "gone"
        /\ marks \subseteq marks' /\ UNCHANGED <<cmd, emit, wire>>
    BY <1>8 DEF Found, Goto, Listening, Mark, owner, threads, commands, events
  <2>2. Has(d, ExitEvent(t)) => Has(d, ExitEvent(t))' BY <2>1 DEF Has
  <2>3. QED BY <2>1, <2>2, ToldOverStays
<1>9. CASE TakeOver(c)
  <2>1. /\ stage'[d] # "gone" => stage[d] # "gone"
        /\ marks \subseteq marks' /\ UNCHANGED <<cmd, wire>>
    BY <1>9 DEF TakeOver, Goto, Mark, threads, commands, events
  <2>2. CASE t = hand[c]
    <3>1. cmd[t] = "over" => "late" \in marks' BY <1>9, <2>2 DEF TakeOver, Mark, If
    <3>2. QED BY <2>1, <3>1 DEF ToldOver, Unmarked
  <2>3. CASE t # hand[c]
    <3>1. emit'[t] = emit[t] BY <1>9, <2>3 DEF TakeOver
    <3>2. QED BY <2>1, <3>1, ToldOverStays
  <2>4. QED BY <2>2, <2>3
<1>10. CASE Snapshot(c)
  <2>1. /\ stage'[d] # "gone" => stage[d] # "gone"
        /\ marks \subseteq marks' /\ UNCHANGED <<cmd, emit, wire>>
    BY <1>10 DEF Snapshot, Goto, Listening, Mark, owner, threads, commands, events
  <2>2. Has(d, ExitEvent(t)) => Has(d, ExitEvent(t))' BY <2>1 DEF Has
  <2>3. QED BY <2>1, <2>2, ToldOverStays
<1>11. CASE Replay(c)
  <2>1. PICK e : e = DataEvent(hand[c], held[c]) OBVIOUS
  <2>2. e \in Event /\ Adds(e) BY <1>11, <2>1, Replays
  <2>3. Has(d, ExitEvent(t)) => Has(d, ExitEvent(t))' BY <2>2, TellsMore
  <2>4. /\ stage'[d] # "gone" => stage[d] # "gone"
        /\ marks \subseteq marks' /\ UNCHANGED <<cmd, emit>>
    BY <1>11 DEF Replay, Goto, Mark, owner, threads, commands
  <2>5. QED BY <2>3, <2>4, ToldOverStays
<1>12. CASE Attached(c)
  <2>1. PICK e : e = StatusEvent(hand[c]) OBVIOUS
  <2>2. e \in Event /\ Adds(e) BY <1>12, <2>1, Attaches
  <2>3. Has(d, ExitEvent(t)) => Has(d, ExitEvent(t))' BY <2>2, TellsMore
  <2>4. /\ stage'[d] # "gone" => stage[d] # "gone"
        /\ marks \subseteq marks' /\ UNCHANGED <<cmd, emit>>
    BY <1>12 DEF Attached, Goto, Mark, owner, threads, commands
  <2>5. QED BY <2>3, <2>4, ToldOverStays
<1>13. CASE Leave(c)
  <2>1. emit'[t] \in {emit[t], Nil} /\ Nil # d /\ UNCHANGED <<cmd, marks>>
    BY <1>13 DEF Leave, Detach, threads, commands
  <2>2. CASE d = c
    <3>1. stage'[d] = "gone" BY <1>13, <2>2 DEF Leave, Goto
    <3>2. QED BY <3>1 DEF ToldOver
  <2>3. CASE d # c
    <3>1. stage'[d] = stage[d] /\ wire'[d] = wire[d]
      BY <1>13, <2>3 DEF Leave, Goto
    <3>2. QED BY <2>1, <3>1, ToldOverStays
  <2>4. QED BY <2>2, <2>3
<1>14. QED
  BY <1>2, <1>3, <1>4, <1>5, <1>6, <1>7, <1>8, <1>9, <1>10, <1>11, <1>12, <1>13 DEF
     ClientStep, Request, HandlerStep

-----------------------------------------------------------------------------
(* Who minds a session.                                                      *)

\* A step that ends no claim on a session that goes on leaves it kept.
LEMMA GuardedStays ==
    ASSUME NEW t \in Sessions, Guarded(t), Ending(t) => Ending(t)',
           marks \subseteq marks', Up(t)' => Up(t),
           cmd'[t] # "off" => cmd[t] # "off",
           Unmarked({"borrowed", "overtaken"})' /\ Up(t) /\ ~Ending(t)
               /\ (t \in detached \/ Attended(t)) => t \in detached' \/ Attended(t)'
    PROVE  Guarded(t)'
BY DEF Guarded, Unmarked

LEMMA SessionsGuarded ==
    ASSUME NoneIsStranded, NEW s \in Sessions
    PROVE  Guarded(s)
BY DEF NoneIsStranded, Guarded

LEMMA LetGo ==
    ASSUME ShellsInv, NEW c \in Clients, NEW s \in Sessions, Unbound(c), mine[c] = s,
           s # Nil
    PROVE  Ending(s)
BY FinishedEnding DEF Unbound

LEMMA SessionKeepsGuarded ==
    ASSUME TerminalTypeOK, ShellsInv, HandsInv, TokensInv, EndingInv, NoneIsStranded,
       NEW s \in Sessions, SessionStep(s)
    PROVE  \A t \in Sessions : Guarded(t)'
<1> USE TerminalAssumption DEF TerminalTypeOK, ShellsType, ThreadsType, EntriesType,
     HandlersType
<1> SUFFICES ASSUME NEW t \in Sessions PROVE Guarded(t)'
  OBVIOUS
<1>1. Guarded(t) /\ (Ending(t) => Ending(t)')
  BY SessionsGuarded, SessionKeepsEnded
<1> USE <1>1
<1>2. CASE Output(s)
  <2>1. UNCHANGED <<marks, shell, cmd, doomed, reader, cmds, detached, hand, mine,
                    emit>>
    BY <1>2 DEF Output, bounds, commands, entries, events, handler, owner, threads
  <2>2. (Attended(t) => Attended(t)') /\ (Up(t)' => Up(t)) BY <2>1 DEF Attended, Up
  <2>3. QED BY <2>1, <2>2, GuardedStays
<1>3. CASE ShellExit(s)
  <2>1. marks \subseteq marks' /\ UNCHANGED <<detached, hand, mine, emit>>
    BY <1>3 DEF ShellExit, Become, Up, bounds, commands, entries, events, handler,
       owner, threads
  <2>2. Attended(t) => Attended(t)' BY <2>1 DEF Attended
  <2>3. (Up(t)' => Up(t)) /\ (cmd'[t] # "off" => cmd[t] # "off")
    BY <1>3 DEF ShellExit, Become, Up, bounds, commands, entries, events, handler,
       owner, threads
  <2>4. QED BY <2>1, <2>2, <2>3, GuardedStays
<1>4. CASE Wedge(s)
  <2>1. marks \subseteq marks' /\ UNCHANGED <<detached, hand, mine, emit>>
    BY <1>4 DEF Wedge, Become, Fault, commands, entries, events, handler, owner, threads
  <2>2. Attended(t) => Attended(t)' BY <2>1 DEF Attended
  <2>3. (Up(t)' => Up(t)) /\ (cmd'[t] # "off" => cmd[t] # "off")
    BY <1>4 DEF Wedge, Become, Fault, commands, entries, events, handler, owner,
       threads, Up
  <2>4. QED BY <2>1, <2>2, <2>3, GuardedStays
<1>5. CASE HangUp(s)
  <2>1. marks \subseteq marks' /\ UNCHANGED <<detached, hand, mine, emit>>
    BY <1>5 DEF HangUp, Become, Fault, commands, entries, events, handler, owner,
       threads
  <2>2. Attended(t) => Attended(t)' BY <2>1 DEF Attended
  <2>3. (Up(t)' => Up(t)) /\ (cmd'[t] # "off" => cmd[t] # "off")
    BY <1>5 DEF HangUp, Become, Fault, commands, entries, events, handler, owner,
       threads, Up
  <2>4. QED BY <2>1, <2>2, <2>3, GuardedStays
<1>6. CASE ReadTorn(s)
  <2>1. marks \subseteq marks' /\ UNCHANGED <<detached, hand, mine, emit>>
    BY <1>6 DEF ReadTorn, Fault, Mark, Source, commands, entries, events, handler, owner
  <2>2. Attended(t) => Attended(t)' BY <2>1 DEF Attended
  <2>3. (Up(t)' => Up(t)) /\ (cmd'[t] # "off" => cmd[t] # "off")
    BY <1>6 DEF ReadTorn, Fault, Mark, Source, commands, entries, events, handler,
       owner, Up
  <2>4. QED BY <2>1, <2>2, <2>3, GuardedStays
<1>7. CASE Read(s)
  <2>1. marks \subseteq marks' /\ UNCHANGED <<detached, hand, mine, emit>>
    BY <1>7 DEF Read, Mark, If, Source, bounds, commands, entries, events, handler,
       owner
  <2>2. Attended(t) => Attended(t)' BY <2>1 DEF Attended
  <2>3. (Up(t)' => Up(t)) /\ (cmd'[t] # "off" => cmd[t] # "off")
    BY <1>7 DEF Read, Mark, If, Source, bounds, commands, entries, events, handler,
       owner, Up
  <2>4. QED BY <2>1, <2>2, <2>3, GuardedStays
<1>8. CASE ReadEmit(s)
  <2>1. marks \subseteq marks' /\ UNCHANGED <<detached, hand, mine, emit>>
    BY <1>8 DEF ReadEmit, Emit, bounds, commands, entries, handler, owner, terminal
  <2>2. Attended(t) => Attended(t)' BY <2>1 DEF Attended
  <2>3. (Up(t)' => Up(t)) /\ (cmd'[t] # "off" => cmd[t] # "off")
    BY <1>8 DEF ReadEmit, Emit, bounds, commands, entries, handler, owner, terminal, Up
  <2>4. QED BY <2>1, <2>2, <2>3, GuardedStays
<1>9. CASE ReadEnd(s)
  <2>1. marks \subseteq marks' /\ UNCHANGED <<detached, hand, mine, emit>>
    BY <1>9 DEF ReadEnd, Source, bounds, commands, entries, events, handler, owner,
       terminal
  <2>2. Attended(t) => Attended(t)' BY <2>1 DEF Attended
  <2>3. (Up(t)' => Up(t)) /\ (cmd'[t] # "off" => cmd[t] # "off")
    BY <1>9 DEF ReadEnd, Source, bounds, commands, entries, events, handler, owner,
       terminal, Up
  <2>4. QED BY <2>1, <2>2, <2>3, GuardedStays
<1>10. CASE ReaderKill(s)
  <2>1. marks \subseteq marks' /\ UNCHANGED <<detached, hand, mine, emit>>
    BY <1>10 DEF ReaderKill, Send, bounds, entries, events, handler, owner, terminal
  <2>2. Attended(t) => Attended(t)' BY <2>1 DEF Attended
  <2>3. (Up(t)' => Up(t)) /\ (cmd'[t] # "off" => cmd[t] # "off")
    BY <1>10 DEF ReaderKill, Send, bounds, entries, events, handler, owner, terminal, Up
  <2>4. QED BY <2>1, <2>2, <2>3, GuardedStays
<1>11. CASE DoWrite(s)
  <2>1. marks \subseteq marks' /\ UNCHANGED <<detached, hand, mine, emit>>
    BY <1>11 DEF DoWrite, Mark, If, NextIs, bounds, entries, events, handler, owner,
       terminal
  <2>2. Attended(t) => Attended(t)' BY <2>1 DEF Attended
  <2>3. (Up(t)' => Up(t)) /\ (cmd'[t] # "off" => cmd[t] # "off")
    BY <1>11 DEF DoWrite, Mark, If, NextIs, bounds, entries, events, handler, owner,
       terminal, Up
  <2>4. QED BY <2>1, <2>2, <2>3, GuardedStays
<1>12. CASE DoKill(s)
  <2>1. marks \subseteq marks' /\ UNCHANGED <<detached, hand, mine, emit>>
    BY <1>12 DEF DoKill, NextIs, bounds, entries, events, handler, owner
  <2>2. Attended(t) => Attended(t)' BY <2>1 DEF Attended
  <2>3. (Up(t)' => Up(t)) /\ (cmd'[t] # "off" => cmd[t] # "off")
    BY <1>12 DEF DoKill, NextIs, bounds, entries, events, handler, owner, Up
  <2>4. QED BY <2>1, <2>2, <2>3, GuardedStays
<1>13. CASE Finish(s)
  <2>1. marks \subseteq marks' /\ UNCHANGED <<detached, hand, mine, emit>>
    BY <1>13 DEF Finish, bounds, entries, events, handler, owner
  <2>2. Attended(t) => Attended(t)' BY <2>1 DEF Attended
  <2>3. (Up(t)' => Up(t)) /\ (cmd'[t] # "off" => cmd[t] # "off")
    BY <1>13 DEF Finish, bounds, entries, events, handler, owner, Up
  <2>4. QED BY <2>1, <2>2, <2>3, GuardedStays
<1>14. CASE ExitEmit(s)
  <2>1. marks \subseteq marks' /\ UNCHANGED <<detached, hand, mine, emit>>
    BY <1>14 DEF ExitEmit, Emit, bounds, entries, handler, owner, terminal
  <2>2. Attended(t) => Attended(t)' BY <2>1 DEF Attended
  <2>3. (Up(t)' => Up(t)) /\ (cmd'[t] # "off" => cmd[t] # "off")
    BY <1>14 DEF ExitEmit, Emit, bounds, entries, handler, owner, terminal, Up
  <2>4. QED BY <2>1, <2>2, <2>3, GuardedStays
<1>15. CASE SweepKill(s)
  <2>1. marks \subseteq marks' /\ UNCHANGED <<detached, hand, mine, emit>>
    BY <1>15 DEF SweepKill, Send, bounds, events, handler, owner, terminal
  <2>2. Attended(t) => Attended(t)' BY <2>1 DEF Attended
  <2>3. (Up(t)' => Up(t)) /\ (cmd'[t] # "off" => cmd[t] # "off")
    BY <1>15 DEF SweepKill, Send, bounds, events, handler, owner, terminal, Up
  <2>4. QED BY <2>1, <2>2, <2>3, GuardedStays
<1>16. QED
  BY <1>2, <1>3, <1>4, <1>5, <1>6, <1>7, <1>8, <1>9, <1>10, <1>11, <1>12, <1>13, <1>14,
     <1>15 DEF SessionStep, ShellStep, ReaderStep, CommandStep

LEMMA ClientKeepsGuarded ==
    ASSUME TerminalTypeOK, ShellsInv, HandsInv, TokensInv, EndingInv, NoneIsStranded,
       NEW c \in Clients, ClientStep(c)
    PROVE  \A t \in Sessions : Guarded(t)'
<1> USE TerminalAssumption DEF TerminalTypeOK, ShellsType, ThreadsType, EntriesType,
     HandlersType
<1> SUFFICES ASSUME NEW t \in Sessions PROVE Guarded(t)'
  OBVIOUS
<1>1. Guarded(t) /\ (Ending(t) => Ending(t)')
  BY SessionsGuarded, ClientKeepsEnded
<1> USE <1>1
<1>2. CASE Disconnect(c) \/ Announce(c) \/ Snapshot(c) \/ Replay(c)
  <2>1. UNCHANGED <<marks, shell, cmd, doomed, reader, cmds, detached, hand, mine,
                    emit>>
    BY <1>2 DEF Disconnect, Announce, Snapshot, Replay, Goto, Emit, bounds, commands,
       entries, events, owner, terminal, threads
  <2>2. (Attended(t) => Attended(t)') /\ (Up(t)' => Up(t)) BY <2>1 DEF Attended, Up
  <2>3. QED BY <2>1, <2>2, GuardedStays
<1>3. CASE SpawnRefused(c)
  <2>1. /\ UNCHANGED <<shell, cmd, marks, detached, hand, emit>> /\ Unbound(c)
        /\ \A d \in Clients \ {c} : mine'[d] = mine[d]
    BY <1>3 DEF SpawnRefused, Rebind, terminal, threads, commands, entries, owner
  <2>2. ~Ending(t) /\ Attended(t) => Attended(t)'
    <3>1. mine[c] = t => Ending(t) BY <2>1, LetGo
    <3>2. QED BY <2>1, <3>1 DEF Attended
  <2>3. Up(t)' => Up(t) BY <2>1 DEF Up
  <2>4. QED BY <2>1, <2>2, <2>3, GuardedStays
<1>4. ASSUME NEW s \in Sessions, Spawn(c, s) PROVE Guarded(t)'
  <2>1. /\ hand[c] = Nil /\ hand'[c] = s /\ UNCHANGED <<detached, mine, marks>>
        /\ \A d \in Clients \ {c} : hand'[d] = hand[d]
        /\ \A q \in Sessions \ {s} :
              shell'[q] = shell[q] /\ cmd'[q] = cmd[q] /\ emit'[q] = emit[q]
    BY <1>4 DEF Spawn, Forked, Listening, HandsInv, HandFits, entries
  <2>2. CASE t = s
    <3>1. Attended(t)' BY <2>1, <2>2 DEF Attended
    <3>2. QED BY <3>1 DEF Guarded
  <2>3. CASE t # s
    <3>1. emit'[t] = emit[t] /\ t # Nil BY <2>1, <2>3
    <3>2. \A d \in Clients : hand[d] = t \/ (mine[d] = t /\ emit[t] = d)
                               => hand'[d] = t \/ (mine'[d] = t /\ emit'[t] = d)
      BY <2>1, <3>1
    <3>3. Attended(t) => Attended(t)' BY <3>2 DEF Attended
    <3>4. Up(t)' => Up(t) BY <2>1, <2>3 DEF Up
    <3>5. QED BY <2>1, <2>3, <3>3, <3>4, GuardedStays
  <2>4. QED BY <2>2, <2>3
<1>5. ASSUME NEW s \in Sessions, SpawnFails(c, s) PROVE Guarded(t)'
  <2>1. /\ UNCHANGED <<hand, detached, marks, cmd>> /\ Unbound(c) /\ cmd[s] = "off"
        /\ \A d \in Clients \ {c} : mine'[d] = mine[d]
        /\ \A q \in Sessions \ {s} : shell'[q] = shell[q] /\ emit'[q] = emit[q]
    BY <1>5 DEF SpawnFails, Forked, Rebind, ShellsInv, ShellFits, Fresh, entries
  <2>2. CASE t = s BY <2>1, <2>2 DEF Guarded
  <2>3. CASE t # s
    <3>1. mine[c] = t => Ending(t) BY <2>1, LetGo
    <3>2. ~Ending(t) /\ Attended(t) => Attended(t)' BY <2>1, <2>3, <3>1 DEF Attended
    <3>3. Up(t)' => Up(t) BY <2>1, <2>3 DEF Up
    <3>4. QED BY <2>1, <3>2, <3>3, GuardedStays
  <2>4. QED BY <2>2, <2>3
<1>6. ASSUME NEW s \in Sessions, Look(c, s) PROVE Guarded(t)'
  <2>1. /\ hand[c] = Nil /\ UNCHANGED <<shell, cmd, marks, detached, mine, emit>>
        /\ \A d \in Clients \ {c} : hand'[d] = hand[d]
    BY <1>6 DEF Look, Listening, HandsInv, HandFits, terminal, threads, commands,
       entries, owner
  <2>2. t # Nil OBVIOUS
  <2>3. Attended(t) => Attended(t)' BY <2>2, <2>1 DEF Attended
  <2>4. Up(t)' => Up(t) BY <2>1 DEF Up
  <2>5. QED BY <2>1, <2>3, <2>4, GuardedStays
<1>7. CASE AskWrite(c)
  <2>1. UNCHANGED <<shell, cmd, marks, detached, hand, mine, emit>>
    BY <1>7 DEF AskWrite, terminal, entries, owner, handler
  <2>2. (Attended(t) => Attended(t)') /\ (Up(t)' => Up(t)) BY <2>1 DEF Attended, Up
  <2>3. QED BY <2>1, <2>2, GuardedStays
<1>8. CASE AskKill(c)
  <2>1. UNCHANGED <<shell, cmd, marks, detached, hand, mine, emit>>
    BY <1>8 DEF AskKill, terminal, entries, owner, handler
  <2>2. (Attended(t) => Attended(t)') /\ (Up(t)' => Up(t)) BY <2>1 DEF Attended, Up
  <2>3. QED BY <2>1, <2>2, GuardedStays
<1>9. CASE Spawned(c)
  <2>1. /\ stage[c] = "spawned" /\ mine'[c] = hand[c]
        /\ \A d \in Clients \ {c} : mine'[d] = mine[d] /\ hand'[d] = hand[d]
        /\ marks \subseteq marks' /\ UNCHANGED <<shell, cmd, detached, emit>>
    BY <1>9 DEF Spawned, Rebind, Mark, terminal, threads, commands, entries, owner
  <2>2. Up(t)' => Up(t) BY <2>1 DEF Up
  <2>3. mine[c] = t => Ending(t) BY <2>1, LetGo DEF HandsInv, HandFits
  <2>4. ASSUME hand[c] = t, Unmarked({"borrowed", "overtaken"})' PROVE emit[t] = c
    <3>1. token[t] = c /\ Unmarked({"borrowed"})
      <4>1. token[t] # c => "borrowed" \in marks' BY <1>9, <2>4 DEF Spawned, Mark, If
      <4>2. QED BY <2>1, <2>4, <4>1 DEF Unmarked
    <3>2. emit[t] \in {c, Nil} BY <3>1 DEF ShellsInv, ShellFits
    <3>3. QED BY <2>1, <3>1, <3>2 DEF TokensInv
  <2>5. ASSUME Unmarked({"borrowed", "overtaken"})', ~Ending(t), Attended(t)
        PROVE  Attended(t)'
    <3>1. CASE hand[c] = t BY <2>1, <2>4, <2>5, <3>1 DEF Attended
    <3>2. CASE hand[c] # t BY <2>1, <2>3, <2>5, <3>2 DEF Attended
    <3>3. QED BY <3>1, <3>2
  <2>6. QED BY <2>1, <2>2, <2>5, GuardedStays
<1>10. CASE Found(c)
  <2>1. /\ stage[c] = "found" /\ UNCHANGED <<shell, cmd, marks, detached, emit>>
        /\ \A d \in Clients \ {c} : mine'[d] = mine[d] /\ hand'[d] = hand[d]
    BY <1>10 DEF Found, Rebind, terminal, threads, commands, entries, owner
  <2>2. mine[c] = t => Ending(t) BY <2>1, LetGo DEF HandsInv, HandFits
  <2>3. hand[c] = t /\ ~Ending(t) => hand'[c] = t
    BY <1>10, FinishedEnding DEF Found
  <2>4. ~Ending(t) /\ Attended(t) => Attended(t)' BY <2>1, <2>2, <2>3 DEF Attended
  <2>5. Up(t)' => Up(t) BY <2>1 DEF Up
  <2>6. QED BY <2>1, <2>4, <2>5, GuardedStays
<1>11. CASE TakeOver(c)
  <2>1. /\ UNCHANGED <<shell, cmd, detached, hand, mine>> /\ marks \subseteq marks'
        /\ \A q \in Sessions \ {hand[c]} : emit'[q] = emit[q]
    BY <1>11 DEF TakeOver, Mark, terminal, threads, commands, entries
  <2>2. Attended(t) => Attended(t)' BY <2>1 DEF Attended
  <2>3. Up(t)' => Up(t) BY <2>1 DEF Up
  <2>4. QED BY <2>1, <2>2, <2>3, GuardedStays
<1>12. CASE Attached(c)
  <2>1. /\ stage[c] = "attached" /\ marks \subseteq marks'
        /\ detached' = detached \ {hand[c]}
        /\ \A d \in Clients \ {c} : hand'[d] = hand[d]
        /\ UNCHANGED <<shell, cmd, mine, emit>>
    BY <1>12 DEF Attached, Mark, terminal, threads, commands, owner
  <2>2. Up(t)' => Up(t) BY <2>1 DEF Up
  <2>3. ASSUME hand[c] = t, Unmarked({"borrowed", "overtaken"})' PROVE Attended(t)'
    <3>1. token[t] = c /\ Unmarked({"borrowed"})
      <4>1. token[t] # c => "overtaken" \in marks' BY <1>12, <2>3 DEF Attached, Mark, If
      <4>2. QED BY <2>1, <2>3, <4>1 DEF Unmarked
    <3>2. emit[t] \in {c, Nil} BY <3>1 DEF ShellsInv, ShellFits
    <3>3. emit[t] = c BY <2>1, <3>1, <3>2 DEF TokensInv
    <3>4. mine[c] = t BY <2>1, <2>3 DEF HandsInv, HandFits
    <3>5. QED BY <2>1, <3>3, <3>4 DEF Attended
  <2>4. ASSUME hand[c] # t
        PROVE  /\ t \in detached => t \in detached'
               /\ Attended(t) => Attended(t)'
    BY <2>1, <2>4 DEF Attended
  <2>5. QED BY <2>1, <2>2, <2>3, <2>4, GuardedStays
<1>13. CASE Leave(c)
  <2>1. /\ stage[c] = "ready" /\ mine'[c] = Nil /\ hand[c] = Nil
        /\ \A d \in Clients \ {c} : mine'[d] = mine[d]
        /\ UNCHANGED <<shell, cmd, hand, marks, token>>
    BY <1>13 DEF Leave, HandsInv, HandFits, terminal, threads, commands
  <2>2. Up(t)' => Up(t) BY <2>1 DEF Up
  <2>3. CASE mine[c] # t
    <3>1. emit'[t] = emit[t] /\ (t \in detached => t \in detached')
      BY <1>13, <2>3 DEF Leave, Remove, Detach
    <3>2. Attended(t) => Attended(t)' BY <2>1, <2>3, <3>1 DEF Attended
    <3>3. QED BY <2>1, <2>2, <3>1, <3>2, GuardedStays
  <2>4. CASE mine[c] = t /\ finished[t]
    <3>1. Ending(t) BY <2>4, FinishedEnding
    <3>2. QED BY <2>1, <2>2, <3>1, GuardedStays
  <2>5. CASE mine[c] = t /\ ~finished[t]
    <3>1. Detach(c, t) BY <1>13, <2>5 DEF Leave
    <3>2. CASE Owns(c, t)
      <4>1. Up(t) /\ ~Ending(t) => t \in registry BY DEF EndingInv, EndFits, Up
      <4>2. Up(t) /\ ~Ending(t) => t \in detached' BY <3>1, <3>2, <4>1 DEF Detach
      <4>3. QED BY <2>1, <2>2, <4>2, GuardedStays
    <3>3. CASE ~Owns(c, t)
      <4>1. emit'[t] = emit[t] /\ detached' = detached BY <3>1, <3>3 DEF Detach
      <4>2. Unmarked({"borrowed"}) => mark[c] = c BY <2>1, <2>5 DEF TokensInv
      <4>3. Unmarked({"borrowed"}) => emit[t] # c
        BY <3>3, <4>2 DEF Owns, ShellsInv, ShellFits
      <4>4. Unmarked({"borrowed", "overtaken"})' => Unmarked({"borrowed"})
        BY <2>1 DEF Unmarked
      <4>5. Unmarked({"borrowed", "overtaken"})' /\ Attended(t) => Attended(t)'
        BY <2>1, <4>1, <4>3, <4>4 DEF Attended
      <4>6. QED BY <2>1, <2>2, <4>1, <4>5, GuardedStays
    <3>4. QED BY <3>2, <3>3
  <2>6. QED BY <2>3, <2>4, <2>5
<1>14. CASE Pump(c)
  <2> DEFINE e == wire[c][sent[c] + 1]
  <2>1. UNCHANGED <<shell, cmd, marks, hand, mine, emit>>
    BY <1>14 DEF Pump, terminal, threads, commands, owner, handler
  <2>2. (Attended(t) => Attended(t)') /\ (Up(t)' => Up(t)) BY <2>1 DEF Attended, Up
  <2>3. CASE e.type = "exit"
    <3>1. detached' = detached \ {e.id} BY <1>14, <2>3 DEF Pump, Remove
    <3>2. Ending(e.id) BY <1>14, <2>3, PumpedEnds
    <3>3. QED BY <2>1, <2>2, <3>1, <3>2, GuardedStays
  <2>4. CASE e.type # "exit"
    <3>1. detached' = detached BY <1>14, <2>4 DEF Pump
    <3>2. QED BY <2>1, <2>2, <3>1, GuardedStays
  <2>5. QED BY <2>3, <2>4
<1>15. QED
  BY <1>2, <1>3, <1>4, <1>5, <1>6, <1>7, <1>8, <1>9, <1>10, <1>11, <1>12, <1>13, <1>14
     DEF ClientStep, Request, HandlerStep

-----------------------------------------------------------------------------
(* Two of the promises from what makes them hold.                            *)

\* What is up and not ending is in the registry, and is kept.
LEMMA GuardedAreNotStranded ==
    ASSUME EndingInv, \A s \in Sessions : Guarded(s)
    PROVE  NoneIsStranded
<1> SUFFICES ASSUME Unmarked({"borrowed", "overtaken"}), NEW s \in Sessions, Up(s),
                    cmd[s] # "off", ~Ending(s)
             PROVE  s \in registry /\ (s \in detached \/ Attended(s))
  BY DEF NoneIsStranded
<1>1. shell[s] # "none" BY DEF Up
<1>2. s \in registry BY <1>1 DEF EndingInv, EndFits
<1>3. QED BY <1>2 DEF Guarded

\* What is over has come to it by its reader, which had read everything.
LEMMA OverIsRead ==
    ASSUME ShellsInv, OutputInv, \A s \in Sessions, c \in Clients : ToldOver(s, c)
    PROVE  EndsAreTold
<1>1. ASSUME NEW s \in Sessions, cmd[s] = "over", s \notin condemned \cup swept,
             Unmarked({"raised", "stolen", "torn"})
      PROVE  taken[s] = wrote[s] /\ chunk[s] = <<>>
  <2>1. OutputFits(s) /\ Unmarked({"raised"}) BY <1>1 DEF OutputInv, Unmarked
  <2>2. reader[s] = "over" BY <1>1, <2>1 DEF OutputFits
  <2>3. Ended(s) BY <1>1, <2>1, <2>2 DEF OutputFits
  <2>4. QED BY <2>2, <2>3 DEF Ended, ShellsInv, ShellFits
<1>2. ASSUME NEW s \in Sessions, cmd[s] = "over", Unmarked({"late"}), NEW c \in Clients,
             emit[s] = c, stage[c] # "gone"
      PROVE  Has(c, ExitEvent(s))
  BY <1>2 DEF ToldOver
<1>3. QED BY <1>1, <1>2 DEF EndsAreTold, Has

\* TerminalInv with its two promises per session and per client.
Grounds ==
    /\ TerminalTypeOK /\ ShellsInv /\ HandsInv /\ TokensInv /\ ShownInv
    /\ EndingInv /\ OutputInv
    /\ \A s \in Sessions : Guarded(s)
    /\ \A s \in Sessions, c \in Clients : ToldOver(s, c)

LEMMA GroundsSuffice == Grounds => TerminalInv
BY GuardedAreNotStranded, OverIsRead DEF Grounds, TerminalInv

LEMMA PromisesFollow ==
    ASSUME Grounds'
    PROVE  TerminalInv'
BY GroundsSuffice, PTL

-----------------------------------------------------------------------------
(* The sweep.                                                                *)

LEMMA SweepKeepsTypes ==
    ASSUME TerminalTypeOK, Sweep
    PROVE  TerminalTypeOK'
<1>1. PICK expired \in SUBSET detached \ {{}} :
          /\ doomed = {} /\ doomed' = expired \cap registry
          /\ swept' = swept \cup (expired \cap registry)
          /\ registry' = registry \ expired /\ detached' = detached \ expired
  BY DEF Sweep
<1>2. UNCHANGED <<terminal, threads, owner, handler, events, condemned, bounds, marks>>
  BY DEF Sweep
<1>3. EntriesType' BY <1>1, <1>2 DEF TerminalTypeOK, EntriesType, owner
<1>4. ShellsType' /\ ThreadsType'
  BY <1>2 DEF TerminalTypeOK, ShellsType, ThreadsType, terminal, threads, commands
<1>5. HandlersType' /\ BoundsType'
  BY <1>2 DEF TerminalTypeOK, HandlersType, BoundsType, handler, bounds
<1>6. EventsType' BY <1>2 DEF TerminalTypeOK, EventsType, events
<1>7. QED BY <1>3, <1>4, <1>5, <1>6 DEF TerminalTypeOK

LEMMA SweepKeepsInv ==
    ASSUME TerminalInv, Sweep
    PROVE  TerminalInv'
<1> USE DEF TerminalInv
<1>1. PICK expired \in SUBSET detached \ {{}} :
          /\ doomed = {} /\ doomed' = expired \cap registry
          /\ swept' = swept \cup (expired \cap registry)
          /\ registry' = registry \ expired /\ detached' = detached \ expired
  BY DEF Sweep
<1>2. /\ UNCHANGED <<shell, wrote, taken, fd, open, reader, chunk, scroll>>
      /\ UNCHANGED <<cmds, cmd, finished, emit, token, stage, hand, mine, mark, held>>
      /\ UNCHANGED <<wire, condemned, marks>>
  BY DEF Sweep, terminal, threads, commands, owner, handler, events
<1>3. detached \subseteq registry /\ registry \subseteq Sessions
  BY DEF TerminalTypeOK, EntriesType
<1>4. \A s \in Sessions :
          /\ Ending(s) => Ending(s)'
          /\ s \in expired => Ending(s)'
          /\ s \in swept' \ swept => s \in registry
  BY <1>1, <1>2, <1>3 DEF Ending, KillSent
<1>5. ShellsInv'
  <2>1. ASSUME NEW s \in Sessions PROVE ShellFits(s)'
    <3>1. ShellFits(s) BY DEF ShellsInv
    <3>2. shell[s] = "none" => s \notin swept' /\ s \notin registry'
      BY <1>1, <1>3, <3>1 DEF ShellFits, Fresh
    <3>3. QED BY <1>2, <3>1, <3>2 DEF ShellFits, Fresh
  <2>2. QED BY <2>1 DEF ShellsInv
<1>6. HandsInv' BY <1>2 DEF HandsInv, HandFits, Unbound
<1>7. TokensInv' BY <1>2 DEF TokensInv, Unmarked
<1>8. ShownInv'
  <2>1. ASSUME NEW s \in Sessions, NEW c \in Clients PROVE ShownTo(s, c)'
    <3>1. ShownTo(s, c) BY DEF ShownInv
    <3>2. Told(c) \subseteq Told(c)' BY <1>2 DEF Told
    <3>3. Holds(c, s) \subseteq Holds(c, s)' BY <1>2 DEF Holds
    <3>4. QED BY <1>2, <3>1, <3>2, <3>3, ShownStays
  <2>2. QED BY <2>1 DEF ShownInv
<1>9. EndingInv'
  <2>1. ASSUME NEW s \in Sessions PROVE EndFits(s)'
    <3>1. EndFits(s) BY DEF EndingInv
    <3>2. s \in swept' => Ending(s)' BY <1>1, <1>4, <3>1 DEF EndFits
    <3>3. shell'[s] # "none" /\ ~Ending(s)' => s \in registry'
      BY <1>1, <1>2, <1>4, <3>1 DEF EndFits
    <3>4. QED BY <3>2, <3>3 DEF EndFits
  <2>2. ASSUME NEW c \in Clients PROVE ExitsFit(c)'
    BY <1>2 DEF EndingInv, ExitsFit
  <2>3. QED BY <2>1, <2>2 DEF EndingInv
<1>10. OutputInv'
  <2>1. ASSUME NEW s \in Sessions PROVE OutputFits(s)'
    <3>1. OutputFits(s) BY DEF OutputInv
    <3>2. (KillSent(s)' => KillSent(s)) /\ (Ended(s) => Ended(s)')
      BY <1>2 DEF KillSent, Ended
    <3>3. QED BY <1>1, <1>2, <3>1, <3>2, OutputStays
  <2>2. QED BY <2>1 DEF OutputInv
<1>11. \A s \in Sessions : Guarded(s)'
  <2>1. ASSUME NEW s \in Sessions PROVE Guarded(s)'
    <3>1. Guarded(s) BY SessionsGuarded
    <3>2. (Up(s)' => Up(s)) /\ (Attended(s) => Attended(s)')
      BY <1>2 DEF Up, Attended
    <3>3. CASE s \in expired BY <1>4, <3>3 DEF Guarded
    <3>4. CASE s \notin expired BY <1>1, <1>2, <1>4, <3>1, <3>2, <3>4, GuardedStays
    <3>5. QED BY <3>3, <3>4
  <2>2. QED BY <2>1
<1>12. \A s \in Sessions, c \in Clients : ToldOver(s, c)'
  <2>1. ASSUME NEW s \in Sessions, NEW c \in Clients PROVE ToldOver(s, c)'
    <3>1. ToldOver(s, c) BY ExitsTold
    <3>2. QED BY <1>2, <3>1, ToldOverStays
  <2>2. QED BY <2>1
<1>13. TerminalTypeOK' BY SweepKeepsTypes
<1>14. Grounds'
  BY <1>5, <1>6, <1>7, <1>8, <1>9, <1>10, <1>11, <1>12, <1>13 DEF Grounds
<1>15. QED BY <1>14, PromisesFollow

-----------------------------------------------------------------------------
(* Every step.                                                               *)

LEMMA SessionKeepsInv ==
    ASSUME TerminalInv, NEW s \in Sessions, SessionStep(s)
    PROVE  TerminalInv'
<1> USE DEF TerminalInv
<1>1. TerminalTypeOK'
  BY SessionKeepsShellsType, SessionKeepsThreadsType, SessionKeepsEntriesType,
     SessionKeepsHandlersType, SessionKeepsEventsType, SessionKeepsBounds DEF
     TerminalTypeOK
<1>2. ShellsInv' /\ HandsInv' BY SessionKeepsShells, SessionKeepsHands
<1>3. TokensInv' /\ ShownInv' BY SessionKeepsTokens, SessionKeepsShown
<1>4. EndingInv' BY SessionKeepsEnds, SessionKeepsExits DEF EndingInv
<1>5. OutputInv' BY SessionKeepsOutput
<1>6. \A t \in Sessions : Guarded(t)' BY SessionKeepsGuarded
<1>7. \A t \in Sessions, c \in Clients : ToldOver(t, c)' BY SessionKeepsToldOver
<1>8. Grounds' BY <1>1, <1>2, <1>3, <1>4, <1>5, <1>6, <1>7 DEF Grounds
<1>9. QED BY <1>8, PromisesFollow

LEMMA ClientKeepsInv ==
    ASSUME TerminalInv, NEW c \in Clients, ClientStep(c)
    PROVE  TerminalInv'
<1> USE DEF TerminalInv
<1>1. TerminalTypeOK'
  BY ClientKeepsShellsType, ClientKeepsThreadsType, ClientKeepsEntriesType,
     ClientKeepsHandlersType, ClientKeepsEventsType, ClientKeepsBounds DEF
     TerminalTypeOK
<1>2. ShellsInv' /\ HandsInv' BY ClientKeepsShells, ClientKeepsHands
<1>3. TokensInv' /\ ShownInv' BY ClientKeepsTokens, ClientKeepsShown
<1>4. EndingInv' BY ClientKeepsEnds, ClientKeepsExits DEF EndingInv
<1>5. OutputInv' BY ClientKeepsOutput
<1>6. \A t \in Sessions : Guarded(t)' BY ClientKeepsGuarded
<1>7. \A t \in Sessions, d \in Clients : ToldOver(t, d)' BY ClientKeepsToldOver
<1>8. Grounds' BY <1>1, <1>2, <1>3, <1>4, <1>5, <1>6, <1>7 DEF Grounds
<1>9. QED BY <1>8, PromisesFollow

LEMMA StutterKeepsInv ==
    ASSUME TerminalInv, UNCHANGED terminalVars
    PROVE  TerminalInv'
<1> USE DEF TerminalInv, terminalVars
<1>1. TerminalTypeOK'
  BY DEF TerminalTypeOK, ShellsType, ThreadsType, EntriesType, HandlersType, EventsType,
     BoundsType, terminal, threads, commands, entries, owner, handler, events, bounds
<1>2. /\ UNCHANGED <<shell, wrote, taken, fd, open, reader, chunk, scroll>>
      /\ UNCHANGED <<cmds, cmd, finished, emit, token, stage, hand, mine, mark, held>>
      /\ UNCHANGED <<wire, condemned, marks, registry, detached, doomed, swept>>
  BY DEF terminal, threads, commands, owner, entries, handler, events
<1>3. ShellsInv' /\ HandsInv'
  BY <1>2 DEF ShellsInv, ShellFits, Fresh, HandsInv, HandFits, Unbound
<1>4. TokensInv' BY <1>2 DEF TokensInv, Unmarked
<1>5. ShownInv'
  <2>1. ASSUME NEW s \in Sessions, NEW c \in Clients PROVE ShownTo(s, c)'
    <3>1. ShownTo(s, c) BY DEF ShownInv
    <3>2. Told(c) \subseteq Told(c)' BY <1>2 DEF Told
    <3>3. Holds(c, s) \subseteq Holds(c, s)' BY <1>2 DEF Holds
    <3>4. QED BY <1>2, <3>1, <3>2, <3>3, ShownStays
  <2>2. QED BY <2>1 DEF ShownInv
<1>6. \A s \in Sessions : (Ending(s) <=> Ending(s)') /\ (KillSent(s) <=> KillSent(s)')
  BY <1>2 DEF Ending, KillSent
<1>7. EndingInv'
  <2>1. \A s \in Sessions : EndFits(s)' BY <1>2, <1>6 DEF EndingInv, EndFits
  <2>2. \A c \in Clients : ExitsFit(c)' BY <1>2 DEF EndingInv, ExitsFit
  <2>3. QED BY <2>1, <2>2 DEF EndingInv
<1>8. OutputInv' BY <1>2, <1>6 DEF OutputInv, OutputFits, Ended, Unmarked
<1>9. \A s \in Sessions : Guarded(s)'
  <2>1. ASSUME NEW s \in Sessions PROVE Guarded(s)'
    <3>1. (Up(s)' => Up(s)) /\ (Attended(s) => Attended(s)') BY <1>2 DEF Up, Attended
    <3>2. QED BY <1>2, <1>6, <3>1, SessionsGuarded, GuardedStays
  <2>2. QED BY <2>1
<1>10. \A s \in Sessions, c \in Clients : ToldOver(s, c)'
  <2>1. ASSUME NEW s \in Sessions, NEW c \in Clients PROVE ToldOver(s, c)'
    <3>1. ToldOver(s, c) BY ExitsTold
    <3>2. QED BY <1>2, <3>1, ToldOverStays
  <2>2. QED BY <2>1
<1>11. Grounds'
  BY <1>1, <1>3, <1>4, <1>5, <1>7, <1>8, <1>9, <1>10 DEF Grounds
<1>12. QED BY <1>11, PromisesFollow

-----------------------------------------------------------------------------
(* The initial states.                                                       *)

LEMMA TerminalInitTypes == TerminalInit => TerminalTypeOK
<1> SUFFICES ASSUME TerminalInit PROVE TerminalTypeOK OBVIOUS
<1> USE TerminalAssumption DEF TerminalInit
<1>1. ShellsType BY DEF ShellsType
<1>2. ThreadsType
  <2>1. <<>> \in Seq(Chunks) /\ <<>> \in Seq({"write", "kill"}) /\ Len(<<>>) = 0
    OBVIOUS
  <2>2. QED BY <2>1 DEF ThreadsType
<1>3. EntriesType BY DEF EntriesType
<1>4. HandlersType
  <2>1. <<>> \in Seq(Chunks) OBVIOUS
  <2>2. QED BY <2>1 DEF HandlersType
<1>5. EventsType
  <2>1. <<>> \in Seq(Event) /\ Len(<<>>) = 0 OBVIOUS
  <2>2. QED BY <2>1 DEF EventsType
<1>6. BoundsType BY DEF BoundsType
<1>7. QED BY <1>1, <1>2, <1>3, <1>4, <1>5, <1>6 DEF TerminalTypeOK

LEMMA TerminalInitInv == TerminalInit => TerminalInv
<1> SUFFICES ASSUME TerminalInit PROVE TerminalInv OBVIOUS
<1> USE TerminalAssumption DEF TerminalInit
<1>1. TerminalTypeOK BY TerminalInitTypes
<1>2. \A s \in Sessions : Fresh(s) /\ ~Ending(s) /\ ~KillSent(s) /\ shell[s] = "none"
  <2>1. \A s \in Sessions : Fresh(s) /\ shell[s] = "none" BY DEF Fresh
  <2>2. QED BY <1>1, <2>1, FreshNotEnding
<1>3. ShellsInv BY <1>2 DEF ShellsInv, ShellFits
<1>4. HandsInv BY DEF HandsInv, HandFits, Unbound
<1>5. TokensInv BY DEF TokensInv
<1>6. ShownInv BY DEF ShownInv, ShownTo
<1>7. EndingInv
  <2>1. \A s \in Sessions : EndFits(s) BY <1>2 DEF EndFits
  <2>2. \A c \in Clients : ExitsFit(c) BY DEF ExitsFit
  <2>3. QED BY <2>1, <2>2 DEF EndingInv
<1>8. OutputInv BY <1>2 DEF OutputInv, OutputFits
<1>9. \A s \in Sessions : Guarded(s) BY DEF Guarded, Up
<1>10. \A s \in Sessions, c \in Clients : ToldOver(s, c) BY DEF ToldOver
<1>11. Grounds
  BY <1>1, <1>3, <1>4, <1>5, <1>6, <1>7, <1>8, <1>9, <1>10 DEF Grounds
<1>12. QED BY <1>11, GroundsSuffice

-----------------------------------------------------------------------------
(* The promises.                                                             *)

\* The invariant holds initially, every step keeps it, and it implies the promises.
THEOREM TerminalInvariant == TerminalSpec => []TerminalInv
<1>1. TerminalInit => TerminalInv BY TerminalInitInv
<1>2. TerminalInv /\ [TerminalNext]_terminalVars => TerminalInv'
  <2> SUFFICES ASSUME TerminalInv, [TerminalNext]_terminalVars PROVE TerminalInv'
    OBVIOUS
  <2>1. CASE TerminalNext
    BY <2>1, TerminalSteps, SessionKeepsInv, ClientKeepsInv, SweepKeepsInv
  <2>2. CASE UNCHANGED terminalVars BY <2>2, StutterKeepsInv
  <2>3. QED BY <2>1, <2>2
<1>3. QED BY <1>1, <1>2, PTL DEF TerminalSpec

\* Threads, handlers, queues and the registry stay within their types: a doomed
\* session is one the sweep has taken, and nothing the sweep took is registered.
THEOREM TerminalTypesHold == TerminalSpec => []TerminalTypeOK
<1>1. TerminalInv => TerminalTypeOK BY DEF TerminalInv
<1>2. QED BY <1>1, TerminalInvariant, PTL

LEMMA TargetsHold ==
    TerminalTypeOK /\ ShellsInv /\ TokensInv /\ ShownInv => NothingIsMissed
<1> SUFFICES ASSUME TerminalTypeOK, ShellsInv, TokensInv, ShownInv PROVE NothingIsMissed
  OBVIOUS
<1>1. ASSUME NEW s \in Sessions, NEW c \in Clients, stage[c] = "ready", mine[c] = s,
             token[s] = c, Unmarked({"borrowed"})
      PROVE  emit[s] = c
  <2>1. emit[s] \in {c, Nil} BY <1>1 DEF ShellsInv, ShellFits
  <2>2. c # Nil BY TerminalAssumption
  <2>3. QED BY <1>1, <2>1, <2>2 DEF TokensInv
<1>2. ASSUME NEW s \in Sessions, NEW c \in Clients, emit[s] = c, stage[c] # "gone",
             ~Replaying(c, s)
      PROVE  ChunksOf(scroll[s]) \subseteq Told(c) \cup ChunksOf(chunk[s])
  <2>1. ShownTo(s, c) BY DEF ShownInv
  <2>2. Holds(c, s) = {} BY <1>2 DEF Holds, Replaying
  <2>3. QED BY <1>2, <2>1, <2>2 DEF ShownTo, Replaying
<1>3. QED BY <1>1, <1>2 DEF NothingIsMissed

\* Whoever holds a session nobody has taken over is its target, and every client that
\* is shown a session has been told all of its scrollback, whatever the reader put
\* between the steps of attach: the token of detach and the replay after the target.
THEOREM NothingIsEverMissed == TerminalSpec => []NothingIsMissed
<1>1. TerminalInv => NothingIsMissed BY TargetsHold DEF TerminalInv
<1>2. QED BY <1>1, TerminalInvariant, PTL

\* No shell with its threads runs on that nobody would ever kill: it is registered,
\* and attended or on the list of the sweep, for any number of clients and sessions.
THEOREM NoneIsEverStranded == TerminalSpec => []NoneIsStranded
<1>1. TerminalInv => NoneIsStranded BY DEF TerminalInv
<1>2. QED BY <1>1, TerminalInvariant, PTL

\* An exit that nobody asked for comes after all of the output, and the client that
\* is shown the session has been told it.
THEOREM EndsAreAlwaysTold == TerminalSpec => []EndsAreTold
<1>1. TerminalInv => EndsAreTold BY DEF TerminalInv
<1>2. QED
  BY <1>1, TerminalInvariant, PTL
=============================================================================
