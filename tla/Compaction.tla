----------------------------- MODULE Compaction -----------------------------
(***************************************************************************)
(* The compaction of the memories of a session: scans stage candidates     *)
(* (core/compaction.py), agents are asked for summaries and stage them     *)
(* (endpoints/compaction.py), the scheduler writes those nobody wrote      *)
(* (services/compaction_summarize.py), and an apply hides the sources      *)
(* behind the summary (services/compaction_apply.py). Meanwhile memories   *)
(* are merged and replaced (core/memory_ops.py) and deleted                *)
(* (core/memory_delete.py, services/log_entry.py).                         *)
(*                                                                         *)
(* Several processes do this to one database, each transaction is a step,  *)
(* and what a process read before it is kept in pc, arg, base, meta and    *)
(* todo. Texts stand for the content hashes; a merge makes a text longer.  *)
(* Which memories are old enough and similar is left open, and so is when  *)
(* a cooldown or the life of a candidate ends. A candidate is a number,    *)
(* and its summary has the same.                                           *)
(*                                                                         *)
(* MaxCandidates bounds the rows of compaction_staging, and MaxWrites the   *)
(* writes to memories. The definitions named Slip... are plausible slips   *)
(* of the code, each of which breaks one of the properties.                *)
(***************************************************************************)
EXTENDS Naturals, FiniteSets

CONSTANTS
    Memories, None, Processes,
    MaxText, MaxCandidates, MaxWrites,
    MinCluster,   \* COMPACTION_MIN_CLUSTER_SIZE
    MaxNudges     \* COMPACTION_MAX_NUDGES

ASSUME CompactionAssumption ==
    /\ MaxText \in Nat /\ MaxCandidates \in Nat /\ MaxWrites \in Nat
    /\ MinCluster \in Nat \ {0} /\ MaxNudges \in Nat \ {0}
    /\ None \notin Memories \cup Nat
    /\ IsFiniteSet(Memories)

Texts == 0 .. MaxText
Candidates == 1 .. MaxCandidates
Versions == [Memories -> Texts \cup {None}]

VARIABLES
    text,      \* a memory's content, None when it is deleted
    into,      \* compacted_into, with compaction_role = 'source'
    summary,   \* the summaries
    row,       \* compaction_staging
    pc, arg, base, meta, todo,
    writes,    \* to memories, so far
    refused,   \* candidates a reviewer has discarded
    overrun,   \* candidates whose verdict a scan replaced by "stale"
    blurred,   \* candidates a source of which changed before they were staged
    touched,   \* sources that were written while they were hidden
    dropped    \* hidden memories deleted with their log entry

memories == <<text, into, summary>>
process == <<pc, arg, base, meta, todo>>
past == <<refused, overrun, blurred, touched, dropped>>
vars == <<memories, row, process, writes, past>>

Nothing == [m \in Memories |-> None]
Take(S) == [m \in Memories |-> IF m \in S THEN text[m] ELSE None]
Taken(versions) == {m \in Memories : versions[m] # None}

NoSummary == [made |-> 0, live |-> FALSE, lists |-> {}, covers |-> Nothing]

\* words is the preview, and then the suggested summary. Nobody reads more of
\* a row that is done than its status and, when it is discarded, its sources.
NoRow == [status |-> "none", sources |-> {}, snapshot |-> Nothing,
          words |-> Nothing, expired |-> FALSE, nudges |-> 0]

Init ==
    /\ text = [m \in Memories |-> 0] /\ into = [m \in Memories |-> None]
    /\ summary = [c \in Candidates |-> NoSummary]
    /\ row = [c \in Candidates |-> NoRow]
    /\ pc = [p \in Processes |-> "idle"] /\ arg = [p \in Processes |-> None]
    /\ base = [p \in Processes |-> Nothing]
    /\ meta = [p \in Processes |-> None] /\ todo = [p \in Processes |-> {}]
    /\ refused = {} /\ overrun = {} /\ blurred = {} /\ touched = {}
    /\ writes = 0 /\ dropped = {}

Status(c) == row[c].status
Staled(c) == [NoRow EXCEPT !.status = "stale"]
Active == {c \in Candidates : Status(c) \in {"pending_summary",
                                             "summary_staged"}}
Open == Active \cup {c \in Candidates : Status(c) = "nudge_exhausted"}

\* What staging asks of the sources of a candidate, and what a scan and an
\* apply ask as well.
Whole(S) == \A m \in S : text[m] # None /\ into[m] = None

\* A candidate is applied on whatever its sources say by then.
SlipSound(S, snapshot) == Whole(S)

Sound(S, snapshot) == Whole(S) /\ \A m \in S : text[m] = snapshot[m]

-----------------------------------------------------------------------------
(* Processes. One that fails or ends has done what it has done.             *)

Rest(p) ==
    /\ pc' = [pc EXCEPT ![p] = "idle"] /\ arg' = [arg EXCEPT ![p] = None]
    /\ base' = [base EXCEPT ![p] = Nothing]
    /\ meta' = [meta EXCEPT ![p] = None]
    /\ todo' = [todo EXCEPT ![p] = {}]

Go(p, there, what, versions) ==
    /\ pc' = [pc EXCEPT ![p] = there] /\ arg' = [arg EXCEPT ![p] = what]
    /\ base' = [base EXCEPT ![p] = versions]
    /\ UNCHANGED <<meta, todo>>

Abandon(p) ==
    /\ pc[p] # "idle"
    /\ Rest(p)
    /\ UNCHANGED <<memories, row, writes, past>>

-----------------------------------------------------------------------------
(* A scan: mark_stale_candidates, find_compaction_candidates and            *)
(* persist_candidates_to_staging.                                           *)

ReadActive(p) ==
    /\ pc[p] = "idle"
    /\ pc' = [pc EXCEPT ![p] = "checking"]
    /\ todo' = [todo EXCEPT ![p] =
                  {[row |-> c, sources |-> row[c].sources,
                    snapshot |-> row[c].snapshot, old |-> row[c].expired] :
                     c \in Active}]
    /\ UNCHANGED <<memories, row, arg, base, meta, writes, past>>

\* Each row is read, and updated without a look at its status.
CheckRow(p) ==
    /\ pc[p] = "checking"
    /\ \E t \in todo[p] :
          /\ todo' = [todo EXCEPT ![p] = @ \ {t}]
          /\ IF t.old \/ ~Sound(t.sources, t.snapshot)
             THEN /\ pc' = [pc EXCEPT ![p] = "marking"]
                  /\ arg' = [arg EXCEPT ![p] = t.row]
             ELSE UNCHANGED <<pc, arg>>
    /\ UNCHANGED <<memories, row, base, meta, writes, past>>

MarkRow(p) ==
    /\ pc[p] = "marking"
    /\ row' = [row EXCEPT ![arg[p]] = Staled(arg[p])]
    /\ overrun' = IF Status(arg[p]) \in {"applied", "discarded"}
                  THEN overrun \cup {arg[p]} ELSE overrun
    /\ pc' = [pc EXCEPT ![p] = "checking"] /\ arg' = [arg EXCEPT ![p] = None]
    /\ UNCHANGED <<memories, base, meta, todo, refused, blurred, touched,
                   dropped, writes>>

\* _discarded_pairs: two memories of a discarded candidate.
Rejected(S) ==
    \E c \in Candidates : /\ Status(c) = "discarded"
                          /\ Cardinality(S \cap row[c].sources) > 1

\* A cluster is of visible memories that are embedded; summaries are not.
Find(p) ==
    /\ pc[p] = "checking" /\ todo[p] = {}
    /\ \/ \E S \in SUBSET {m \in Memories : text[m] # None /\ into[m] = None} :
             /\ Cardinality(S) >= MinCluster
             /\ ~Rejected(S)
             /\ Go(p, "found", None, Take(S))
       \/ Rest(p)
    /\ UNCHANGED <<memories, row, writes, past>>

\* The scan has asked for the rejected pairs.
SlipAskedBefore(S) == FALSE

\* They are asked for again under the lock, and so is the cluster itself.
AskedBefore(S) ==
    \/ Rejected(S)
    \/ \E c \in Candidates : /\ row[c].sources = S
                             /\ c \in Open \/ Status(c) = "discarded"

\* A cluster that is queued is superseded only by a new one like it.
SlipOverlapping(S) == {c \in Open : row[c].sources \subseteq S}

Overlapping(S) == {c \in Open : row[c].sources \cap S # {}}

Persist(p) ==
    /\ pc[p] = "found"
    /\ LET S == Taken(base[p])
           old == Overlapping(S)
           unused == {c \in Candidates : Status(c) = "none"}
       IN IF AskedBefore(S) \/ \E c \in old : Status(c) = "summary_staged"
          THEN UNCHANGED <<row, blurred>>
          ELSE \E c \in unused :
                 /\ \A d \in unused : c <= d
                 /\ row' = [d \in Candidates |->
                              IF d = c
                              THEN [NoRow EXCEPT !.status = "pending_summary",
                                                 !.sources = S,
                                                 !.snapshot = Take(S),
                                                 !.words = base[p]]
                              ELSE IF d \in old THEN Staled(d) ELSE row[d]]
                 /\ blurred' = IF Take(S) # base[p] THEN blurred \cup {c}
                               ELSE blurred
    /\ Rest(p)
    /\ UNCHANGED <<memories, refused, overrun, touched, dropped, writes>>

Scan(p) ==
    ReadActive(p) \/ CheckRow(p) \/ MarkRow(p) \/ Find(p) \/ Persist(p)

-----------------------------------------------------------------------------
(* Prompts, summaries and reviews.                                          *)

Expire(c) ==
    /\ c \in Open /\ ~row[c].expired
    /\ row' = [row EXCEPT ![c].expired = TRUE]
    /\ UNCHANGED <<memories, process, writes, past>>

\* One prompt more.
SlipSpent(c) == row[c].nudges > MaxNudges

Spent(c) == row[c].nudges >= MaxNudges

\* claim_pending_compaction_prompt: the oldest is asked for.
Claim ==
    LET pending == {c \in Candidates : Status(c) = "pending_summary"}
        askable == {c \in pending : ~row[c].expired /\ ~Spent(c)}
        asked == {c \in askable : \A d \in askable : c <= d}
    IN
    /\ row' = [c \in Candidates |->
                 IF c \in pending /\ row[c].expired THEN Staled(c)
                 ELSE IF c \in pending /\ Spent(c)
                 THEN [row[c] EXCEPT !.status = "nudge_exhausted",
                                     !.words = Nothing]
                 ELSE IF c \in asked THEN [row[c] EXCEPT !.nudges = @ + 1]
                 ELSE row[c]]
    /\ UNCHANGED <<memories, process, writes, past>>

\* marm_stage_compaction_summaries: the agent has read the previews.
CheckStage(p) ==
    /\ pc[p] = "idle"
    /\ \E c \in Candidates :
          /\ Status(c) = "pending_summary"
          /\ IF ~row[c].expired /\ Whole(row[c].sources)
             THEN Go(p, "staging", c, row[c].words) /\ UNCHANGED row
             ELSE /\ row' = [row EXCEPT ![c] = Staled(c)]
                  /\ UNCHANGED process
    /\ UNCHANGED <<memories, writes, past>>

\* process_nudge_exhausted_candidates reads the memories themselves.
CheckPromote(p) ==
    /\ pc[p] = "idle"
    /\ \E c \in Candidates :
          /\ Status(c) = "nudge_exhausted" /\ ~row[c].expired
          /\ IF \A m \in row[c].sources : text[m] # None
             THEN Go(p, "promoting", c, Take(row[c].sources)) /\ UNCHANGED row
             ELSE /\ row' = [row EXCEPT ![c] = Staled(c)]
                  /\ UNCHANGED process
    /\ UNCHANGED <<memories, writes, past>>

\* A summary is stored whatever became of its candidate.
SlipAwaits(p) == Status(arg[p])

\* The status the row must still have.
Awaits(p) == IF pc[p] = "staging" THEN "pending_summary" ELSE "nudge_exhausted"

StoreSummary(p) ==
    /\ pc[p] \in {"staging", "promoting"}
    /\ row' = IF Status(arg[p]) = Awaits(p)
              THEN [row EXCEPT ![arg[p]].status = "summary_staged",
                               ![arg[p]].words = base[p]]
              ELSE row
    /\ Rest(p)
    /\ UNCHANGED <<memories, writes, past>>

\* A reviewer who read "summary_staged" discards what was applied since.
SlipDiscardable == {c \in Candidates : c \in Open \/ Status(c) = "applied"}

Discardable == Open

Discard(c) ==
    /\ c \in Discardable
    /\ row' = [row EXCEPT ![c] = [NoRow EXCEPT !.status = "discarded",
                                              !.sources = row[c].sources]]
    /\ refused' = refused \cup {c}
    /\ UNCHANGED <<memories, process, overrun, blurred, touched, dropped,
                   writes>>

-----------------------------------------------------------------------------
(* The apply: marm_apply_compaction looks at a candidate and queues the     *)
(* write, and apply_compaction_write looks again.                           *)

Applicable(c) ==
    /\ Status(c) = "summary_staged" /\ ~row[c].expired
    /\ Sound(row[c].sources, row[c].snapshot)

CheckApply(p) ==
    /\ pc[p] = "idle"
    /\ \E c \in Candidates :
          /\ Status(c) = "summary_staged"
          /\ IF Applicable(c)
             THEN Go(p, "applying", c, Nothing) /\ UNCHANGED row
             ELSE /\ row' = [row EXCEPT ![c] = Staled(c)]
                  /\ UNCHANGED process
    /\ UNCHANGED <<memories, writes, past>>

ApplyRefused(p) ==
    /\ pc[p] = "applying" /\ ~Applicable(arg[p])
    /\ row' = IF Status(arg[p]) \in {"applied", "discarded"} THEN row
              ELSE [row EXCEPT ![arg[p]] = Staled(arg[p])]
    /\ Rest(p)
    /\ UNCHANGED <<memories, writes, past>>

Apply(p) ==
    /\ pc[p] = "applying" /\ Applicable(arg[p])
    /\ LET c == arg[p]
           S == row[c].sources
       IN /\ summary' = [summary EXCEPT ![c] =
                           [made |-> @.made + 1, live |-> TRUE, lists |-> S,
                            covers |-> row[c].words]]
          /\ into' = [m \in Memories |-> IF m \in S THEN c ELSE into[m]]
          /\ row' = [row EXCEPT ![c] = [NoRow EXCEPT !.status = "applied"]]
    /\ Rest(p)
    /\ UNCHANGED <<text, writes, past>>

Review(p) ==
    \/ CheckStage(p) \/ CheckPromote(p) \/ StoreSummary(p)
    \/ CheckApply(p) \/ ApplyRefused(p) \/ Apply(p)

-----------------------------------------------------------------------------
(* Writes to the memories.                                                  *)

\* Open candidates of a memory that is replaced or deleted.
StaleFor(S) ==
    [c \in Candidates |->
       IF c \in Open /\ row[c].sources \cap S # {} THEN Staled(c) ELSE row[c]]

Counted == writes < MaxWrites /\ writes' = writes + 1

Write(m, t, hidden) ==
    /\ text' = [text EXCEPT ![m] = t]
    /\ touched' = IF hidden /\ t # text[m] THEN touched \cup {m} ELSE touched

\* find_semantic_duplicate finds what is visible, and _update_memory reads it.
Recall(p) ==
    /\ pc[p] = "idle" /\ Counted
    /\ \E m \in Memories : /\ text[m] # None /\ into[m] = None
                           /\ Go(p, "recalled", m, Nothing)
    /\ UNCHANGED <<memories, row, past>>

ReadForMerge(p) ==
    /\ pc[p] = "recalled"
    /\ IF text[arg[p]] = None THEN Rest(p)
       ELSE /\ pc' = [pc EXCEPT ![p] = "merging"]
            /\ base' = [base EXCEPT ![p] = Take({arg[p]})]
            /\ meta' = [meta EXCEPT ![p] = into[arg[p]]]
            /\ UNCHANGED <<arg, todo>>
    /\ UNCHANGED <<memories, row, writes, past>>

\* Only the content is compared.
SlipUntouched(p) == text[arg[p]] = base[p][arg[p]]

\* Neither the content nor the metadata has changed.
Untouched(p) ==
    text[arg[p]] = base[p][arg[p]] /\ into[arg[p]] = meta[p]

\* What cannot be merged is stored as a memory of its own.
Merge(p) ==
    /\ pc[p] = "merging"
    /\ IF Untouched(p)
       THEN \E t \in Texts : /\ t > text[arg[p]]
                             /\ Write(arg[p], t, meta[p] # None)
       ELSE UNCHANGED <<text, touched>>
    /\ Rest(p)
    /\ UNCHANGED <<into, summary, row, refused, overrun, blurred, dropped,
                   writes>>

\* _replace_memory leaves the columns of compaction alone.
Replace(m) ==
    /\ text[m] # None /\ Counted
    /\ \E t \in Texts : Write(m, t, into[m] # None)
    /\ row' = StaleFor({m})
    /\ UNCHANGED <<into, summary, process, refused, overrun, blurred, dropped>>

\* A summary may lose its metadata.
ReplaceSummary(c) ==
    /\ summary[c].live /\ Counted
    /\ summary' = [summary EXCEPT ![c].lists = {}]
    /\ UNCHANGED <<text, into, row, process, past>>

\* The sources of a deleted summary stay hidden.
SlipRestored(C) == {}

Restored(C) == {m \in Memories : into[m] \in C}

\* _delete_memories, of memories S and of the summaries of C.
Delete(S, C) ==
    /\ Counted
    /\ text' = [m \in Memories |-> IF m \in S THEN None ELSE text[m]]
    /\ into' = [m \in Memories |-> IF m \in S \cup Restored(C) THEN None
                                   ELSE into[m]]
    /\ summary' = [c \in Candidates |->
                     IF c \in C
                     THEN [NoSummary EXCEPT !.made = summary[c].made]
                     ELSE IF \E m \in S : into[m] = c
                     THEN [summary[c] EXCEPT !.lists = @ \ S]
                     ELSE summary[c]]
    /\ row' = StaleFor(S)
    /\ touched' = touched \ (S \cup Restored(C))
    /\ UNCHANGED <<process, refused, overrun, blurred, dropped>>

DeleteSome ==
    \E S \in SUBSET {m \in Memories : text[m] # None},
       C \in SUBSET {c \in Candidates : summary[c].live} :
          S \cup C # {} /\ Delete(S, C)

\* The memory of a log entry goes with it, and no candidate or summary is told.
DropWithLog(m) ==
    /\ text[m] # None /\ Counted
    /\ text' = [text EXCEPT ![m] = None]
    /\ into' = [into EXCEPT ![m] = None]
    /\ touched' = touched \ {m}
    /\ dropped' = IF into[m] = None THEN dropped ELSE dropped \cup {m}
    /\ UNCHANGED <<summary, row, process, refused, overrun, blurred>>

-----------------------------------------------------------------------------
Next ==
    \/ Claim \/ DeleteSome
    \/ \E p \in Processes :
          \/ Scan(p) \/ Review(p) \/ Abandon(p)
          \/ Recall(p) \/ ReadForMerge(p) \/ Merge(p)
    \/ \E c \in Candidates : Expire(c) \/ Discard(c) \/ ReplaceSummary(c)
    \/ \E m \in Memories : Replace(m) \/ DropWithLog(m)

Spec == Init /\ [][Next]_vars

-----------------------------------------------------------------------------
Statuses == {"none", "pending_summary", "nudge_exhausted", "summary_staged",
             "applied", "discarded", "stale"}
PCs == {"idle", "checking", "marking", "found", "staging", "promoting",
        "applying", "recalled", "merging"}

TypeOK ==
    /\ text \in Versions /\ into \in [Memories -> Candidates \cup {None}]
    /\ summary \in [Candidates -> [made : Nat, live : BOOLEAN,
                                   lists : SUBSET Memories,
                                   covers : Versions]]
    /\ row \in [Candidates -> [status : Statuses, sources : SUBSET Memories,
                               snapshot : Versions, words : Versions,
                               expired : BOOLEAN,
                               nudges : 0 .. MaxNudges]]
    /\ pc \in [Processes -> PCs]
    /\ arg \in [Processes -> Candidates \cup Memories \cup {None}]
    /\ base \in [Processes -> Versions]
    /\ meta \in [Processes -> Candidates \cup {None}]
    /\ todo \in [Processes -> SUBSET [row : Candidates,
                                      sources : SUBSET Memories,
                                      snapshot : Versions, old : BOOLEAN]]
    /\ writes \in 0 .. MaxWrites
    /\ refused \subseteq Candidates /\ overrun \subseteq Candidates
    /\ blurred \subseteq Candidates
    /\ touched \subseteq Memories /\ dropped \subseteq Memories

\* A memory is in one open candidate at most, however many scans run at once
\* and whichever of them is late: no second copy of a cluster is queued, and
\* none starts again with a new budget of prompts.
OneOpenCandidate ==
    \A c, d \in Open :
        c # d => row[c].sources \cap row[d].sources = {}

\* What a reviewer has rejected is not put to a reviewer again, by a scan that
\* read before the rejection least of all - unless another scan, which read
\* the row before it was discarded, has made it stale since.
RejectedStaysRejected ==
    \A c \in Open, d \in refused \ overrun :
        Cardinality(row[c].sources \cap row[d].sources) <= 1

\* No candidate is applied twice, or applied and discarded, and its row tells
\* which of them it was, unless a scan has made it stale since: a summary that
\* comes late or an apply that waited in the queue settles nothing again.
OneVerdict ==
    \A c \in Candidates :
        /\ summary[c].made <= 1
        /\ c \in refused => summary[c].made = 0
        /\ c \notin overrun =>
              /\ c \in refused <=> Status(c) = "discarded"
              /\ summary[c].made = 1 <=> Status(c) = "applied"

\* The candidates of a review: none twice, none again, none undone.
ReviewsAreFinal == OneOpenCandidate /\ RejectedStaysRejected /\ OneVerdict

\* A hidden memory has a summary that a user can find it by, and a summary
\* names no memory that is gone or free again, whatever was deleted with what:
\* sources, summaries, or both in one call. Only the deletion of a log entry
\* leaves a name behind.
SourcesHaveTheirSummary ==
    /\ \A m \in Memories : into[m] # None => summary[into[m]].live
    /\ \A c \in Candidates : summary[c].live =>
          \A m \in summary[c].lists \ dropped : into[m] = c

\* The text of a hidden memory is the one its summary was written from: no
\* merge or replacement that came before the apply is lost with it. The three
\* exceptions are a text that changed between the scan's read and the snapshot
\* the candidate was stored with, and a memory that is replaced when it is
\* hidden, or merged into because it was found before.
NothingHiddenUnread ==
    \A m \in Memories :
        into[m] # None /\ m \notin touched /\ into[m] \notin blurred
        => summary[into[m]].covers[m] = text[m]
=============================================================================
