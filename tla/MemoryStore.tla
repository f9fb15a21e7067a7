---------------------------- MODULE MemoryStore ----------------------------
(***************************************************************************)
(* The memories of a session, their chunks and the mirror of a document:   *)
(* stores, merges, replacements and mirrors (core/memory_ops.py), deletes  *)
(* (core/memory_delete.py), chunk writes (core/memory_utils.py), the       *)
(* rechunk command (utils/chunk_backfill.py), and the saves of the         *)
(* notebook, which span two databases (services/notebook.py, docs_db.py).  *)
(* A log entry's memories go as any deleted memory goes: the chunks of a   *)
(* row that is deleted are deleted with it (foreign_keys=ON, memory_db.py).*)
(*                                                                         *)
(* Every request is an actor of its own, as requests of several processes  *)
(* share the database; its transactions are its steps, and what it read    *)
(* before a transaction is in target and seen. The chunk write that it has *)
(* spawned is in task and goes on without it.                              *)
(*                                                                         *)
(* A content is the sequence of the texts merged into it; MaxLength texts  *)
(* fit. A memory never says a text as it was sent but what the sanitizer   *)
(* leaves of it, which masks, escapes, and cuts off what is past 10,000    *)
(* characters; a document is kept whole. Which texts are similar is left open. Texts that differ in case    *)
(* only have one Fold, as in compute_content_hash. Long texts are cut into *)
(* chunks, and a document into fewer of them. There is one document; its   *)
(* row in docs is doc and link. A memory id is drawn once.                 *)
(*                                                                         *)
(* The number of Requests and MaxFaults bound a behaviour. The definitions *)
(* named Slip... are plausible slips of the code, each of which breaks one *)
(* of the properties.                                                      *)
(***************************************************************************)
EXTENDS Naturals, Sequences

CONSTANTS
    Requests, Memories, Texts, Long,
    Sanitized,  \* sanitize_content, by text
    Fold, None, MaxLength, MaxFaults

ASSUME StoreAssumption ==
    /\ Sanitized \in [Texts -> Texts]
    /\ Long \subseteq Texts /\ Fold \in [Texts -> Texts]
    /\ \A t \in Texts : t \in Long <=> Fold[t] \in Long
    /\ None \notin Texts \cup Memories /\ None \notin Seq(Texts)
    /\ MaxLength \in Nat \ {0} /\ MaxFaults \in Nat

VARIABLES
    row,     \* memories
    chunk,   \* memory_chunks, by memory and position
    used,    \* ids drawn so far
    doc,     \* docs.content
    link,    \* docs.memory_id
    pc, text, target, seen,  \* of a request
    task,    \* its _write_chunks
    faults,
    origin,  \* what wrote the content of a memory
    kept,    \* the texts a store has answered with this memory
    synced,  \* a save has reported that the mirror says what doc says
    raced,   \* two saves have been under way at once
    edited   \* a user has replaced a mirror

store == <<row, chunk, used>>
docs == <<doc, link>>
request == <<pc, text, target, seen>>
past == <<origin, kept, synced, raced, edited>>
vars == <<store, docs, request, task, faults, past>>

-----------------------------------------------------------------------------
Kinds == {"plain", "doc"}    \* context_type
Contents == {c \in Seq(Texts) : Len(c) \in 1 .. MaxLength}

Normal(c) == [i \in DOMAIN c |-> Fold[c[i]]]
SameHash(c, d) == Normal(c) = Normal(d)

\* _chunk_text, with the profile of a kind
Positions == {1, 2}
Places(kind, c) ==
    IF \A i \in DOMAIN c : c[i] \notin Long THEN {}
    ELSE IF kind = "doc" THEN {1} ELSE Positions
Uncut == [i \in Positions |-> None]
Cut(kind, c, old) ==
    [i \in Positions |->
        IF i \in Places(kind, c) THEN [kind |-> kind, of |-> c] ELSE old[i]]

Live(m) == row[m] # None

\* find_exact_duplicate
Exact(t) == {m \in Memories : Live(m) /\ SameHash(row[m].content, <<t>>)}

\* uuid4: which of the ids that nobody has drawn makes no difference.
New == IF used = Memories THEN {} ELSE {CHOOSE m \in Memories : m \notin used}

Fault == faults < MaxFaults /\ faults' = faults + 1

Init ==
    /\ row = [m \in Memories |-> None] /\ chunk = [m \in Memories |-> Uncut]
    /\ used = {} /\ doc = None /\ link = None
    /\ pc = [r \in Requests |-> "none"] /\ text = [r \in Requests |-> None]
    /\ target = [r \in Requests |-> None] /\ seen = [r \in Requests |-> None]
    /\ task = [r \in Requests |-> None] /\ faults = 0
    /\ origin = [m \in Memories |-> "none"] /\ kept = [m \in Memories |-> {}]
    /\ synced = FALSE /\ raced = FALSE /\ edited = FALSE

-----------------------------------------------------------------------------
(* The parts of a request *)

Begins(r, there, t, m) ==
    /\ pc[r] = "none"
    /\ pc' = [pc EXCEPT ![r] = there]
    /\ text' = [text EXCEPT ![r] = t]
    /\ target' = [target EXCEPT ![r] = m]
    /\ UNCHANGED seen

Goes(r, there) ==
    /\ pc' = [pc EXCEPT ![r] = there]
    /\ UNCHANGED <<text, target, seen>>

Ends(r) ==
    /\ pc' = [pc EXCEPT ![r] = "done"]
    /\ text' = [text EXCEPT ![r] = None]
    /\ target' = [target EXCEPT ![r] = None]
    /\ seen' = [seen EXCEPT ![r] = None]

\* A transaction that gives a memory a content, and the chunk write after it.
Writes(r, m, new, kind) ==
    /\ row' = [row EXCEPT ![m] = new]
    /\ chunk' = [chunk EXCEPT ![m] = Uncut]
    /\ used' = used \cup {m}
    /\ task' = [task EXCEPT ![r] =
                   IF Places(kind, new.content) = {} THEN None
                   ELSE [memory |-> m, kind |-> kind, of |-> new.content,
                         clears |-> FALSE]]

\* The store is answered with m.
Keeps(m, t) == kept' = [kept EXCEPT ![m] = @ \cup {t}]

-----------------------------------------------------------------------------
(* _store_memory and _update_memory *)

\* The first look is taken without a lock.
Store(r, t) ==
    /\ LET s == Sanitized[t] IN
       IF Exact(s) = {}
       THEN Begins(r, "search", s, None) /\ UNCHANGED kept
       ELSE /\ Begins(r, "done", None, None)
            /\ \E m \in Exact(s) : Keeps(m, s)
    /\ UNCHANGED <<store, docs, task, faults, origin, synced, raced, edited>>

\* find_semantic_duplicate: what is similar enough is not said here, and it
\* finds nothing without an encoder.
Search(r) ==
    /\ pc[r] = "search"
    /\ \/ Goes(r, "insert")
       \/ \E m \in Memories :
             /\ Live(m)
             /\ pc' = [pc EXCEPT ![r] = "read"]
             /\ target' = [target EXCEPT ![r] = m]
             /\ UNCHANGED <<text, seen>>
    /\ UNCHANGED <<store, docs, task, faults, past>>

\* A merge is made whether it fits or not.
SlipFits(m) == Live(m)

\* "Refuse a merge that does not fit"
Fits(m) == Live(m) /\ Len(row[m].content) < MaxLength

Read(r) ==
    /\ pc[r] = "read"
    /\ IF Fits(target[r])
       THEN /\ pc' = [pc EXCEPT ![r] = "merge"]
            /\ seen' = [seen EXCEPT ![r] = row[target[r]]]
            /\ UNCHANGED <<text, target>>
       ELSE Goes(r, "insert")
    /\ UNCHANGED <<store, docs, task, faults, past>>

\* The content is not compared.
SlipUnread(r) == ~Live(target[r])

\* The memory is gone, or its content or metadata are not those read.
Unread(r) ==
    LET now == row[target[r]] IN
    \/ now = None
    \/ now.content # seen[r].content
    \/ <<now.doc, now.merges>> # <<seen[r].doc, seen[r].merges>>

Merge(r) ==
    /\ pc[r] = "merge"
    /\ LET m == target[r]
           new == [row[m] EXCEPT !.content = Append(seen[r].content, text[r]),
                                 !.merges = seen[r].merges + 1]
       IN IF Unread(r)
          THEN Goes(r, "insert") /\ UNCHANGED <<store, task, kept>>
          ELSE Writes(r, m, new, "plain") /\ Keeps(m, text[r]) /\ Ends(r)
    /\ UNCHANGED <<docs, faults, origin, synced, raced, edited>>

Insert(r) ==
    /\ pc[r] = "insert"
    /\ \/ /\ Exact(text[r]) # {}
          /\ \E m \in Exact(text[r]) : Keeps(m, text[r])
          /\ UNCHANGED <<store, task, origin>>
       \/ /\ Exact(text[r]) = {}
          /\ \E m \in New :
                /\ Writes(r, m, [content |-> <<text[r]>>, kind |-> "plain",
                                 doc |-> FALSE, merges |-> 0], "plain")
                /\ Keeps(m, text[r])
                /\ origin' = [origin EXCEPT ![m] = "store"]
    /\ Ends(r)
    /\ UNCHANGED <<docs, faults, synced, raced, edited>>

-----------------------------------------------------------------------------
(* _replace_memory and _delete_memories, which users ask for *)

Replace(r, m, t) ==
    /\ m \in used
    /\ Begins(r, "replace", Sanitized[t], m)
    /\ UNCHANGED <<store, docs, task, faults, past>>

\* The user sends the type and metadata of the memory back, or others.
Replaced(old, t, kind, same) ==
    [content |-> <<t>>, kind |-> kind,
     doc |-> same /\ old.doc, merges |-> IF same THEN old.merges ELSE 0]

\* The chunk write is left out when the content is what it was.
SlipReplaceRow(r) ==
    /\ pc[r] = "replace"
    /\ LET m == target[r] IN
       IF Live(m)
       THEN \E same \in BOOLEAN, kind \in Kinds :
               LET new == Replaced(row[m], text[r], kind, same) IN
               /\ row' = [row EXCEPT ![m] = new]
               /\ chunk' = [chunk EXCEPT ![m] = Uncut]
               /\ task' = [task EXCEPT ![r] =
                     IF row[m].content = new.content THEN None
                     ELSE [memory |-> m, kind |-> "plain", of |-> new.content,
                           clears |-> FALSE]]
               /\ kept' = [kept EXCEPT ![m] = {}]
               /\ origin' = [origin EXCEPT ![m] = "user"]
               /\ UNCHANGED used
               /\ edited' = (edited \/ row[m].doc)
       ELSE UNCHANGED <<store, task, kept, origin, edited>>
    /\ Ends(r)
    /\ UNCHANGED <<docs, faults, synced, raced>>

ReplaceRow(r) ==
    /\ pc[r] = "replace"
    /\ LET m == target[r] IN
       IF Live(m)
       THEN \E same \in BOOLEAN, kind \in Kinds :
               /\ Writes(r, m, Replaced(row[m], text[r], kind, same), "plain")
               /\ kept' = [kept EXCEPT ![m] = {}]
               /\ origin' = [origin EXCEPT ![m] = "user"]
               /\ edited' = (edited \/ row[m].doc)
       ELSE UNCHANGED <<store, task, kept, origin, edited>>
    /\ Ends(r)
    /\ UNCHANGED <<docs, faults, synced, raced>>

Delete(r, m) ==
    /\ Live(m)
    /\ Begins(r, "done", None, None)
    /\ row' = [row EXCEPT ![m] = None]
    /\ chunk' = [chunk EXCEPT ![m] = Uncut]
    /\ kept' = [kept EXCEPT ![m] = {}]
    /\ origin' = [origin EXCEPT ![m] = "none"]
    /\ UNCHANGED <<used, docs, task, faults, synced, raced, edited>>

-----------------------------------------------------------------------------
(* _save and _store_doc_mirror *)

Saving(r) == pc[r] \in {"mirror", "link"}

\* save_doc: the old mirror stays linked.
Save(r, t) ==
    /\ Begins(r, "mirror", t, link)
    /\ doc' = t
    /\ synced' = FALSE
    /\ raced' = (raced \/ \E s \in Requests : Saving(s))
    /\ UNCHANGED <<store, link, task, faults, origin, kept, edited>>

\* An orphan is not looked for.
SlipMirrors(r) ==
    IF target[r] # None /\ Live(target[r]) THEN {target[r]}
    ELSE New

\* The row that the caller names, or else the one with the id of the document,
\* or else a new one.
Mirrors(r) ==
    LET orphans == {m \in Memories : Live(m) /\ row[m].kind = "doc"
                                             /\ row[m].doc} IN
    IF target[r] # None /\ Live(target[r]) THEN {target[r]}
    ELSE IF orphans # {} THEN orphans
    ELSE New

Mirror(r) ==
    /\ pc[r] = "mirror"
    /\ \E m \in Mirrors(r) :
          /\ Writes(r, m, [content |-> <<Sanitized[text[r]]>>,
                           kind |-> "doc", doc |-> TRUE, merges |-> 0], "doc")
          /\ origin' = [origin EXCEPT ![m] = "doc"]
          /\ target' = [target EXCEPT ![r] = m]
    /\ pc' = [pc EXCEPT ![r] = "link"]
    /\ UNCHANGED <<text, seen, docs, faults, kept, synced, raced, edited>>

\* set_memory_id
LinkDoc(r) ==
    /\ pc[r] = "link"
    /\ link' = target[r]
    /\ synced' = TRUE
    /\ Ends(r)
    /\ UNCHANGED <<store, doc, task, faults, origin, kept, raced, edited>>

\* mirror_status = "pending": the mirror or its link could not be written.
LeavePending(r) ==
    /\ Saving(r)
    /\ Fault
    /\ Ends(r)
    /\ UNCHANGED <<store, docs, task, past>>

-----------------------------------------------------------------------------
(* _write_chunks and rechunk_memories *)

\* _plan: what is stored is not what the row's profile asks for.
Plan(r, m) ==
    /\ Live(m)
    /\ Cut(row[m].kind, row[m].content, Uncut) # chunk[m]
    /\ Begins(r, "done", None, None)
    /\ task' = [task EXCEPT ![r] =
                   [memory |-> m, kind |-> row[m].kind,
                    of |-> row[m].content, clears |-> TRUE]]
    /\ UNCHANGED <<store, docs, faults, past>>

\* The memory exists.
SlipCurrent(k) == Live(k.memory)

\* The hash is that of the content that was cut.
Current(k) ==
    Live(k.memory) /\ SameHash(row[k.memory].content, k.of)

\* _apply deletes what is there first; _write_chunks replaces by position.
Before(k) == IF k.clears THEN Uncut ELSE chunk[k.memory]

WriteChunks(r) ==
    /\ task[r] # None
    /\ LET k == task[r] IN
       chunk' = IF Current(k)
                THEN [chunk EXCEPT ![k.memory] = Cut(k.kind, k.of, Before(k))]
                ELSE chunk
    /\ task' = [task EXCEPT ![r] = None]
    /\ UNCHANGED <<row, used, docs, request, faults, past>>

\* An encoder that fails, a database that stays locked.
LoseChunks(r) ==
    /\ task[r] # None
    /\ Fault
    /\ task' = [task EXCEPT ![r] = None]
    /\ UNCHANGED <<store, docs, request, past>>

\* A process ends with its requests and chunk writes, or after a drain of the
\* latter that was too short.
Crash(R) ==
    /\ Fault
    /\ pc' = [r \in Requests |->
                 IF r \in R /\ pc[r] # "none" THEN "done" ELSE pc[r]]
    /\ text' = [r \in Requests |-> IF r \in R THEN None ELSE text[r]]
    /\ target' = [r \in Requests |-> IF r \in R THEN None ELSE target[r]]
    /\ seen' = [r \in Requests |-> IF r \in R THEN None ELSE seen[r]]
    /\ task' = [r \in Requests |-> IF r \in R THEN None ELSE task[r]]
    /\ UNCHANGED <<store, docs, past>>

-----------------------------------------------------------------------------
Step(r) ==
    \/ Search(r) \/ Read(r) \/ Merge(r) \/ Insert(r) \/ ReplaceRow(r)
    \/ Mirror(r) \/ LinkDoc(r)

Ask(r) ==
    \/ \E t \in Texts : Store(r, t) \/ Save(r, t)
    \/ \E t \in Texts, m \in Memories : Replace(r, m, t)
    \/ \E m \in Memories : Delete(r, m) \/ Plan(r, m)

Next ==
    \/ \E r \in Requests :
          \/ Ask(r) \/ Step(r) \/ WriteChunks(r)
          \/ LeavePending(r) \/ LoseChunks(r)
    \/ \E R \in SUBSET Requests : Crash(R)

Spec == Init /\ [][Next]_vars

\* Some request or chunk write goes on while there is one that can: each has
\* a few steps only, so that no more is needed. Nothing says that requests are
\* made.
FairSpec == Spec /\ WF_vars(\E r \in Requests : Step(r) \/ WriteChunks(r))

-----------------------------------------------------------------------------
Rows == [content : Contents, kind : Kinds, doc : BOOLEAN, merges : Nat]
Cuts == [kind : Kinds, of : Contents]
Tasks == [memory : Memories, kind : Kinds, of : Contents, clears : BOOLEAN]

TypeOK ==
    /\ row \in [Memories -> Rows \cup {None}]
    /\ chunk \in [Memories -> [Positions -> Cuts \cup {None}]]
    /\ used \subseteq Memories
    /\ doc \in Texts \cup {None} /\ link \in Memories \cup {None}
    /\ pc \in [Requests -> {"none", "search", "read", "merge", "insert",
                            "replace", "mirror", "link", "done"}]
    /\ text \in [Requests -> Texts \cup {None}]
    /\ target \in [Requests -> Memories \cup {None}]
    /\ seen \in [Requests -> Rows \cup {None}]
    /\ task \in [Requests -> Tasks \cup {None}]
    /\ faults \in 0 .. MaxFaults
    /\ origin \in [Memories -> {"none", "store", "user", "doc"}]
    /\ kept \in [Memories -> SUBSET Texts]
    /\ synced \in BOOLEAN /\ raced \in BOOLEAN /\ edited \in BOOLEAN

\* Recall never finds a memory by what it said before: a chunk that is stored
\* was cut from the content of its memory, of whichever of its writers, and
\* none outlives it. The hash that is compared knows no case.
ChunksFollowContent ==
    \A m \in Memories, i \in Positions :
        chunk[m][i] # None =>
            Live(m) /\ SameHash(chunk[m][i].of, row[m].content)

\* "consolidation exists to avoid a duplicate row, never to destroy text"
\* (_update_memory): the memory that a store was answered with says what the
\* sanitizer left of its text until a user replaces or deletes it. The mirror
\* of a document is no such memory: the next save overwrites what was merged
\* into it.
StoredIsKept ==
    \A m \in Memories : Live(m) /\ ~row[m].doc =>
        \A t \in kept[m] :
            \E i \in DOMAIN row[m].content :
                Fold[row[m].content[i]] = Fold[t]

\* Two stores of one text make one memory, however they overlap.
StoredOnce ==
    \A m, n \in Memories :
        /\ Live(m) /\ origin[m] = "store" /\ row[m].merges = 0
        /\ Live(n) /\ origin[n] = "store" /\ row[n].merges = 0
        /\ SameHash(row[m].content, row[n].content)
        => m = n

StoresKeepTheirWord == StoredIsKept /\ StoredOnce

\* A save that reports mirror_status = "synced" has linked a mirror that says
\* what the sanitizer leaves of the document (of a long one, its first 10,000
\* characters) until a user edits it, and there is no second one, whatever
\* crashed or failed before and whoever deleted mirrors. Two saves that overlap
\* may break both: the first to write the document may write the mirror last.
\* A mirror whose type a user has changed is not found again.
MirrorFollowsDoc ==
    ~raced =>
        /\ synced => /\ link # None
                     /\ Live(link) /\ origin[link] = "doc" =>
                            row[link].content[1] = Sanitized[doc]
        /\ ~edited => \A m, n \in Memories :
              Live(m) /\ row[m].doc /\ Live(n) /\ row[n].doc => m = n

\* Every request comes to its end, and in the end, unless a chunk write was
\* lost, every long memory has chunks, whichever write came last.
ChunkedInTheEnd ==
    <>[](/\ \A r \in Requests : pc[r] \in {"none", "done"}
         /\ faults = 0 => \A m \in Memories :
               Live(m) /\ Places(row[m].kind, row[m].content) # {} =>
                   chunk[m] # Uncut)
=============================================================================
