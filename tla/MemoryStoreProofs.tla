------------------------- MODULE MemoryStoreProofs -------------------------
(***************************************************************************)
(* What holds of any number of requests, memories, texts and faults:       *)
(* types, chunks that follow their memory, stores that keep their word and *)
(* a mirror that follows its document.                                     *)
(***************************************************************************)
EXTENDS MemoryStore, TLAPS

-----------------------------------------------------------------------------
(* Types, and what a request knows at each place *)

Asked(r) == pc[r] \notin {"none", "done"} => text[r] \in Texts

Aimed(r) ==
    pc[r] \in {"read", "merge", "replace", "link"} => target[r] \in Memories

Knows(r) ==
    pc[r] = "merge" =>
        seen[r] \in Rows /\ Len(seen[r].content) < MaxLength

TypeInv == TypeOK /\ \A r \in Requests : Asked(r) /\ Aimed(r) /\ Knows(r)

\* A text is a content, and one more fits below MaxLength.
LEMMA ContentOfText ==
  /\ \A t \in Texts : <<t>> \in Contents
  /\ \A c \in Contents, t \in Texts :
        Len(c) < MaxLength => Append(c, t) \in Contents
BY StoreAssumption DEF Contents

\* What the sanitizer leaves is a text.
LEMMA SanitizedType == \A t \in Texts : Sanitized[t] \in Texts
BY StoreAssumption

\* What is drawn is an id that nobody has.
LEMMA Drawn == ASSUME used \subseteq Memories PROVE New \subseteq Memories \ used
BY DEF New

\* What is cut from a content is a cut of it, at the positions there are.
LEMMA CutType ==
  ASSUME NEW kind \in Kinds, NEW c \in Contents,
         NEW old \in [Positions -> Cuts \cup {None}]
  PROVE  Cut(kind, c, old) \in [Positions -> Cuts \cup {None}]
BY DEF Cut, Cuts

LEMMA UncutType == Uncut \in [Positions -> Cuts \cup {None}]
BY DEF Uncut

LEMMA TypeInit == Init => TypeInv
<1> SUFFICES ASSUME Init PROVE TypeInv
  OBVIOUS
<1>1. row \in [Memories -> Rows \cup {None}] /\ used \subseteq Memories
  BY DEF Init
<1>2. chunk \in [Memories -> [Positions -> Cuts \cup {None}]]
  BY UncutType DEF Init
<1>3. /\ doc \in Texts \cup {None} /\ link \in Memories \cup {None}
      /\ pc \in [Requests -> {"none", "search", "read", "merge", "insert",
                              "replace", "mirror", "link", "done"}]
      /\ text \in [Requests -> Texts \cup {None}]
      /\ target \in [Requests -> Memories \cup {None}]
      /\ seen \in [Requests -> Rows \cup {None}]
      /\ task \in [Requests -> Tasks \cup {None}]
  BY DEF Init
<1>4. faults \in 0 .. MaxFaults
  BY StoreAssumption DEF Init
<1>5. /\ origin \in [Memories -> {"none", "store", "user", "doc"}]
      /\ kept \in [Memories -> SUBSET Texts]
      /\ synced \in BOOLEAN /\ raced \in BOOLEAN /\ edited \in BOOLEAN
  BY DEF Init
<1>6. \A r \in Requests : pc[r] = "none"
  BY DEF Init
<1>. QED BY <1>1, <1>2, <1>3, <1>4, <1>5, <1>6
         DEF TypeInv, TypeOK, Asked, Aimed, Knows

-----------------------------------------------------------------------------
(* The parts of the state that an action changes or leaves alone *)

Targeted == {"read", "merge", "replace", "link"}
Programs == {"none", "search", "read", "merge", "insert", "replace",
             "mirror", "link", "done"}

RequestTyped ==
    /\ pc \in [Requests -> Programs]
    /\ text \in [Requests -> Texts \cup {None}]
    /\ target \in [Requests -> Memories \cup {None}]
    /\ seen \in [Requests -> Rows \cup {None}]
    /\ \A r \in Requests : Asked(r) /\ Aimed(r) /\ Knows(r)

StoreTyped ==
    /\ row \in [Memories -> Rows \cup {None}]
    /\ chunk \in [Memories -> [Positions -> Cuts \cup {None}]]
    /\ used \subseteq Memories

TaskTyped == task \in [Requests -> Tasks \cup {None}]

DocsTyped == doc \in Texts \cup {None} /\ link \in Memories \cup {None}

PastTyped ==
    /\ origin \in [Memories -> {"none", "store", "user", "doc"}]
    /\ kept \in [Memories -> SUBSET Texts]
    /\ synced \in BOOLEAN /\ raced \in BOOLEAN /\ edited \in BOOLEAN

FaultsTyped == faults \in 0 .. MaxFaults

LEMMA Parts ==
  TypeInv <=> /\ RequestTyped /\ StoreTyped /\ TaskTyped /\ DocsTyped
              /\ PastTyped /\ FaultsTyped
BY DEF TypeInv, TypeOK, RequestTyped, StoreTyped, TaskTyped, DocsTyped,
       PastTyped, FaultsTyped, Programs

LEMMA PartsNext ==
  ASSUME RequestTyped', StoreTyped', TaskTyped', DocsTyped', PastTyped',
         FaultsTyped'
  PROVE  TypeInv'
BY DEF TypeInv, TypeOK, RequestTyped, StoreTyped, TaskTyped, DocsTyped,
       PastTyped, FaultsTyped, Programs

\* A request that begins has what it needs where it begins.
LEMMA BeginsTyped ==
  ASSUME RequestTyped, NEW r \in Requests, NEW there \in Programs \ {"merge"},
         NEW t \in Texts \cup {None}, NEW m \in Memories \cup {None},
         there \notin {"none", "done"} => t \in Texts,
         there \in Targeted => m \in Memories,
         Begins(r, there, t, m)
  PROVE  RequestTyped'
BY DEF RequestTyped, Begins, Asked, Aimed, Knows, Programs, Targeted

\* A request that goes on keeps its text, and its target where it needs one.
LEMMA GoesTyped ==
  ASSUME RequestTyped, NEW r \in Requests, NEW there \in Programs \ {"merge"},
         there \notin Targeted, text[r] \in Texts, Goes(r, there)
  PROVE  RequestTyped'
BY DEF RequestTyped, Goes, Asked, Aimed, Knows, Programs, Targeted

LEMMA EndsTyped ==
  ASSUME RequestTyped, NEW r \in Requests, Ends(r)
  PROVE  RequestTyped'
BY DEF RequestTyped, Ends, Asked, Aimed, Knows, Programs

LEMMA FaultTyped == ASSUME FaultsTyped, Fault PROVE FaultsTyped'
BY StoreAssumption DEF FaultsTyped, Fault

LEMMA RequestStays ==
  ASSUME RequestTyped, UNCHANGED request PROVE RequestTyped'
BY DEF RequestTyped, request, Asked, Aimed, Knows

LEMMA StoreStays == ASSUME StoreTyped, UNCHANGED store PROVE StoreTyped'
BY DEF StoreTyped, store

LEMMA TaskStays == ASSUME TaskTyped, UNCHANGED task PROVE TaskTyped'
BY DEF TaskTyped

LEMMA DocsStay == ASSUME DocsTyped, UNCHANGED docs PROVE DocsTyped'
BY DEF DocsTyped, docs

LEMMA PastStays == ASSUME PastTyped, UNCHANGED past PROVE PastTyped'
BY DEF PastTyped, past

LEMMA FaultsStay == ASSUME FaultsTyped, UNCHANGED faults PROVE FaultsTyped'
BY DEF FaultsTyped

\* A transaction that gives a memory a content keeps the types of the store.
LEMMA WritesTyped ==
  ASSUME StoreTyped, TaskTyped, NEW r \in Requests, NEW m \in Memories,
         NEW new \in Rows, NEW kind \in Kinds, Writes(r, m, new, kind)
  PROVE  StoreTyped' /\ TaskTyped'
<1>1. new.content \in Contents
  BY DEF Rows
<1>2. [memory |-> m, kind |-> kind, of |-> new.content, clears |-> FALSE]
          \in Tasks
  BY <1>1 DEF Tasks
<1>. QED BY <1>2, UncutType DEF StoreTyped, TaskTyped, Writes

LEMMA KeepsTyped ==
  ASSUME PastTyped, NEW m \in Memories, NEW t \in Texts, Keeps(m, t)
  PROVE  kept' \in [Memories -> SUBSET Texts]
BY DEF PastTyped, Keeps

-----------------------------------------------------------------------------
(* Every action keeps the types *)

LEMMA StoreTypes ==
  ASSUME TypeInv, NEW r \in Requests, NEW t \in Texts, Store(r, t)
  PROVE  TypeInv'
<1>. DEFINE s == Sanitized[t]
<1>0. s \in Texts
  BY SanitizedType
<1>1. RequestTyped'
  <2>1. CASE Exact(s) = {}
    BY <2>1, <1>0, Parts, BeginsTyped DEF Store, Programs, Targeted
  <2>2. CASE Exact(s) # {}
    BY <2>2, Parts, BeginsTyped DEF Store, Programs, Targeted
  <2>. QED BY <2>1, <2>2
<1>2. PastTyped'
  <2>1. CASE Exact(s) = {}
    BY <2>1, Parts DEF Store, PastTyped
  <2>2. CASE Exact(s) # {}
    <3>1. PICK m \in Exact(s) : Keeps(m, s)
      BY <2>2 DEF Store
    <3>2. kept' \in [Memories -> SUBSET Texts]
      BY <1>0, <3>1, Parts, KeepsTyped DEF Exact
    <3>. QED BY <3>2, Parts DEF Store, PastTyped
  <2>. QED BY <2>1, <2>2
<1>. QED BY <1>1, <1>2, Parts, PartsNext, StoreStays, TaskStays, DocsStay, FaultsStay
         DEF Store

LEMMA SearchTypes ==
  ASSUME TypeInv, NEW r \in Requests, Search(r) PROVE TypeInv'
<1>1. RequestTyped'
  <2>1. CASE Goes(r, "insert")
    BY <2>1, Parts, GoesTyped DEF Search, Programs, Targeted, RequestTyped, Asked
  <2>2. CASE ~Goes(r, "insert")
    BY <2>2, Parts DEF Search, RequestTyped, Asked, Aimed, Knows, Programs
  <2>. QED BY <2>1, <2>2
<1>. QED BY <1>1, Parts, PartsNext, StoreStays, TaskStays, DocsStay, PastStays, FaultsStay
         DEF Search

LEMMA ReadTypes ==
  ASSUME TypeInv, NEW r \in Requests, Read(r) PROVE TypeInv'
<1>1. RequestTyped'
  <2>1. CASE Fits(target[r])
    <3>1. target[r] \in Memories /\ row[target[r]] \in Rows
      BY <2>1, Parts DEF Read, Fits, Live, RequestTyped, StoreTyped, Aimed
    <3>. QED BY <2>1, <3>1, Parts
             DEF Read, Fits, RequestTyped, Asked, Aimed, Knows, Programs
  <2>2. CASE ~Fits(target[r])
    BY <2>2, Parts, GoesTyped DEF Read, Programs, Targeted, RequestTyped, Asked
  <2>. QED BY <2>1, <2>2
<1>. QED BY <1>1, Parts, PartsNext, StoreStays, TaskStays, DocsStay, PastStays, FaultsStay
         DEF Read

\* A merge makes a row of the one it read and the text it adds.
LEMMA Merged ==
  ASSUME TypeInv, NEW r \in Requests, pc[r] = "merge", ~Unread(r)
  PROVE  /\ target[r] \in Memories /\ row[target[r]] \in Rows
         /\ seen[r] \in Rows /\ text[r] \in Texts
         /\ row[target[r]].content = seen[r].content
         /\ row[target[r]].doc = seen[r].doc
         /\ [row[target[r]] EXCEPT
                !.content = Append(seen[r].content, text[r]),
                !.merges = seen[r].merges + 1] \in Rows
<1>1. target[r] \in Memories /\ seen[r] \in Rows /\ text[r] \in Texts
      /\ Len(seen[r].content) < MaxLength
  BY Parts DEF RequestTyped, Asked, Aimed, Knows
<1>2. row[target[r]] \in Rows
  BY <1>1, Parts DEF Unread, StoreTyped
<1>3. Append(seen[r].content, text[r]) \in Contents /\ seen[r].merges + 1 \in Nat
  BY <1>1, ContentOfText DEF Rows
<1>. QED BY <1>1, <1>2, <1>3 DEF Rows, Unread

LEMMA MergeTypes ==
  ASSUME TypeInv, NEW r \in Requests, Merge(r) PROVE TypeInv'
<1>1. CASE Unread(r)
  <2>1. RequestTyped'
    BY <1>1, Parts, GoesTyped DEF Merge, Programs, Targeted, RequestTyped, Asked
  <2>. QED BY <1>1, <2>1, Parts, PartsNext, StoreStays, TaskStays, DocsStay, FaultsStay
           DEF Merge, PastTyped
<1>2. CASE ~Unread(r)
  <2>. DEFINE new == [row[target[r]] EXCEPT
                         !.content = Append(seen[r].content, text[r]),
                         !.merges = seen[r].merges + 1]
  <2>1. /\ Writes(r, target[r], new, "plain") /\ Keeps(target[r], text[r])
        /\ Ends(r) /\ UNCHANGED <<docs, faults, origin, synced, raced, edited>>
    BY <1>2 DEF Merge
  <2>2. target[r] \in Memories /\ text[r] \in Texts /\ new \in Rows
    BY <1>2, Merged DEF Merge
  <2>3. StoreTyped' /\ TaskTyped'
    BY <2>1, <2>2, Parts, WritesTyped DEF Kinds
  <2>4. PastTyped'
    BY <2>1, <2>2, Parts, KeepsTyped DEF PastTyped
  <2>. QED BY <2>1, <2>3, <2>4, Parts, PartsNext, EndsTyped, DocsStay, FaultsStay
<1>. QED BY <1>1, <1>2

LEMMA InsertTypes ==
  ASSUME TypeInv, NEW r \in Requests, Insert(r) PROVE TypeInv'
<1>1. RequestTyped'
  BY Parts, EndsTyped DEF Insert
<1>2. text[r] \in Texts
  BY Parts DEF Insert, RequestTyped, Asked
<1>3. CASE Exact(text[r]) # {}
  <2>1. PICK m \in Exact(text[r]) : Keeps(m, text[r])
    BY <1>3 DEF Insert
  <2>2. PastTyped'
    BY <1>2, <1>3, <2>1, Parts, KeepsTyped DEF Insert, PastTyped, Exact
  <2>. QED BY <1>1, <1>3, <2>2, Parts, PartsNext, StoreStays, TaskStays,
              DocsStay, FaultsStay DEF Insert
<1>4. CASE Exact(text[r]) = {}
  <2>. DEFINE new == [content |-> <<text[r]>>, kind |-> "plain",
                      doc |-> FALSE, merges |-> 0]
  <2>1. PICK m \in New : /\ Writes(r, m, new, "plain") /\ Keeps(m, text[r])
                         /\ origin' = [origin EXCEPT ![m] = "store"]
    BY <1>4 DEF Insert
  <2>2. m \in Memories
    BY Drawn, Parts DEF StoreTyped
  <2>3. new \in Rows
    BY <1>2, ContentOfText DEF Rows, Kinds
  <2>4. StoreTyped' /\ TaskTyped'
    BY <2>1, <2>2, <2>3, Parts, WritesTyped DEF Kinds
  <2>5. PastTyped'
    BY <1>2, <2>1, <2>2, Parts, KeepsTyped DEF Insert, PastTyped
  <2>. QED BY <1>1, <2>4, <2>5, Parts, PartsNext, DocsStay, FaultsStay
           DEF Insert
<1>. QED BY <1>3, <1>4

LEMMA ReplaceTypes ==
  ASSUME TypeInv, NEW r \in Requests, NEW m \in Memories, NEW t \in Texts,
         Replace(r, m, t)
  PROVE  TypeInv'
<1>1. RequestTyped'
  BY Parts, SanitizedType, BeginsTyped DEF Replace, Programs
<1>. QED BY <1>1, Parts, PartsNext, StoreStays, TaskStays, DocsStay, PastStays,
            FaultsStay DEF Replace

LEMMA ReplacedType ==
  ASSUME NEW old \in Rows, NEW t \in Texts, NEW kind \in Kinds,
         NEW same \in BOOLEAN
  PROVE  Replaced(old, t, kind, same) \in Rows
BY ContentOfText DEF Replaced, Rows

LEMMA ReplaceRowTypes ==
  ASSUME TypeInv, NEW r \in Requests, ReplaceRow(r) PROVE TypeInv'
<1>1. RequestTyped'
  BY Parts, EndsTyped DEF ReplaceRow
<1>2. text[r] \in Texts /\ target[r] \in Memories
  BY Parts DEF ReplaceRow, RequestTyped, Asked, Aimed
<1>3. CASE Live(target[r])
  <2>. DEFINE m == target[r]
  <2>1. row[m] \in Rows
    BY <1>2, <1>3, Parts DEF Live, StoreTyped
  <2>2. PICK same \in BOOLEAN, kind \in Kinds :
           /\ Writes(r, m, Replaced(row[m], text[r], kind, same), "plain")
           /\ kept' = [kept EXCEPT ![m] = {}]
           /\ origin' = [origin EXCEPT ![m] = "user"]
           /\ edited' = (edited \/ row[m].doc)
    BY <1>3 DEF ReplaceRow
  <2>3. Replaced(row[m], text[r], kind, same) \in Rows
    BY <1>2, <2>1, ReplacedType
  <2>4. StoreTyped' /\ TaskTyped'
    BY <1>2, <2>2, <2>3, Parts, WritesTyped DEF Kinds
  <2>5. row[m].doc \in BOOLEAN
    BY <2>1 DEF Rows
  <2>6. PastTyped'
    BY <1>2, <2>2, <2>5, Parts DEF ReplaceRow, PastTyped
  <2>. QED BY <1>1, <2>4, <2>6, Parts, PartsNext, DocsStay, FaultsStay
           DEF ReplaceRow
<1>4. CASE ~Live(target[r])
  BY <1>1, <1>4, Parts, PartsNext, StoreStays, TaskStays, DocsStay, FaultsStay
     DEF ReplaceRow, PastTyped
<1>. QED BY <1>3, <1>4

LEMMA DeleteTypes ==
  ASSUME TypeInv, NEW r \in Requests, NEW m \in Memories, Delete(r, m)
  PROVE  TypeInv'
<1>1. RequestTyped'
  BY Parts, BeginsTyped DEF Delete, Programs, Targeted
<1>2. StoreTyped' /\ PastTyped'
  BY Parts, UncutType DEF Delete, StoreTyped, PastTyped
<1>. QED BY <1>1, <1>2, Parts, PartsNext, TaskStays, DocsStay, FaultsStay
         DEF Delete

LEMMA SaveTypes ==
  ASSUME TypeInv, NEW r \in Requests, NEW t \in Texts, Save(r, t)
  PROVE  TypeInv'
<1>1. RequestTyped'
  BY Parts, BeginsTyped DEF Save, Programs, Targeted, DocsTyped
<1>2. DocsTyped' /\ PastTyped'
  BY Parts DEF Save, DocsTyped, PastTyped
<1>. QED BY <1>1, <1>2, Parts, PartsNext, StoreStays, TaskStays, FaultsStay
         DEF Save

LEMMA MirrorsType == ASSUME StoreTyped, RequestTyped, NEW r \in Requests
                     PROVE  Mirrors(r) \subseteq Memories
<1>1. target[r] # None => target[r] \in Memories
  BY DEF RequestTyped
<1>. QED BY <1>1, Drawn DEF Mirrors, StoreTyped

LEMMA MirrorTypes ==
  ASSUME TypeInv, NEW r \in Requests, Mirror(r) PROVE TypeInv'
<1>. DEFINE new == [content |-> <<Sanitized[text[r]]>>, kind |-> "doc",
                    doc |-> TRUE, merges |-> 0]
<1>1. PICK m \in Mirrors(r) : /\ Writes(r, m, new, "doc")
                              /\ origin' = [origin EXCEPT ![m] = "doc"]
                              /\ target' = [target EXCEPT ![r] = m]
  BY DEF Mirror
<1>2. m \in Memories
  BY Parts, MirrorsType
<1>3. text[r] \in Texts
  BY Parts DEF Mirror, RequestTyped, Asked
<1>4. new \in Rows
  BY <1>3, SanitizedType, ContentOfText DEF Rows, Kinds
<1>5. StoreTyped' /\ TaskTyped'
  BY <1>1, <1>2, <1>4, Parts, WritesTyped DEF Kinds
<1>6. RequestTyped'
  BY <1>1, <1>2, <1>3, Parts
     DEF Mirror, RequestTyped, Asked, Aimed, Knows, Programs
<1>7. PastTyped'
  BY <1>1, <1>2, Parts DEF Mirror, PastTyped
<1>. QED BY <1>5, <1>6, <1>7, Parts, PartsNext, DocsStay, FaultsStay
         DEF Mirror

LEMMA LinkDocTypes ==
  ASSUME TypeInv, NEW r \in Requests, LinkDoc(r) PROVE TypeInv'
<1>1. RequestTyped'
  BY Parts, EndsTyped DEF LinkDoc
<1>2. DocsTyped' /\ PastTyped'
  BY Parts DEF LinkDoc, DocsTyped, PastTyped, RequestTyped
<1>. QED BY <1>1, <1>2, Parts, PartsNext, StoreStays, TaskStays, FaultsStay
         DEF LinkDoc

LEMMA LeavePendingTypes ==
  ASSUME TypeInv, NEW r \in Requests, LeavePending(r) PROVE TypeInv'
<1>1. RequestTyped'
  BY Parts, EndsTyped DEF LeavePending
<1>. QED BY <1>1, Parts, PartsNext, StoreStays, TaskStays, DocsStay, PastStays,
            FaultTyped DEF LeavePending

LEMMA PlanTypes ==
  ASSUME TypeInv, NEW r \in Requests, NEW m \in Memories, Plan(r, m)
  PROVE  TypeInv'
<1>1. RequestTyped'
  BY Parts, BeginsTyped DEF Plan, Programs, Targeted
<1>2. row[m] \in Rows
  BY Parts DEF Plan, Live, StoreTyped
<1>3. [memory |-> m, kind |-> row[m].kind, of |-> row[m].content,
       clears |-> TRUE] \in Tasks
  BY <1>2 DEF Tasks, Rows
<1>4. TaskTyped'
  BY <1>3, Parts DEF Plan, TaskTyped
<1>. QED BY <1>1, <1>4, Parts, PartsNext, StoreStays, DocsStay, PastStays,
            FaultsStay DEF Plan

LEMMA WriteChunksTypes ==
  ASSUME TypeInv, NEW r \in Requests, WriteChunks(r) PROVE TypeInv'
<1>. DEFINE k == task[r]
<1>1. k \in Tasks
  BY Parts DEF WriteChunks, TaskTyped
<1>2. Before(k) \in [Positions -> Cuts \cup {None}]
  BY <1>1, UncutType, Parts DEF Before, Tasks, StoreTyped
<1>3. Cut(k.kind, k.of, Before(k)) \in [Positions -> Cuts \cup {None}]
  BY <1>1, <1>2, CutType DEF Tasks
<1>4. StoreTyped'
  BY <1>3, Parts DEF WriteChunks, StoreTyped
<1>5. TaskTyped'
  BY Parts DEF WriteChunks, TaskTyped
<1>. QED BY <1>4, <1>5, Parts, PartsNext, RequestStays, DocsStay, PastStays,
            FaultsStay DEF WriteChunks

LEMMA LoseChunksTypes ==
  ASSUME TypeInv, NEW r \in Requests, LoseChunks(r) PROVE TypeInv'
<1>1. TaskTyped'
  BY Parts DEF LoseChunks, TaskTyped
<1>. QED BY <1>1, Parts, PartsNext, RequestStays, StoreStays, DocsStay,
            PastStays, FaultTyped DEF LoseChunks

LEMMA CrashTypes ==
  ASSUME TypeInv, NEW R \in SUBSET Requests, Crash(R) PROVE TypeInv'
<1>1. RequestTyped'
  BY Parts DEF Crash, RequestTyped, Asked, Aimed, Knows, Programs
<1>2. TaskTyped'
  BY Parts DEF Crash, TaskTyped
<1>. QED BY <1>1, <1>2, Parts, PartsNext, StoreStays, DocsStay, PastStays,
            FaultTyped DEF Crash

LEMMA StutterTypes == ASSUME TypeInv, UNCHANGED vars PROVE TypeInv'
BY Parts, PartsNext, RequestStays, StoreStays, TaskStays, DocsStay, PastStays,
   FaultsStay DEF vars

LEMMA TypeStep == TypeInv /\ [Next]_vars => TypeInv'
<1>. SUFFICES ASSUME TypeInv, [Next]_vars PROVE TypeInv'
  OBVIOUS
<1>1. CASE UNCHANGED vars
  BY <1>1, StutterTypes
<1>2. ASSUME NEW r \in Requests, Ask(r) PROVE TypeInv'
  BY <1>2, StoreTypes, SaveTypes, ReplaceTypes, DeleteTypes, PlanTypes DEF Ask
<1>3. ASSUME NEW r \in Requests, Step(r) PROVE TypeInv'
  BY <1>3, SearchTypes, ReadTypes, MergeTypes, InsertTypes, ReplaceRowTypes,
     MirrorTypes, LinkDocTypes DEF Step
<1>4. ASSUME NEW r \in Requests,
             WriteChunks(r) \/ LeavePending(r) \/ LoseChunks(r)
      PROVE  TypeInv'
  BY <1>4, WriteChunksTypes, LeavePendingTypes, LoseChunksTypes
<1>5. ASSUME NEW R \in SUBSET Requests, Crash(R) PROVE TypeInv'
  BY <1>5, CrashTypes
<1>. QED BY <1>1, <1>2, <1>3, <1>4, <1>5 DEF Next

LEMMA TypesAlways == Spec => []TypeInv
BY TypeInit, TypeStep, PTL DEF Spec

\* Requests, rows, chunks and tasks are what they should be, and a content
\* never grows past what fits.
THEOREM TypeCorrect == Spec => []TypeOK
<1>1. TypeInv => TypeOK
  BY DEF TypeInv
<1>. QED BY <1>1, TypesAlways, PTL

-----------------------------------------------------------------------------
(* Chunks follow their memory *)

\* A transaction that changes a content leaves no chunks of it.
LEMMA ChunksOfWrites ==
  ASSUME StoreTyped, ChunksFollowContent, NEW r \in Requests,
         NEW m \in Memories, NEW new, NEW kind, Writes(r, m, new, kind)
  PROVE  ChunksFollowContent'
BY DEF StoreTyped, ChunksFollowContent, Writes, Uncut, Live, SameHash

LEMMA ChunksOfDelete ==
  ASSUME StoreTyped, ChunksFollowContent, NEW r \in Requests,
         NEW m \in Memories, Delete(r, m)
  PROVE  ChunksFollowContent'
BY DEF StoreTyped, ChunksFollowContent, Delete, Uncut, Live, SameHash

LEMMA ChunksOfTask ==
  ASSUME TypeInv, ChunksFollowContent, NEW r \in Requests, WriteChunks(r)
  PROVE  ChunksFollowContent'
<1>. DEFINE k == task[r]
<1>1. k.memory \in Memories
  BY Parts DEF WriteChunks, TaskTyped, Tasks
<1>2. CASE ~Current(k)
  BY <1>2 DEF WriteChunks, ChunksFollowContent, Live, SameHash
<1>3. CASE Current(k)
  <2>1. /\ chunk' = [chunk EXCEPT
                        ![k.memory] = Cut(k.kind, k.of, Before(k))]
        /\ row' = row
    BY <1>3 DEF WriteChunks
  <2>2. ASSUME NEW i \in Positions,
               Cut(k.kind, k.of, Before(k))[i] # None
        PROVE  SameHash(Cut(k.kind, k.of, Before(k))[i].of,
                        row[k.memory].content)
    <3>1. CASE i \in Places(k.kind, k.of)
      BY <1>3, <3>1 DEF Cut, Current, SameHash
    <3>2. CASE i \notin Places(k.kind, k.of)
      <4>1. Before(k)[i] # None /\ Before(k) = chunk[k.memory]
        BY <2>2, <3>2 DEF Cut, Before, Uncut
      <4>. QED BY <1>1, <3>2, <4>1 DEF Cut, ChunksFollowContent
    <3>. QED BY <3>1, <3>2
  <2>. QED BY <1>1, <1>3, <2>1, <2>2, Parts
           DEF ChunksFollowContent, StoreTyped, Live, Current, SameHash
<1>. QED BY <1>2, <1>3

LEMMA ChunksStay ==
  ASSUME ChunksFollowContent, UNCHANGED store PROVE ChunksFollowContent'
BY DEF ChunksFollowContent, store, Live, SameHash

LEMMA ChunksStep ==
  TypeInv /\ ChunksFollowContent /\ [Next]_vars => ChunksFollowContent'
<1>. SUFFICES ASSUME TypeInv, ChunksFollowContent, [Next]_vars
              PROVE  ChunksFollowContent'
  OBVIOUS
<1>1. StoreTyped
  BY Parts
<1>2. ASSUME NEW r \in Requests, Ask(r) PROVE ChunksFollowContent'
  BY <1>1, <1>2, ChunksStay, ChunksOfDelete
     DEF Ask, Store, Save, Replace, Plan, store
<1>3. ASSUME NEW r \in Requests, Merge(r) PROVE ChunksFollowContent'
  <2>1. CASE Unread(r)
    BY <1>3, <2>1, ChunksStay DEF Merge
  <2>2. CASE ~Unread(r)
    <3>1. target[r] \in Memories
      BY <1>3, <2>2, Merged DEF Merge
    <3>. QED BY <1>1, <1>3, <2>2, <3>1, ChunksOfWrites DEF Merge
  <2>. QED BY <2>1, <2>2
<1>4. ASSUME NEW r \in Requests, Insert(r) PROVE ChunksFollowContent'
  <2>1. New \subseteq Memories
    BY <1>1, Drawn DEF StoreTyped
  <2>. QED BY <1>1, <1>4, <2>1, ChunksStay, ChunksOfWrites DEF Insert
<1>5. ASSUME NEW r \in Requests, ReplaceRow(r) PROVE ChunksFollowContent'
  <2>1. target[r] \in Memories
    BY <1>5, Parts DEF ReplaceRow, RequestTyped, Aimed
  <2>. QED BY <1>1, <1>5, <2>1, ChunksStay, ChunksOfWrites DEF ReplaceRow
<1>6. ASSUME NEW r \in Requests, Mirror(r) PROVE ChunksFollowContent'
  <2>1. Mirrors(r) \subseteq Memories
    BY Parts, MirrorsType
  <2>. QED BY <1>1, <1>6, <2>1, ChunksOfWrites DEF Mirror
<1>7. ASSUME NEW r \in Requests,
             Search(r) \/ Read(r) \/ LinkDoc(r) \/ LeavePending(r)
                \/ LoseChunks(r)
      PROVE  ChunksFollowContent'
  BY <1>7, ChunksStay DEF Search, Read, LinkDoc, LeavePending, LoseChunks
<1>8. ASSUME NEW R \in SUBSET Requests, Crash(R) PROVE ChunksFollowContent'
  BY <1>8, ChunksStay DEF Crash
<1>9. CASE UNCHANGED vars
  BY <1>9, ChunksStay DEF vars
<1>. QED BY <1>2, <1>3, <1>4, <1>5, <1>6, <1>7, <1>8, <1>9, ChunksOfTask
         DEF Next, Step

\* Chunks are always cut from what their memory says, by whichever of any
\* number of writers, rechunks and lost writes.
THEOREM ChunksFollow == Spec => []ChunksFollowContent
<1>1. Init => ChunksFollowContent
  BY DEF Init, ChunksFollowContent, Uncut
<1>. QED BY <1>1, ChunksStep, TypesAlways, PTL DEF Spec

-----------------------------------------------------------------------------
(* Stores keep their word *)

\* An id that nobody has drawn has no row, and nothing was answered with it.
Undrawn ==
    \A m \in Memories : m \notin used =>
        row[m] = None /\ kept[m] = {} /\ origin[m] = "none"

KeepInv == Undrawn /\ StoredIsKept /\ StoredOnce

\* A content with the hash of a text begins with a spelling of it.
LEMMA HashOfText ==
  ASSUME NEW c \in Contents, NEW t \in Texts, SameHash(c, <<t>>)
  PROVE  1 \in DOMAIN c /\ Fold[c[1]] = Fold[t]
<1>1. DOMAIN Normal(<<t>>) = {1} /\ Normal(<<t>>)[1] = Fold[t]
  BY DEF Normal
<1>2. DOMAIN Normal(c) = DOMAIN c
  BY DEF Normal
<1>3. 1 \in DOMAIN c
  BY <1>1, <1>2 DEF SameHash
<1>4. Normal(c)[1] = Fold[c[1]]
  BY <1>3 DEF Normal
<1>. QED BY <1>1, <1>3, <1>4 DEF SameHash

LEMMA KeepStays ==
  ASSUME KeepInv, UNCHANGED <<row, used, kept, origin>> PROVE KeepInv'
BY DEF KeepInv, Undrawn, StoredIsKept, StoredOnce, Live, SameHash, Normal

\* A store answered with an exact duplicate.
LEMMA KeepOfDuplicate ==
  ASSUME TypeInv, KeepInv, NEW t \in Texts, NEW m \in Exact(t), Keeps(m, t),
         UNCHANGED <<row, used, origin>>
  PROVE  KeepInv'
<1>1. m \in Memories /\ Live(m) /\ SameHash(row[m].content, <<t>>)
  BY DEF Exact
<1>2. row[m] \in Rows
  BY <1>1, Parts DEF Live, StoreTyped
<1>3. 1 \in DOMAIN row[m].content /\ Fold[row[m].content[1]] = Fold[t]
  BY <1>1, <1>2, HashOfText DEF Rows
<1>4. m \in used
  BY <1>1 DEF KeepInv, Undrawn, Live
<1>5. kept \in [Memories -> SUBSET Texts]
  BY Parts DEF PastTyped
<1>6. Undrawn'
  BY <1>1, <1>4, <1>5 DEF KeepInv, Undrawn, Keeps
<1>7. StoredIsKept'
  BY <1>1, <1>3, <1>5 DEF KeepInv, StoredIsKept, Keeps, Live
<1>8. StoredOnce'
  BY DEF KeepInv, StoredOnce, Live, SameHash, Normal
<1>. QED BY <1>6, <1>7, <1>8 DEF KeepInv

LEMMA KeepOfStore ==
  ASSUME TypeInv, KeepInv, NEW r \in Requests, NEW t \in Texts, Store(r, t)
  PROVE  KeepInv'
<1>. DEFINE s == Sanitized[t]
<1>1. CASE Exact(s) = {}
  BY <1>1, KeepStays DEF Store, store
<1>2. CASE Exact(s) # {}
  BY <1>2, SanitizedType, KeepOfDuplicate DEF Store, store
<1>. QED BY <1>1, <1>2

LEMMA KeepOfMerge ==
  ASSUME TypeInv, KeepInv, NEW r \in Requests, Merge(r) PROVE KeepInv'
<1>1. CASE Unread(r)
  BY <1>1, KeepStays DEF Merge, store
<1>2. CASE ~Unread(r)
  <2>. DEFINE m == target[r]
              new == [row[m] EXCEPT
                         !.content = Append(seen[r].content, text[r]),
                         !.merges = seen[r].merges + 1]
  <2>1. /\ row' = [row EXCEPT ![m] = new] /\ used' = used \cup {m}
        /\ kept' = [kept EXCEPT ![m] = @ \cup {text[r]}]
        /\ origin' = origin
    BY <1>2 DEF Merge, Writes, Keeps
  <2>2. /\ m \in Memories /\ row[m] \in Rows /\ seen[r] \in Rows
        /\ text[r] \in Texts /\ row[m].content = seen[r].content
    BY <1>2, Merged DEF Merge
  <2>3. Live(m)
    BY <1>2 DEF Unread, Live
  <2>4. /\ row \in [Memories -> Rows \cup {None}]
        /\ kept \in [Memories -> SUBSET Texts]
    BY Parts DEF StoreTyped, PastTyped
  <2>5. seen[r].content \in Seq(Texts) /\ seen[r].merges \in Nat
    BY <2>2 DEF Rows, Contents
  <2>6. new.merges # 0 /\ new.doc = row[m].doc
        /\ new.content = Append(seen[r].content, text[r])
    BY <2>2, <2>5 DEF Rows
  <2>7. Undrawn'
    BY <2>1, <2>2, <2>4 DEF KeepInv, Undrawn
  <2>8. ASSUME NEW t \in kept'[m], ~row[m].doc
        PROVE  \E i \in DOMAIN new.content :
                  Fold[new.content[i]] = Fold[t]
    <3>1. CASE t = text[r]
      <4>. DEFINE last == Len(seen[r].content) + 1
      <4>1. last \in DOMAIN new.content /\ new.content[last] = text[r]
        BY <2>2, <2>5, <2>6
      <4>. QED BY <3>1, <4>1
    <3>2. CASE t # text[r]
      <4>1. t \in kept[m]
        BY <2>1, <2>2, <2>4, <2>8, <3>2
      <4>2. PICK i \in DOMAIN row[m].content :
                Fold[row[m].content[i]] = Fold[t]
        BY <2>2, <2>3, <2>8, <4>1 DEF KeepInv, StoredIsKept
      <4>3. i \in DOMAIN new.content /\ new.content[i] = row[m].content[i]
        BY <2>2, <2>5, <2>6, <4>2
      <4>. QED BY <4>2, <4>3
    <3>. QED BY <3>1, <3>2
  <2>9. StoredIsKept'
    BY <2>1, <2>2, <2>4, <2>6, <2>8 DEF KeepInv, StoredIsKept, Live
  <2>10. StoredOnce'
    BY <2>1, <2>2, <2>4, <2>6 DEF KeepInv, StoredOnce, Live, SameHash, Normal
  <2>. QED BY <2>7, <2>9, <2>10 DEF KeepInv
<1>. QED BY <1>1, <1>2

LEMMA KeepOfInsert ==
  ASSUME TypeInv, KeepInv, NEW r \in Requests, Insert(r) PROVE KeepInv'
<1>. DEFINE t == text[r]
<1>1. t \in Texts
  BY Parts DEF Insert, RequestTyped, Asked
<1>2. CASE Exact(t) # {}
  BY <1>1, <1>2, KeepOfDuplicate DEF Insert, store
<1>3. CASE Exact(t) = {}
  <2>. DEFINE new == [content |-> <<t>>, kind |-> "plain", doc |-> FALSE,
                      merges |-> 0]
  <2>1. PICK m \in New : /\ row' = [row EXCEPT ![m] = new]
                         /\ used' = used \cup {m}
                         /\ kept' = [kept EXCEPT ![m] = @ \cup {t}]
                         /\ origin' = [origin EXCEPT ![m] = "store"]
    BY <1>3 DEF Insert, Writes, Keeps
  <2>2. m \in Memories /\ m \notin used
    BY Drawn, Parts DEF StoreTyped
  <2>3. /\ row \in [Memories -> Rows \cup {None}]
        /\ kept \in [Memories -> SUBSET Texts]
        /\ origin \in [Memories -> {"none", "store", "user", "doc"}]
    BY Parts DEF StoreTyped, PastTyped
  <2>4. Undrawn'
    BY <2>1, <2>2, <2>3 DEF KeepInv, Undrawn
  <2>5. kept'[m] = {t}
    BY <2>1, <2>2, <2>3 DEF KeepInv, Undrawn
  <2>6. new.content = <<t>> /\ 1 \in DOMAIN <<t>> /\ <<t>>[1] = t
    OBVIOUS
  <2>7. StoredIsKept'
    BY <2>1, <2>2, <2>3, <2>5, <2>6 DEF KeepInv, StoredIsKept, Live
  <2>8. \A n \in Memories : Live(n) => ~SameHash(row[n].content, <<t>>)
    BY <1>3 DEF Exact
  <2>9. StoredOnce'
    BY <2>1, <2>2, <2>3, <2>6, <2>8 DEF KeepInv, StoredOnce, Live, SameHash
  <2>. QED BY <2>4, <2>7, <2>9 DEF KeepInv
<1>. QED BY <1>2, <1>3

\* A row of another origin whose answers are forgotten, or that is a mirror.
LEMMA KeepOfOther ==
  ASSUME TypeInv, KeepInv, NEW m \in Memories, NEW new,
         NEW by \in {"user", "doc"},
         row' = [row EXCEPT ![m] = new], used' = used \cup {m},
         origin' = [origin EXCEPT ![m] = by],
         \/ kept' = [kept EXCEPT ![m] = {}]
         \/ kept' = kept /\ new.doc
  PROVE  KeepInv'
<1>1. /\ row \in [Memories -> Rows \cup {None}]
      /\ kept \in [Memories -> SUBSET Texts]
      /\ origin \in [Memories -> {"none", "store", "user", "doc"}]
  BY Parts DEF StoreTyped, PastTyped
<1>2. Undrawn'
  BY <1>1 DEF KeepInv, Undrawn
<1>3. StoredIsKept'
  BY <1>1 DEF KeepInv, StoredIsKept, Live
<1>4. StoredOnce'
  BY <1>1 DEF KeepInv, StoredOnce, Live, SameHash, Normal
<1>. QED BY <1>2, <1>3, <1>4 DEF KeepInv

LEMMA KeepOfDelete ==
  ASSUME TypeInv, KeepInv, NEW r \in Requests, NEW m \in Memories, Delete(r, m)
  PROVE  KeepInv'
<1>1. /\ row \in [Memories -> Rows \cup {None}]
      /\ kept \in [Memories -> SUBSET Texts]
      /\ origin \in [Memories -> {"none", "store", "user", "doc"}]
  BY Parts DEF StoreTyped, PastTyped
<1>2. Undrawn'
  BY <1>1 DEF Delete, KeepInv, Undrawn
<1>3. StoredIsKept'
  BY <1>1 DEF Delete, KeepInv, StoredIsKept, Live
<1>4. StoredOnce'
  BY <1>1 DEF Delete, KeepInv, StoredOnce, Live, SameHash, Normal
<1>. QED BY <1>2, <1>3, <1>4 DEF KeepInv

LEMMA KeepStep == TypeInv /\ KeepInv /\ [Next]_vars => KeepInv'
<1>. SUFFICES ASSUME TypeInv, KeepInv, [Next]_vars PROVE KeepInv'
  OBVIOUS
<1>1. ASSUME NEW r \in Requests, Ask(r) PROVE KeepInv'
  BY <1>1, KeepStays, KeepOfStore, KeepOfDelete
     DEF Ask, Save, Replace, Plan, store, past
<1>2. ASSUME NEW r \in Requests, ReplaceRow(r) PROVE KeepInv'
  <2>1. target[r] \in Memories
    BY <1>2, Parts DEF ReplaceRow, RequestTyped, Aimed
  <2>2. CASE Live(target[r])
    BY <1>2, <2>1, <2>2, KeepOfOther DEF ReplaceRow, Writes
  <2>3. CASE ~Live(target[r])
    BY <1>2, <2>3, KeepStays DEF ReplaceRow, store
  <2>. QED BY <2>2, <2>3
<1>3. ASSUME NEW r \in Requests, Mirror(r) PROVE KeepInv'
  <2>1. Mirrors(r) \subseteq Memories
    BY Parts, MirrorsType
  <2>. QED BY <1>3, <2>1, KeepOfOther DEF Mirror, Writes
<1>4. ASSUME NEW r \in Requests,
             Search(r) \/ Read(r) \/ LinkDoc(r) \/ LeavePending(r)
                \/ WriteChunks(r) \/ LoseChunks(r)
      PROVE  KeepInv'
  BY <1>4, KeepStays
     DEF Search, Read, LinkDoc, LeavePending, WriteChunks, LoseChunks, store,
         past
<1>5. ASSUME NEW R \in SUBSET Requests, Crash(R) PROVE KeepInv'
  BY <1>5, KeepStays DEF Crash, store, past
<1>6. CASE UNCHANGED vars
  BY <1>6, KeepStays DEF vars, store, past
<1>. QED BY <1>1, <1>2, <1>3, <1>4, <1>5, <1>6, KeepOfMerge, KeepOfInsert
         DEF Next, Step

\* A memory that a store was answered with says its text until a user takes it
\* back, and one text makes one memory, for any number of stores at once.
THEOREM StoresKeep == Spec => []StoresKeepTheirWord
<1>1. Init => KeepInv
  BY DEF Init, KeepInv, Undrawn, StoredIsKept, StoredOnce, Live
<1>2. KeepInv => StoresKeepTheirWord
  BY DEF KeepInv, StoresKeepTheirWord
<1>. QED BY <1>1, <1>2, KeepStep, TypesAlways, PTL DEF Spec

-----------------------------------------------------------------------------
(* A mirror follows its document *)

\* The ids that a document or a save names were drawn.
Named ==
    /\ link # None => link \in used
    /\ \A r \in Requests : pc[r] = "link" => target[r] \in used

\* While saves do not overlap, the one under way writes what the document says
\* now, into the mirror that the document names now.
OneSave ==
    /\ \A r, s \in Requests : Saving(r) /\ Saving(s) => r = s
    /\ \A r \in Requests :
          /\ Saving(r) => ~synced /\ text[r] = doc
          /\ pc[r] = "mirror" => target[r] = link

Says(m, t) ==
    Live(m) /\ origin[m] = "doc" => row[m].content[1] = Sanitized[t]

MirrorSays ==
    /\ \A r \in Requests : pc[r] = "link" => Says(target[r], text[r])
    /\ synced => link # None /\ Says(link, doc)

IsMirror(m) == Live(m) /\ row[m].doc

\* Until a user edits a mirror there is one, which a save finds by its type;
\* a document whose link is alive is linked with it.
OneMirror ==
    /\ \A m \in Memories : IsMirror(m) => row[m].kind = "doc"
    /\ \A m, n \in Memories : IsMirror(m) /\ IsMirror(n) => m = n
    /\ link # None /\ Live(link) =>
          \A m \in Memories : IsMirror(m) => m = link
    /\ \A r \in Requests : pc[r] = "link" =>
          \A m \in Memories : IsMirror(m) => m = target[r]

MirrorInv ==
    /\ Named
    /\ ~raced => OneSave /\ MirrorSays /\ (~edited => OneMirror)

\* A request that was not saving does not begin to, and one that was goes on
\* as it was or ends.
Unmoved ==
    \A s \in Requests : Saving(s)' =>
        pc'[s] = pc[s] /\ text'[s] = text[s] /\ target'[s] = target[s]

LEMMA MirrorStays ==
  ASSUME MirrorInv, Unmoved,
         UNCHANGED <<row, used, docs, origin, synced, raced, edited>>
  PROVE  MirrorInv'
<1>1. \A r \in Requests :
         /\ Saving(r)' => /\ Saving(r) /\ pc'[r] = pc[r] /\ text'[r] = text[r]
                          /\ target'[r] = target[r]
         /\ pc'[r] = "link" => Saving(r)'
         /\ pc'[r] = "mirror" => Saving(r)'
  BY DEF Unmoved, Saving
<1>2. Named'
  BY <1>1 DEF MirrorInv, Named, docs
<1>3. ~raced => OneSave'
  BY <1>1 DEF MirrorInv, OneSave, docs
<1>4. ~raced => MirrorSays'
  BY <1>1 DEF MirrorInv, MirrorSays, Says, Live, docs
<1>5. ~raced /\ ~edited => OneMirror'
  BY <1>1 DEF MirrorInv, OneMirror, IsMirror, Live, docs
<1>. QED BY <1>2, <1>3, <1>4, <1>5 DEF MirrorInv

\* One row changes: it is new or was there, begins with what it began with if
\* it goes on as a mirror, and does not become one.
LEMMA MirrorOfRow ==
  ASSUME TypeInv, MirrorInv, Unmoved, NEW m \in Memories, NEW new, NEW by,
         row' = [row EXCEPT ![m] = new], origin' = [origin EXCEPT ![m] = by],
         used \subseteq used', UNCHANGED <<docs, synced, raced>>,
         new = None \/ Live(m) \/ m \notin used,
         new # None /\ by = "doc" =>
             /\ Live(m) /\ origin[m] = "doc"
             /\ new.content[1] = row[m].content[1],
         edited => edited',
         ~edited' /\ new # None /\ new.doc =>
             IsMirror(m) /\ new.kind = row[m].kind
  PROVE  MirrorInv'
<1>1. \A r \in Requests :
         /\ Saving(r)' => /\ Saving(r) /\ pc'[r] = pc[r] /\ text'[r] = text[r]
                          /\ target'[r] = target[r]
         /\ pc'[r] = "link" => Saving(r)'
         /\ pc'[r] = "mirror" => Saving(r)'
  BY DEF Unmoved, Saving
<1>2. /\ row \in [Memories -> Rows \cup {None}]
      /\ origin \in [Memories -> {"none", "store", "user", "doc"}]
      /\ used \subseteq Memories
  BY Parts DEF StoreTyped, PastTyped
<1>3. Named'
  BY <1>1 DEF MirrorInv, Named, docs
<1>4. ~raced => OneSave'
  BY <1>1 DEF MirrorInv, OneSave, docs
<1>5. ~raced => MirrorSays'
  <2>1. ASSUME ~raced, NEW r \in Requests, pc'[r] = "link"
        PROVE  Says(target[r], text[r])'
    <3>1. pc[r] = "link" /\ target[r] \in Memories
             /\ text'[r] = text[r] /\ target'[r] = target[r]
      BY <1>1, <1>2, <2>1 DEF MirrorInv, Named
    <3>2. Says(target[r], text[r])
      BY <2>1, <3>1 DEF MirrorInv, MirrorSays
    <3>. QED BY <1>2, <3>1, <3>2 DEF Says, Live
  <2>2. ASSUME ~raced, synced PROVE link # None /\ Says(link, doc)'
    <3>1. link # None /\ Says(link, doc)
      BY <2>2 DEF MirrorInv, MirrorSays
    <3>2. link \in Memories
      BY <1>2, <3>1 DEF MirrorInv, Named
    <3>. QED BY <1>2, <3>1, <3>2 DEF Says, Live, docs
  <2>. QED BY <2>1, <2>2 DEF MirrorSays, docs
<1>6. ASSUME ~raced, ~edited' PROVE OneMirror'
  <2>1. OneMirror
    BY <1>6 DEF MirrorInv
  <2>2. \A n \in Memories : IsMirror(n)' =>
            IsMirror(n) /\ row'[n].kind = row[n].kind
    BY <1>2, <1>6 DEF IsMirror, Live
  <2>3. link # None /\ Live(link)' => Live(link)
    BY <1>2 DEF MirrorInv, Named, Live, docs
  <2>4. link' = link
    BY DEF docs
  <2>5. \A n \in Memories : IsMirror(n)' => row'[n].kind = "doc"
    BY <2>1, <2>2 DEF OneMirror
  <2>6. \A n, o \in Memories : IsMirror(n)' /\ IsMirror(o)' => n = o
    BY <2>1, <2>2 DEF OneMirror
  <2>7. link' # None /\ Live(link)' =>
            \A n \in Memories : IsMirror(n)' => n = link'
    BY <2>1, <2>2, <2>3, <2>4 DEF OneMirror
  <2>8. \A r \in Requests : pc'[r] = "link" =>
            \A n \in Memories : IsMirror(n)' => n = target'[r]
    BY <1>1, <2>1, <2>2 DEF OneMirror
  <2>. QED BY <2>5, <2>6, <2>7, <2>8 DEF OneMirror, IsMirror, Live
<1>. QED BY <1>3, <1>4, <1>5, <1>6 DEF MirrorInv

\* A request that begins anything but a save, goes on or ends moves no save.
LEMMA BeginsMoves ==
  ASSUME RequestTyped, NEW r \in Requests, NEW there \in Programs,
         there \notin {"mirror", "link"}, NEW t, NEW m, Begins(r, there, t, m)
  PROVE  Unmoved
BY DEF RequestTyped, Begins, Unmoved, Saving

LEMMA GoesMoves ==
  ASSUME RequestTyped, NEW r \in Requests, NEW there \in Programs,
         there \notin {"mirror", "link"}, Goes(r, there)
  PROVE  Unmoved
BY DEF RequestTyped, Goes, Unmoved, Saving

LEMMA EndsMoves ==
  ASSUME RequestTyped, NEW r \in Requests, Ends(r) PROVE Unmoved
BY DEF RequestTyped, Ends, Unmoved, Saving

LEMMA StaysUnmoved == ASSUME UNCHANGED request PROVE Unmoved
BY DEF Unmoved, Saving, request

LEMMA MirrorOfAsk ==
  ASSUME TypeInv, MirrorInv, NEW r \in Requests,
         \/ \E t \in Texts : Store(r, t)
         \/ \E t \in Texts, m \in Memories : Replace(r, m, t)
         \/ \E m \in Memories : Plan(r, m)
  PROVE  MirrorInv'
<1>1. Unmoved
  BY Parts, BeginsMoves DEF Store, Replace, Plan, Programs
<1>. QED BY <1>1, MirrorStays DEF Store, Replace, Plan, store, past

LEMMA MirrorOfSearch ==
  ASSUME TypeInv, MirrorInv, NEW r \in Requests, Search(r) \/ Read(r)
  PROVE  MirrorInv'
<1>1. Unmoved
  BY Parts DEF RequestTyped, Search, Read, Goes, Unmoved, Saving
<1>. QED BY <1>1, MirrorStays DEF Search, Read, store, past

LEMMA MirrorOfMerge ==
  ASSUME TypeInv, MirrorInv, NEW r \in Requests, Merge(r) PROVE MirrorInv'
<1>1. CASE Unread(r)
  <2>1. Unmoved
    BY <1>1, Parts, GoesMoves DEF Merge, Programs
  <2>. QED BY <1>1, <2>1, MirrorStays DEF Merge, store
<1>2. CASE ~Unread(r)
  <2>. DEFINE m == target[r]
              new == [row[m] EXCEPT
                         !.content = Append(seen[r].content, text[r]),
                         !.merges = seen[r].merges + 1]
  <2>1. /\ row' = [row EXCEPT ![m] = new] /\ used' = used \cup {m}
        /\ Ends(r)
        /\ UNCHANGED <<docs, origin, synced, raced, edited>>
    BY <1>2 DEF Merge, Writes
  <2>2. /\ m \in Memories /\ row[m] \in Rows /\ seen[r] \in Rows
        /\ text[r] \in Texts /\ row[m].content = seen[r].content
    BY <1>2, Merged DEF Merge
  <2>3. Live(m)
    BY <1>2 DEF Unread, Live
  <2>4. new.doc = row[m].doc /\ new.kind = row[m].kind
    BY <2>2 DEF Rows
  <2>5. new.content[1] = row[m].content[1]
    <3>1. seen[r].content \in Seq(Texts) /\ Len(seen[r].content) >= 1
      BY <2>2 DEF Rows, Contents
    <3>2. new.content = Append(seen[r].content, text[r])
      BY <2>2 DEF Rows
    <3>. QED BY <2>2, <3>1, <3>2
  <2>6. origin' = [origin EXCEPT ![m] = origin[m]]
    BY <2>1, Parts DEF PastTyped
  <2>7. Unmoved
    BY <2>1, Parts, EndsMoves
  <2>8. ~edited' /\ new.doc => IsMirror(m)
    BY <2>3, <2>4 DEF IsMirror
  <2>. HIDE DEF new
  <2>. QED BY <2>1, <2>2, <2>3, <2>4, <2>5, <2>6, <2>7, <2>8, MirrorOfRow
<1>. QED BY <1>1, <1>2

LEMMA MirrorOfInsert ==
  ASSUME TypeInv, MirrorInv, NEW r \in Requests, Insert(r) PROVE MirrorInv'
<1>1. Unmoved
  BY Parts, EndsMoves DEF Insert
<1>2. CASE Exact(text[r]) # {}
  BY <1>1, <1>2, MirrorStays DEF Insert, store
<1>3. CASE Exact(text[r]) = {}
  <2>. DEFINE new == [content |-> <<text[r]>>, kind |-> "plain",
                      doc |-> FALSE, merges |-> 0]
  <2>1. PICK m \in New : /\ row' = [row EXCEPT ![m] = new]
                         /\ used' = used \cup {m}
                         /\ origin' = [origin EXCEPT ![m] = "store"]
    BY <1>3 DEF Insert, Writes
  <2>2. m \in Memories /\ m \notin used
    BY Drawn, Parts DEF StoreTyped
  <2>3. ~new.doc /\ UNCHANGED <<docs, synced, raced, edited>>
    BY DEF Insert
  <2>. HIDE DEF new
  <2>. QED BY <1>1, <2>1, <2>2, <2>3, MirrorOfRow
<1>. QED BY <1>2, <1>3

LEMMA MirrorOfReplaceRow ==
  ASSUME TypeInv, MirrorInv, NEW r \in Requests, ReplaceRow(r)
  PROVE  MirrorInv'
<1>1. Unmoved
  BY Parts, EndsMoves DEF ReplaceRow
<1>2. CASE ~Live(target[r])
  BY <1>1, <1>2, MirrorStays DEF ReplaceRow, store
<1>3. CASE Live(target[r])
  <2>. DEFINE m == target[r]
  <2>1. PICK same \in BOOLEAN, kind \in Kinds :
           /\ row' = [row EXCEPT
                         ![m] = Replaced(row[m], text[r], kind, same)]
           /\ used' = used \cup {m}
           /\ origin' = [origin EXCEPT ![m] = "user"]
           /\ edited' = (edited \/ row[m].doc)
    BY <1>3 DEF ReplaceRow, Writes
  <2>2. m \in Memories
    BY Parts DEF ReplaceRow, RequestTyped, Aimed
  <2>3. Replaced(row[m], text[r], kind, same).doc => row[m].doc
    BY DEF Replaced
  <2>. HIDE DEF m
  <2>. QED BY <1>1, <1>3, <2>1, <2>2, <2>3, MirrorOfRow DEF ReplaceRow, m
<1>. QED BY <1>2, <1>3

LEMMA MirrorOfDelete ==
  ASSUME TypeInv, MirrorInv, NEW r \in Requests, NEW m \in Memories,
         Delete(r, m)
  PROVE  MirrorInv'
<1>1. Unmoved
  BY Parts, BeginsMoves DEF Delete, Programs
<1>. QED BY <1>1, MirrorOfRow DEF Delete

LEMMA MirrorOfSave ==
  ASSUME TypeInv, MirrorInv, NEW r \in Requests, NEW t \in Texts, Save(r, t)
  PROVE  MirrorInv'
<1>1. /\ pc' = [pc EXCEPT ![r] = "mirror"] /\ text' = [text EXCEPT ![r] = t]
      /\ target' = [target EXCEPT ![r] = link] /\ doc' = t /\ ~synced'
      /\ link' = link /\ UNCHANGED <<row, used, origin, edited>>
      /\ pc[r] = "none"
  BY DEF Save, Begins, store
<1>2. /\ pc \in [Requests -> Programs]
      /\ text \in [Requests -> Texts \cup {None}]
      /\ target \in [Requests -> Memories \cup {None}]
  BY Parts DEF RequestTyped
<1>3. Named'
  BY <1>1, <1>2 DEF MirrorInv, Named
<1>4. ASSUME ~raced' PROVE OneSave' /\ MirrorSays' /\ (~edited' => OneMirror')
  <2>1. ~raced /\ \A s \in Requests : ~Saving(s)
    BY <1>4 DEF Save
  <2>2. \A s \in Requests : /\ Saving(s)' => s = r
                            /\ pc'[s] # "link"
    BY <1>1, <1>2, <2>1 DEF Saving
  <2>3. OneSave'
    BY <1>1, <1>2, <2>2 DEF OneSave, Saving
  <2>4. MirrorSays'
    BY <1>1, <2>2 DEF MirrorSays
  <2>5. ~edited' => OneMirror'
    BY <1>1, <2>1, <2>2 DEF MirrorInv, OneMirror, IsMirror, Live
  <2>. QED BY <2>3, <2>4, <2>5
<1>. QED BY <1>3, <1>4 DEF MirrorInv

LEMMA MirrorOfMirror ==
  ASSUME TypeInv, MirrorInv, NEW r \in Requests, Mirror(r) PROVE MirrorInv'
<1>. DEFINE new == [content |-> <<Sanitized[text[r]]>>, kind |-> "doc",
                    doc |-> TRUE, merges |-> 0]
<1>1. PICK m \in Mirrors(r) : /\ row' = [row EXCEPT ![m] = new]
                              /\ used' = used \cup {m}
                              /\ origin' = [origin EXCEPT ![m] = "doc"]
                              /\ target' = [target EXCEPT ![r] = m]
  BY DEF Mirror, Writes
<1>2. /\ pc[r] = "mirror" /\ pc' = [pc EXCEPT ![r] = "link"]
      /\ UNCHANGED <<text, doc, link, synced, raced, edited>>
  BY DEF Mirror, docs
<1>3. m \in Memories
  BY Parts, MirrorsType
<1>4. /\ pc \in [Requests -> Programs]
      /\ target \in [Requests -> Memories \cup {None}]
      /\ row \in [Memories -> Rows \cup {None}]
      /\ origin \in [Memories -> {"none", "store", "user", "doc"}]
      /\ used \subseteq Memories
  BY Parts DEF RequestTyped, StoreTyped, PastTyped
<1>5. new.content[1] = Sanitized[text[r]] /\ new.kind = "doc" /\ new.doc
  OBVIOUS
<1>6. Named'
  BY <1>1, <1>2, <1>3, <1>4 DEF MirrorInv, Named
<1>. HIDE DEF new
<1>7. ASSUME ~raced
      PROVE  OneSave' /\ MirrorSays' /\ (~edited => OneMirror')
  <2>1. /\ \A s \in Requests : Saving(s) => s = r
        /\ ~synced /\ text[r] = doc /\ target[r] = link
    BY <1>2, <1>7 DEF MirrorInv, OneSave, Saving
  <2>2. \A s \in Requests : Saving(s)' => s = r /\ pc'[s] = "link"
    BY <1>2, <1>4, <2>1 DEF Saving
  <2>3. OneSave'
    BY <1>2, <2>1, <2>2 DEF OneSave, Saving
  <2>4. MirrorSays'
    <3>1. \A s \in Requests : pc'[s] = "link" => s = r
      BY <2>2 DEF Saving
    <3>2. target'[r] = m /\ row'[m] = new
      BY <1>1, <1>3, <1>4
    <3>. QED BY <1>2, <1>5, <2>1, <3>1, <3>2 DEF MirrorSays, Says
  <2>5. ASSUME ~edited PROVE OneMirror'
    <3>1. OneMirror
      BY <1>7, <2>5 DEF MirrorInv
    <3>2. \A n \in Memories : IsMirror(n) => n = m
      <4>1. CASE link # None /\ Live(link)
        BY <2>1, <3>1, <4>1 DEF OneMirror, Mirrors
      <4>2. CASE ~(link # None /\ Live(link))
        BY <1>1, <2>1, <3>1, <4>2 DEF OneMirror, Mirrors, IsMirror
      <4>. QED BY <4>1, <4>2
    <3>3. \A n \in Memories : IsMirror(n)' => n = m
      BY <1>1, <1>3, <1>4, <3>2 DEF IsMirror, Live
    <3>4. row'[m].kind = "doc"
      BY <1>1, <1>3, <1>4, <1>5
    <3>5. link # None /\ Live(link)' => link = m
      <4>1. CASE link # None /\ Live(link)
        BY <2>1, <4>1 DEF Mirrors
      <4>2. CASE ~(link # None /\ Live(link))
        BY <1>1, <1>2, <1>3, <1>4, <4>2 DEF Live, MirrorInv, Named
      <4>. QED BY <4>1, <4>2
    <3>6. \A s \in Requests : pc'[s] = "link" => target'[s] = m
      BY <1>1, <1>4, <2>2 DEF Saving
    <3>. QED BY <1>2, <3>3, <3>4, <3>5, <3>6 DEF OneMirror
  <2>. QED BY <2>3, <2>4, <2>5
<1>. QED BY <1>2, <1>6, <1>7 DEF MirrorInv

LEMMA MirrorOfLink ==
  ASSUME TypeInv, MirrorInv, NEW r \in Requests, LinkDoc(r) PROVE MirrorInv'
<1>1. /\ pc[r] = "link" /\ pc' = [pc EXCEPT ![r] = "done"]
      /\ link' = target[r] /\ synced'
      /\ UNCHANGED <<row, used, doc, origin, raced, edited>>
  BY DEF LinkDoc, Ends, store
<1>2. /\ pc \in [Requests -> Programs]
      /\ target[r] \in Memories /\ target[r] \in used
      /\ target[r] # None
  BY <1>1, Parts, StoreAssumption
     DEF RequestTyped, Aimed, MirrorInv, Named
<1>3. \A s \in Requests : s # r => /\ pc'[s] = pc[s]
                                   /\ target'[s] = target[s]
  BY <1>2, Parts DEF LinkDoc, Ends, RequestTyped
<1>4. pc'[r] = "done"
  BY <1>1, <1>2
<1>5. Named'
  BY <1>1, <1>2, <1>3, <1>4 DEF MirrorInv, Named
<1>6. ASSUME ~raced
      PROVE  OneSave' /\ MirrorSays' /\ (~edited => OneMirror')
  <2>1. \A s \in Requests : Saving(s) => s = r
    BY <1>1, <1>6 DEF MirrorInv, OneSave, Saving
  <2>2. \A s \in Requests : ~Saving(s)'
    BY <1>3, <1>4, <2>1 DEF Saving
  <2>3. \A s \in Requests : pc'[s] \notin {"mirror", "link"}
    BY <2>2 DEF Saving
  <2>4. OneSave'
    BY <2>2, <2>3 DEF OneSave
  <2>5. text[r] = doc /\ Says(target[r], text[r])
    BY <1>1, <1>6 DEF MirrorInv, OneSave, MirrorSays, Saving
  <2>6. MirrorSays'
    BY <1>1, <1>2, <2>3, <2>5 DEF MirrorSays, Says, Live
  <2>7. ~edited => OneMirror'
    BY <1>1, <1>6, <2>3 DEF MirrorInv, OneMirror, IsMirror, Live
  <2>. QED BY <2>4, <2>6, <2>7
<1>. QED BY <1>1, <1>5, <1>6 DEF MirrorInv

LEMMA MirrorStep == TypeInv /\ MirrorInv /\ [Next]_vars => MirrorInv'
<1>. SUFFICES ASSUME TypeInv, MirrorInv, [Next]_vars PROVE MirrorInv'
  OBVIOUS
<1>1. ASSUME NEW r \in Requests, Ask(r) PROVE MirrorInv'
  BY <1>1, MirrorOfAsk, MirrorOfSave, MirrorOfDelete DEF Ask
<1>2. ASSUME NEW r \in Requests,
             WriteChunks(r) \/ LoseChunks(r) \/ LeavePending(r)
      PROVE  MirrorInv'
  <2>1. Unmoved
    BY <1>2, Parts, StaysUnmoved, EndsMoves
       DEF WriteChunks, LoseChunks, LeavePending
  <2>. QED BY <1>2, <2>1, MirrorStays
           DEF WriteChunks, LoseChunks, LeavePending, store, past
<1>3. ASSUME NEW R \in SUBSET Requests, Crash(R) PROVE MirrorInv'
  <2>1. ASSUME NEW s \in Requests, Saving(s)'
        PROVE  pc'[s] = pc[s] /\ text'[s] = text[s] /\ target'[s] = target[s]
    <3>1. s \notin R
      BY <1>3, <2>1 DEF Crash, Saving
    <3>. QED BY <1>3, <3>1 DEF Crash
  <2>2. Unmoved
    BY <2>1 DEF Unmoved
  <2>. QED BY <1>3, <2>2, MirrorStays DEF Crash, store, past
<1>4. CASE UNCHANGED vars
  BY <1>4, StaysUnmoved, MirrorStays DEF vars, store, past
<1>. QED BY <1>1, <1>2, <1>3, <1>4, MirrorOfSearch, MirrorOfMerge,
            MirrorOfInsert, MirrorOfReplaceRow, MirrorOfMirror, MirrorOfLink
         DEF Next, Step

\* A save that reports "synced" has left a mirror of what the sanitizer leaves
\* of the document, whatever that is of any text, and no save makes a second
\* one, after any number of crashes, errors, deletes and merges.
THEOREM MirrorFollows == Spec => []MirrorFollowsDoc
<1>1. Init => MirrorInv
  BY DEF Init, MirrorInv, Named, OneSave, MirrorSays, OneMirror, IsMirror,
         Saving, Live
<1>2. MirrorInv => MirrorFollowsDoc
  BY DEF MirrorInv, MirrorSays, Says, OneMirror, IsMirror, MirrorFollowsDoc
<1>. QED BY <1>1, <1>2, MirrorStep, TypesAlways, PTL DEF Spec
=============================================================================
