---------------------------- MODULE RagProvider ----------------------------
(* RAGProvider (rags/provider.py) in one event loop: an LRU cache of RAG      *)
(* instances, one asyncio.Lock per memory that serialises building them, and  *)
(* the writes that the Entry signals (memories/signals.py) make to the index. *)
(* Beside it, the reindex_memories command rebuilds indexes from its own      *)
(* process and signs them in the memory's row, in-process ones too, which are *)
(* gone when it exits.                                                        *)
(*                                                                            *)
(* A call is one coroutine. Its steps end where it awaits; a lock and a RAG   *)
(* instance are named by the call that creates them. One RAG agent is         *)
(* modelled, so a memory stands for its cache key.                            *)
EXTENDS Naturals, FiniteSets, SequencesExt

CONSTANTS
    Call,       \* the coroutines, each making one call
    Memory,
    Document,   \* Entry rows, of any memory
    Remote,     \* the memories whose index lives on a Qdrant server
    MaxCache,   \* _MAX_CACHE_SIZE
    Allowed,    \* what callers and backends may do, out of Environment
    None

Environment == {"reindex", "force", "command", "save", "delete", "rush", "clear", "fail"}

ASSUME ProviderAssumption ==
    /\ Remote \subseteq Memory
    /\ MaxCache \in Nat \ {0}
    /\ Allowed \subseteq Environment
    /\ Call \cap Memory = {}
    /\ None \notin Call \cup Memory \cup Document

VARIABLES
    documents,  \* the Entry rows of each memory
    signed,     \* whether the memory's row holds the signature of its index
    cache,      \* _cache: the cached instances, least recently used first
    lock,       \* _warmup_locks: the lock of each memory, if it has one
    queue,      \* of each lock: its holder, then the coroutines waiting for it
    index,      \* the documents in each index
    call        \* the coroutines

vars == <<documents, signed, cache, lock, queue, index, call>>

Reader == {"use", "reindex", "force"}   \* these build under the lock and cache
Writer == {"save", "delete"}
Stage == {"idle", "waiting", "building", "opening", "recreating", "indexing",
          "saved", "writing", "done"}

Idle == [kind |-> "use", memory |-> None, document |-> None, at |-> "idle",
         read |-> {}, asked |-> {}, rag |-> None]

TypeOK ==
    /\ documents \in [Memory -> SUBSET Document]
    /\ signed \in [Memory -> BOOLEAN]
    /\ cache \in Seq(Call) /\ Len(cache) <= MaxCache
    /\ lock \in [Memory -> Call \cup {None}]
    /\ queue \in [Call -> Seq(Call)]
    /\ index \in [Call \cup Memory -> SUBSET Document]
    /\ call \in [Call -> [kind : Reader \cup Writer \cup {"command"},
                          memory : Memory \cup {None}, document : Document \cup {None},
                          at : Stage, read : SUBSET Document, asked : SUBSET Document,
                          rag : Call \cup {None}]]

Init ==
    /\ documents \in [Memory -> SUBSET Document]
    /\ signed = [m \in Memory |-> TRUE]
    /\ cache = <<>>
    /\ lock = [m \in Memory |-> None]
    /\ queue = [c \in Call |-> <<>>]
    /\ index = [s \in Call \cup Memory |-> IF s \in Remote THEN documents[s] ELSE {}]
    /\ call = [c \in Call |-> Idle]

-----------------------------------------------------------------------------
(* The instance a call builds, and the index it reads and writes: every       *)
(* instance has its own unless the memory's index is on a server.             *)
Store(c) == IF call[c].memory \in Remote THEN call[c].memory ELSE c

Of(m) == {i \in 1..Len(cache) : call[cache[i]].memory = m}
IsCached(m) == Of(m) # {}
Slot(m) == CHOOSE i \in Of(m) : TRUE
Used(m) == Append(RemoveAt(cache, Slot(m)), cache[Slot(m)])
Without(m) == IF IsCached(m) THEN RemoveAt(cache, Slot(m)) ELSE cache

\* The lock a call holds or waits for.
LockOf(c) == {l \in Call : c \in ToSet(queue[l])}
Freed(c) == [l \in Call |-> IF l \in LockOf(c) THEN Tail(queue[l]) ELSE queue[l]]

Go(c, stage) == call' = [call EXCEPT ![c].at = stage]
Return(c, rag) == call' = [call EXCEPT ![c].at = "done", ![c].rag = rag,
                                        ![c].read = {}, ![c].asked = {}]

-----------------------------------------------------------------------------
(* _get_or_create_rag up to its first await, for get_rag_instance and warmup  *)
(* ("use") and for reindex, which drops the cache entry first. The lock's     *)
(* name comes from setdefault: the one there is, else a new one.              *)
\* Mutant of LockFor: every call brings a lock of its own.
OwnLock(c, m) == c

LockFor(c, m) == IF lock[m] = None THEN c ELSE lock[m]

Ask(c, m, kind) ==
    LET hit == IsCached(m) /\ kind = "use"
        l == LockFor(c, m)
        asked == [Idle EXCEPT !.kind = kind, !.memory = m,
                              !.asked = IF kind = "force" THEN documents[m] ELSE {}]
    IN  /\ call[c].at = "idle"
        /\ kind # "use" => kind \in Allowed
        /\ \/ /\ hit
              /\ cache' = Used(m)
              /\ call' = [call EXCEPT ![c] =
                            [asked EXCEPT !.at = "done", !.rag = cache[Slot(m)]]]
              /\ UNCHANGED <<lock, queue>>
           \/ /\ ~hit
              /\ cache' = Without(m)
              /\ lock' = [lock EXCEPT ![m] = l]
              /\ queue' = [queue EXCEPT ![l] = Append(@, c)]
              /\ call' = [call EXCEPT ![c] =
                            [asked EXCEPT !.at = IF queue[l] = <<>> THEN "building"
                                                                    ELSE "waiting"]]
        /\ UNCHANGED <<documents, signed, index>>

\* Mutant of Resume: a forced reindex takes what the builder before it cached.
ResumeHit(c) ==
    LET m == call[c].memory
    IN  /\ call[c].at = "waiting"
        /\ \E l \in LockOf(c) : Head(queue[l]) = c
        /\ \/ /\ IsCached(m)
              /\ cache' = Used(m)
              /\ queue' = Freed(c)
              /\ Return(c, cache[Slot(m)])
           \/ /\ ~IsCached(m)
              /\ Go(c, "building")
              /\ UNCHANGED <<cache, queue>>
        /\ UNCHANGED <<documents, signed, lock, index>>

(* A waiter gets the lock and looks at the cache again.                       *)
Resume(c) ==
    LET m == call[c].memory
        hit == IsCached(m) /\ call[c].kind # "force"
    IN  /\ call[c].at = "waiting"
        /\ \E l \in LockOf(c) : Head(queue[l]) = c
        /\ \/ /\ hit
              /\ cache' = Used(m)
              /\ queue' = Freed(c)
              /\ Return(c, cache[Slot(m)])
           \/ /\ ~hit
              /\ Go(c, "building")
              /\ UNCHANGED <<cache, queue>>
        /\ UNCHANGED <<documents, signed, lock, index>>

\* Mutant of GiveUp: the signature stays.
GiveUpSigned(c) ==
    /\ queue' = Freed(c)
    /\ Return(c, None)
    /\ UNCHANGED signed

(* Nothing comes of a call: a reader gets no instance, a writer could not     *)
(* reach the index and forgets the signature, the command goes on without.    *)
GiveUp(c) ==
    /\ queue' = Freed(c)
    /\ Return(c, None)
    /\ signed' = [signed EXCEPT ![call[c].memory] = @ /\ call[c].kind \notin Writer]

(* The agent's get_rag_pipeline reads the memory's documents; it returns None *)
(* when there are none.                                                       *)
Read(c) ==
    LET docs == documents[call[c].memory]
    IN  /\ call[c].at = "building"
        /\ \/ docs = {} /\ GiveUp(c)
           \/ /\ docs # {}
              /\ call' = [call EXCEPT ![c].read = docs,
                            ![c].at = IF call[c].memory \notin Remote THEN "indexing"
                                      ELSE IF call[c].kind \in {"force", "command"}
                                           THEN "recreating" ELSE "opening"]
              /\ UNCHANGED <<signed, queue>>
        /\ UNCHANGED <<documents, cache, lock, index>>

(* The instance is built: a reader caches it, evicts the least recently used  *)
(* one with its lock, and releases its own lock; a writer goes on to write;   *)
(* the command signs the index in the memory's row.                           *)
Built(c) ==
    LET m == call[c].memory
        full == IF IsCached(m) THEN ReplaceAt(cache, Slot(m), c) ELSE Append(cache, c)
    IN  \/ /\ call[c].kind \in Reader
           /\ cache' = IF Len(full) > MaxCache THEN Tail(full) ELSE full
           /\ lock' = IF Len(full) > MaxCache
                      THEN [lock EXCEPT ![call[Head(full)].memory] = None] ELSE lock
           /\ queue' = Freed(c)
           /\ Return(c, c)
           /\ UNCHANGED signed
        \/ /\ call[c].kind \in Writer
           /\ call' = [call EXCEPT ![c].at = "writing", ![c].rag = c]
           /\ UNCHANGED <<signed, cache, lock, queue>>
        \/ /\ call[c].kind = "command"
           /\ signed' = [signed EXCEPT ![m] = TRUE]
           /\ Return(c, c)
           /\ UNCHANGED <<cache, lock, queue>>

(* warmup on a server: an index with documents in it is used as it is.        *)
Open(c) ==
    /\ call[c].at = "opening"
    /\ \/ index[Store(c)] # {} /\ Built(c)
       \/ /\ index[Store(c)] = {}
          /\ Go(c, "recreating")
          /\ UNCHANGED <<signed, cache, lock, queue>>
    /\ UNCHANGED <<documents, index>>

(* The collection is dropped and created anew.                                *)
Recreate(c) ==
    /\ call[c].at = "recreating"
    /\ index' = [index EXCEPT ![Store(c)] = {}]
    /\ Go(c, "indexing")
    /\ UNCHANGED <<documents, signed, cache, lock, queue>>

(* The documents read are embedded and written in a thread.                   *)
Index(c) ==
    /\ call[c].at = "indexing"
    /\ index' = [index EXCEPT ![Store(c)] = @ \cup call[c].read]
    /\ Built(c)
    /\ UNCHANGED documents

(* get_rag_pipeline or warmup raises; the lock is released all the same.      *)
BuildFails(c) ==
    /\ "fail" \in Allowed
    /\ call[c].at \in {"building", "opening", "recreating", "indexing"}
    /\ GiveUp(c)
    /\ UNCHANGED <<documents, cache, lock, index>>

-----------------------------------------------------------------------------
(* A row is created, edited or deleted, and its signal starts; the id of a    *)
(* deleted row is not used again. "rush": deleting a row whose own save is    *)
(* still on its way to the index.                                             *)
Writes(w, kind, m, d) == call[w].kind = kind /\ call[w].memory = m /\ call[w].document = d

Save(c, m, d) ==
    /\ "save" \in Allowed
    /\ call[c].at = "idle"
    /\ ~\E w \in Call : Writes(w, "delete", m, d)
    /\ documents' = [documents EXCEPT ![m] = @ \cup {d}]
    /\ call' = [call EXCEPT ![c] = [Idle EXCEPT !.kind = "save", !.memory = m,
                                                !.document = d, !.at = "saved"]]
    /\ UNCHANGED <<signed, cache, lock, queue, index>>

Delete(c, m, d) ==
    /\ "delete" \in Allowed
    /\ call[c].at = "idle" /\ d \in documents[m]
    /\ "rush" \notin Allowed =>
          \A w \in Call : Writes(w, "save", m, d) => call[w].at = "done"
    /\ documents' = [documents EXCEPT ![m] = @ \ {d}]
    /\ call' = [call EXCEPT ![c] = [Idle EXCEPT !.kind = "delete", !.memory = m,
                                                !.document = d, !.at = "saved"]]
    /\ UNCHANGED <<signed, cache, lock, queue, index>>

(* The signal takes the index to write: the cached instance, or the server's  *)
(* (_shared_rag builds one without the lock), or none, which forgets the      *)
(* signature. The save of a row that is already gone writes nothing.          *)
Pick(c) ==
    LET m == call[c].memory
        gone == call[c].kind = "save" /\ call[c].document \notin documents[m]
    IN  /\ call[c].at = "saved"
        /\ \/ /\ gone
              /\ Return(c, None)
              /\ UNCHANGED signed
           \/ /\ ~gone /\ IsCached(m)
              /\ call' = [call EXCEPT ![c].at = "writing", ![c].rag = cache[Slot(m)]]
              /\ UNCHANGED signed
           \/ /\ ~gone /\ ~IsCached(m) /\ m \in Remote
              /\ Go(c, "building")
              /\ UNCHANGED signed
           \/ /\ ~gone /\ ~IsCached(m) /\ m \notin Remote
              /\ signed' = [signed EXCEPT ![m] = FALSE]
              /\ Return(c, None)
        /\ UNCHANGED <<documents, cache, lock, queue, index>>

(* add_documents and remove_documents of the instance; either may fail.       *)
Write(c) ==
    LET s == Store(call[c].rag)
        d == call[c].document
    IN  /\ call[c].at = "writing"
        /\ index' = [index EXCEPT ![s] = IF call[c].kind = "save" THEN @ \cup {d} ELSE @ \ {d}]
        /\ Return(c, call[c].rag)
        /\ UNCHANGED <<documents, signed, cache, lock, queue>>

WriteFails(c) ==
    /\ "fail" \in Allowed
    /\ call[c].at = "writing"
    /\ GiveUp(c)
    /\ UNCHANGED <<documents, cache, lock, index>>

-----------------------------------------------------------------------------
(* reindex_memories, in a process of its own: no cache, no lock.  It rebuilds *)
(* and signs whatever holds the index (a memory whose signature fits is       *)
(* skipped unless it is told to force, which changes nothing).                *)
Command(c, m) ==
    /\ "command" \in Allowed
    /\ call[c].at = "idle"
    /\ call' = [call EXCEPT ![c] = [Idle EXCEPT !.kind = "command", !.memory = m,
                                                !.at = "building"]]
    /\ UNCHANGED <<documents, signed, cache, lock, queue, index>>

ClearCache ==
    /\ "clear" \in Allowed
    /\ cache # <<>>
    /\ cache' = <<>>
    /\ UNCHANGED <<documents, signed, lock, queue, index, call>>

Work(c) ==
    \/ Resume(c) \/ Read(c) \/ Open(c) \/ Recreate(c) \/ Index(c) \/ BuildFails(c)
    \/ Pick(c) \/ Write(c) \/ WriteFails(c)

Next ==
    \/ ClearCache
    \/ \E c \in Call :
          \/ Work(c)
          \/ \E m \in Memory :
                \/ \E kind \in Reader : Ask(c, m, kind)
                \/ Command(c, m)
                \/ \E d \in Document : Save(c, m, d) \/ Delete(c, m, d)

Spec == Init /\ [][Next]_vars

-----------------------------------------------------------------------------
(* A memory's index is never built by two coroutines at once, which the lock  *)
(* of its key is for (a second open of Qdrant's folder would crash).          *)
Builds(c) == call[c].kind \in Reader
             /\ call[c].at \in {"building", "opening", "recreating", "indexing"}
OneWarmup ==
    \A a, b \in Call :
        Builds(a) /\ Builds(b) /\ call[a].memory = call[b].memory => a = b

AtRest(m) == \A c \in Call : call[c].memory = m => call[c].at \in {"idle", "done"}
Forced(m) == \E c \in Call : call[c].kind = "force" /\ call[c].memory = m
SignedElsewhere(m) ==
    \E c \in Call : call[c].kind = "command" /\ call[c].memory = m /\ call[c].rag # None

(* Once nothing is under way for a memory, an index that is still signed      *)
(* holds exactly its documents: the changes an index misses (a save while it  *)
(* was being built, a failed write) all made a signal forget the signature.   *)
(* Memories with a forced reindex are left out: it replaces the instance that *)
(* a change made meanwhile was written to.  So are those the command has      *)
(* signed: its signature is of an index of its own and may come back over     *)
(* one that a signal has forgotten.                                           *)
LocalIndexIsHonest ==
    \A i \in ToSet(cache) :
        LET m == call[i].memory
        IN  /\ m \notin Remote /\ AtRest(m) /\ signed[m]
            /\ ~Forced(m) /\ ~SignedElsewhere(m)
            => index[i] = documents[m]

(* The same of the indexes on a server, which other processes write too.      *)
ServerIndexIsHonest ==
    \A m \in Remote : AtRest(m) /\ signed[m] => index[m] = documents[m]

(* A forced reindex returns an index that holds every document the memory had *)
(* when it was asked for and still has.                                       *)
Returns(c) == call[c].at # "done" /\ call'[c].at = "done" /\ call'[c].rag # None
ForcedReindexIsFresh ==
    [][\A c \in Call :
          call[c].kind = "force" /\ call[c].memory \notin Remote /\ Returns(c) =>
             call[c].asked \cap documents[call[c].memory] \subseteq index'[call'[c].rag]]_vars

(* No early return and no failure leaves a lock held: whoever holds one is     *)
(* still building, and everyone behind it is waiting.                         *)
LocksAreReleased ==
    \A l \in Call : \A i \in 1..Len(queue[l]) :
        IF i = 1 THEN Builds(queue[l][1]) \/ call[queue[l][1]].at = "waiting"
                 ELSE call[queue[l][i]].at = "waiting"

(* The locks of the warmups: one build at a time, and never a lock without one. *)
WarmupsAreLocked == OneWarmup /\ LocksAreReleased
=============================================================================
