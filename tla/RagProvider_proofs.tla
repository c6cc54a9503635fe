------------------------- MODULE RagProvider_proofs -------------------------
(***************************************************************************)
(* Theorems about RagProvider, for any number of coroutines, memories and  *)
(* documents, and whatever callers and backends may do.                    *)
(***************************************************************************)
EXTENDS RagProvider, FiniteSetTheorems, SequenceTheorems, TLAPS

(***************************************************************************)
(* Sequences: what taking one place out leaves.                            *)
(***************************************************************************)
LEMMA RemoveAtProperties ==
  ASSUME NEW S, NEW s \in Seq(S), NEW i \in 1..Len(s)
  PROVE  /\ RemoveAt(s, i) \in Seq(S)
         /\ Len(RemoveAt(s, i)) = Len(s) - 1
         /\ \A j \in 1..Len(s)-1 : RemoveAt(s, i)[j] = IF j < i THEN s[j] ELSE s[j+1]
<1> DEFINE front == SubSeq(s, 1, i-1)
           back == SubSeq(s, i+1, Len(s))
<1>1. /\ front \in Seq(S) /\ Len(front) = i - 1
      /\ \A j \in 1..i-1 : front[j] = s[j]
  OBVIOUS
<1>2. /\ back \in Seq(S) /\ Len(back) = Len(s) - i
      /\ \A j \in 1..Len(s)-i : back[j] = s[i+j]
  OBVIOUS
<1>3. RemoveAt(s, i) = front \o back
  BY DEF RemoveAt
<1> HIDE DEF front, back
<1>4. front \o back \in Seq(S) /\ Len(front \o back) = Len(s) - 1
  BY <1>1, <1>2
<1>5. ASSUME NEW j \in 1..Len(s)-1
      PROVE  (front \o back)[j] = IF j < i THEN s[j] ELSE s[j+1]
  <2>1. CASE j < i
    BY <1>1, <1>2, <2>1
  <2>2. CASE ~(j < i)
    <3>1. (front \o back)[j] = back[j - (i - 1)]
      BY <1>1, <1>2, <2>2
    <3>2. back[j - (i - 1)] = s[j + 1]
      BY <1>2, <2>2
    <3> QED
      BY <2>2, <3>1, <3>2
  <2> QED
    BY <2>1, <2>2
<1> QED
  BY <1>3, <1>4, <1>5

(***************************************************************************)
(* The cache: the places of a memory, and what using one or dropping one   *)
(* leaves.                                                                 *)
(***************************************************************************)
\* The cached instances are of calls that returned, one per memory.
Ready(s) == \A i \in 1..Len(s) : call[s[i]].at = "done" /\ call[s[i]].kind \in Reader
Separate(s) == \A i, j \in 1..Len(s) : call[s[i]].memory = call[s[j]].memory => i = j
CacheInv == Ready(cache) /\ Separate(cache)

LEMMA SlotIsOne ==
  ASSUME NEW m, IsCached(m)
  PROVE  Slot(m) \in 1..Len(cache) /\ call[cache[Slot(m)]].memory = m
BY DEF IsCached, Slot, Of

LEMMA UsedProperties ==
  ASSUME NEW m, IsCached(m), cache \in Seq(Call)
  PROVE  /\ Used(m) \in Seq(Call)
         /\ Len(Used(m)) = Len(cache)
         /\ Ready(cache) => Ready(Used(m))
         /\ Separate(cache) => Separate(Used(m))
         /\ \A i \in 1..Len(cache) : \E j \in 1..Len(cache) : Used(m)[i] = cache[j]
<1> DEFINE k == Slot(m)
           n == Len(cache)
           at(i) == IF i = n THEN k ELSE IF i < k THEN i ELSE i + 1
<1>1. k \in 1..n /\ n \in Nat
  BY SlotIsOne
<1>2. /\ RemoveAt(cache, k) \in Seq(Call) /\ Len(RemoveAt(cache, k)) = n - 1
      /\ \A j \in 1..n-1 : RemoveAt(cache, k)[j] = IF j < k THEN cache[j] ELSE cache[j+1]
  BY <1>1, RemoveAtProperties
<1>3. cache[k] \in Call
  BY <1>1
<1>4. Used(m) \in Seq(Call) /\ Len(Used(m)) = n
  BY <1>1, <1>2, <1>3 DEF Used
<1>5. ASSUME NEW i \in 1..n PROVE at(i) \in 1..n /\ Used(m)[i] = cache[at(i)]
  <2>1. CASE i = n
    BY <1>1, <1>2, <1>3, <2>1 DEF Used
  <2>2. CASE i # n
    <3>1. i \in 1..n-1
      BY <1>1, <2>2
    <3>2. Used(m)[i] = RemoveAt(cache, k)[i]
      BY <1>2, <1>3, <3>1 DEF Used
    <3> QED
      BY <1>1, <1>2, <2>2, <3>1, <3>2
  <2> QED
    BY <2>1, <2>2
<1>6. \A i, j \in 1..n : at(i) = at(j) => i = j
  BY <1>1
<1> HIDE DEF at, k, n
<1>7. Ready(cache) => Ready(Used(m))
  BY <1>4, <1>5 DEF Ready, n
<1>8. Separate(cache) => Separate(Used(m))
  BY <1>4, <1>5, <1>6 DEF Separate, n
<1> QED
  BY <1>4, <1>5, <1>7, <1>8 DEF n

LEMMA WithoutProperties ==
  ASSUME NEW m, cache \in Seq(Call)
  PROVE  /\ Without(m) \in Seq(Call)
         /\ Len(Without(m)) <= Len(cache)
         /\ Ready(cache) => Ready(Without(m))
         /\ Separate(cache) => /\ Separate(Without(m))
                               /\ \A i \in 1..Len(Without(m)) : call[Without(m)[i]].memory # m
         /\ \A i \in 1..Len(Without(m)) : \E j \in 1..Len(cache) : Without(m)[i] = cache[j]
<1>1. CASE ~IsCached(m)
  <2>1. Without(m) = cache
    BY <1>1 DEF Without
  <2>2. \A i \in 1..Len(cache) : call[cache[i]].memory # m
    BY <1>1 DEF IsCached, Of
  <2> QED
    BY <2>1, <2>2
<1>2. CASE IsCached(m)
  <2> DEFINE k == Slot(m)
             n == Len(cache)
             w == Without(m)
             at(i) == IF i < k THEN i ELSE i + 1
  <2>1. k \in 1..n /\ n \in Nat /\ call[cache[k]].memory = m
    BY <1>2, SlotIsOne
  <2>2. w = RemoveAt(cache, k)
    BY <1>2 DEF Without
  <2>3. /\ w \in Seq(Call) /\ Len(w) = n - 1
        /\ \A i \in 1..n-1 : w[i] = IF i < k THEN cache[i] ELSE cache[i+1]
    BY <2>1, <2>2, RemoveAtProperties
  <2> HIDE DEF w
  <2>4. \A i \in 1..n-1 : at(i) \in 1..n /\ at(i) # k /\ w[i] = cache[at(i)]
    BY <2>1, <2>3
  <2>5. \A i, j \in 1..n-1 : at(i) = at(j) => i = j
    BY <2>1
  <2> HIDE DEF at, k, n
  <2>6. Ready(cache) => Ready(w)
    BY <2>3, <2>4 DEF Ready, n
  <2>7. ASSUME Separate(cache) PROVE Separate(w)
    BY <2>1, <2>3, <2>4, <2>5, <2>7 DEF Separate, n
  <2>8. ASSUME Separate(cache), NEW i \in 1..Len(w) PROVE call[w[i]].memory # m
    BY <2>1, <2>3, <2>4, <2>8 DEF Separate, n
  <2>9. Len(w) <= Len(cache)
    BY <2>1, <2>3 DEF n
  <2> QED
    BY <2>3, <2>4, <2>6, <2>7, <2>8, <2>9 DEF n, w
<1> QED
  BY <1>1, <1>2

(***************************************************************************)
(* Types.  A call is at a memory from its first step on, only writers have *)
(* a document, and only a command and a writer of a server's index build   *)
(* without the lock.                                                       *)
(***************************************************************************)
Making == {"building", "opening", "recreating", "indexing"}

Record == [kind : Reader \cup Writer \cup {"command"},
           memory : Memory \cup {None}, document : Document \cup {None},
           at : Stage, read : SUBSET Document, asked : SUBSET Document,
           rag : Call \cup {None}]

Proper(r) ==
  /\ r.at # "idle" => r.memory \in Memory
  /\ r.at = "idle" => r.kind = "use"
  /\ r.at = "waiting" => r.kind \in Reader
  /\ r.at \in {"saved", "writing"} => r.kind \in Writer
  /\ r.kind \in Writer => r.document \in Document
  /\ r.kind = "command" /\ r.at # "done" => r.rag = None
  /\ r.at \in Making /\ r.kind \in Writer => r.memory \in Remote
  /\ r.at \in {"opening", "recreating"} => r.memory \in Remote
  /\ r.at = "writing" => r.rag \in Call

Placed == \A c \in Call : Proper(call[c])

LEMMA FreedProperties ==
  ASSUME NEW c, queue \in [Call -> Seq(Call)]
  PROVE  /\ Freed(c) \in [Call -> Seq(Call)]
         /\ \A l \in Call : (\E i \in 1..Len(queue[l]) : queue[l][i] = c) => Freed(c)[l] = Tail(queue[l])
         /\ \A l \in Call : (\A i \in 1..Len(queue[l]) : queue[l][i] # c) => Freed(c)[l] = queue[l]
<1>1. \A l \in Call : l \in LockOf(c) <=> \E i \in 1..Len(queue[l]) : queue[l][i] = c
  BY DEF LockOf, ToSet
<1>2. \A l \in Call : l \in LockOf(c) => Tail(queue[l]) \in Seq(Call)
  BY <1>1
<1>3. \A l \in Call : queue[l] \in Seq(Call)
  OBVIOUS
<1> QED
  BY <1>1, <1>2, <1>3 DEF Freed

\* What a step of call c leaves: everybody else's record, a typed one of its own.
LEMMA OneCallMoves ==
  ASSUME NEW c \in Call, NEW r \in Record, call \in [Call -> Record], Placed,
         call' = [call EXCEPT ![c] = r], Proper(r)
  PROVE  call' \in [Call -> Record] /\ Placed'
<1>1. call' \in [Call -> Record]
  OBVIOUS
<1>2. ASSUME NEW d \in Call PROVE Proper(call'[d])
  BY DEF Placed
<1> QED
  BY <1>1, <1>2 DEF Placed

LEMMA GoKeepsTypes ==
  ASSUME NEW c \in Call, NEW stage \in Making \cup {"indexing"}, Go(c, stage),
         call \in [Call -> Record], Placed, call[c].at # "idle", call[c].at # "done",
         call[c].kind \in Writer => call[c].memory \in Remote,
         stage \in {"opening", "recreating"} => call[c].memory \in Remote
  PROVE  call' \in [Call -> Record] /\ Placed'
<1> DEFINE r == [call[c] EXCEPT !.at = stage]
<1>1. call' = [call EXCEPT ![c] = r]
  BY DEF Go
<1>2. call[c] \in Record /\ Proper(call[c])
  BY DEF Placed
<1>3. r \in Record /\ Proper(r)
  BY <1>2 DEF Record, Proper, Making, Stage, Reader, Writer
<1> QED
  BY <1>1, <1>3, OneCallMoves

LEMMA ReturnKeepsTypes ==
  ASSUME NEW c \in Call, NEW rag \in Call \cup {None}, Return(c, rag),
         call \in [Call -> Record], Placed, call[c].at # "idle"
  PROVE  call' \in [Call -> Record] /\ Placed'
<1> DEFINE r == [call[c] EXCEPT !.at = "done", !.rag = rag, !.read = {}, !.asked = {}]
<1>1. call' = [call EXCEPT ![c] = r]
  BY DEF Return
<1>2. call[c] \in Record /\ Proper(call[c])
  BY DEF Placed
<1>3. r \in Record /\ Proper(r)
  BY <1>2 DEF Record, Proper, Making, Stage, Reader, Writer
<1> QED
  BY <1>1, <1>3, OneCallMoves

LEMMA TypeInit == ASSUME Init PROVE TypeOK /\ Placed
<1>1. cache \in Seq(Call) /\ Len(cache) <= MaxCache
  BY ProviderAssumption DEF Init
<1>2. \A c \in Call : call[c] = Idle
  BY DEF Init
<1>3. index \in [Call \cup Memory -> SUBSET Document]
  BY ProviderAssumption DEF Init
<1> QED
  BY <1>1, <1>2, <1>3 DEF Init, TypeOK, Placed, Proper, Idle, Reader, Writer, Stage, Making

LEMMA TypeStep == ASSUME TypeOK, Placed, [Next]_vars PROVE TypeOK' /\ Placed'
<1> USE DEF Idle, Reader, Writer, Stage, Making
<1>0. /\ call \in [Call -> Record] /\ documents \in [Memory -> SUBSET Document]
      /\ signed \in [Memory -> BOOLEAN] /\ cache \in Seq(Call) /\ Len(cache) <= MaxCache
      /\ lock \in [Memory -> Call \cup {None}] /\ queue \in [Call -> Seq(Call)]
      /\ index \in [Call \cup Memory -> SUBSET Document]
      /\ MaxCache \in Nat /\ Remote \subseteq Memory
  BY ProviderAssumption DEF TypeOK, Record
<1>a. \A c \in Call : Proper(call[c]) /\ call[c] \in Record
  BY <1>0 DEF Placed
<1> DEFINE Goal == /\ call' \in [Call -> Record] /\ documents' \in [Memory -> SUBSET Document]
                   /\ signed' \in [Memory -> BOOLEAN] /\ cache' \in Seq(Call) /\ Len(cache') <= MaxCache
                   /\ lock' \in [Memory -> Call \cup {None}] /\ queue' \in [Call -> Seq(Call)]
                   /\ index' \in [Call \cup Memory -> SUBSET Document]
                   /\ Placed'
<1> SUFFICES Goal
  BY DEF TypeOK, Record
<1>1. CASE ClearCache
  BY <1>0, <1>1 DEF ClearCache, Placed, Proper
<1>2. ASSUME NEW c \in Call, NEW m \in Memory, NEW kind \in Reader, Ask(c, m, kind)
      PROVE  Goal
  <2>1. /\ documents' = documents /\ signed' = signed /\ index' = index
    BY <1>2 DEF Ask
  <2>2. call' \in [Call -> Record] /\ Placed'
    <3> DEFINE asked == [Idle EXCEPT !.kind = kind, !.memory = m,
                                     !.asked = IF kind = "force" THEN documents[m] ELSE {}]
    <3>1. CASE call' = [call EXCEPT ![c] = [asked EXCEPT !.at = "done", !.rag = cache[Slot(m)]]]
               /\ IsCached(m)
      <4> DEFINE r == [asked EXCEPT !.at = "done", !.rag = cache[Slot(m)]]
      <4>1. cache[Slot(m)] \in Call
        BY <1>0, <3>1, SlotIsOne
      <4>2. r \in Record /\ Proper(r)
        BY <1>0, <4>1, ProviderAssumption DEF Record, Proper
      <4> QED
        BY <1>0, <3>1, <4>2, OneCallMoves
    <3>2. ASSUME NEW stage \in {"building", "waiting"},
                 call' = [call EXCEPT ![c] = [asked EXCEPT !.at = stage]]
          PROVE  call' \in [Call -> Record] /\ Placed'
      <4> DEFINE r == [asked EXCEPT !.at = stage]
      <4>1. r \in Record /\ Proper(r)
        BY <1>0, ProviderAssumption DEF Record, Proper
      <4> QED
        BY <1>0, <3>2, <4>1, OneCallMoves
    <3> QED
      BY <1>2, <3>1, <3>2 DEF Ask
  <2>3. cache' \in Seq(Call) /\ Len(cache') <= MaxCache
    BY <1>0, <1>2, UsedProperties, WithoutProperties DEF Ask
  <2>4. LockFor(c, m) \in Call
    BY <1>0 DEF LockFor
  <2>5. lock' \in [Memory -> Call \cup {None}]
    BY <1>0, <1>2, <2>4 DEF Ask
  <2>6. queue' \in [Call -> Seq(Call)]
    <3>1. Append(queue[LockFor(c, m)], c) \in Seq(Call)
      BY <1>0, <2>4
    <3> QED
      BY <1>0, <1>2, <2>4, <3>1 DEF Ask
  <2> QED
    BY <1>0, <2>1, <2>2, <2>3, <2>5, <2>6
<1>3. ASSUME NEW c \in Call, Resume(c) PROVE Goal
  <2>1. /\ documents' = documents /\ signed' = signed /\ index' = index /\ lock' = lock
    BY <1>3 DEF Resume
  <2>2. call' \in [Call -> Record] /\ Placed'
    <3>1. CASE Go(c, "building")
      BY <1>0, <1>a, <1>3, <3>1, GoKeepsTypes DEF Resume, Proper
    <3>2. CASE IsCached(call[c].memory) /\ Return(c, cache[Slot(call[c].memory)])
      <4>1. cache[Slot(call[c].memory)] \in Call
        BY <1>0, <3>2, SlotIsOne
      <4> QED
        BY <1>0, <1>3, <3>2, <4>1, ReturnKeepsTypes DEF Resume
    <3> QED
      BY <1>3, <3>1, <3>2 DEF Resume
  <2>3. cache' \in Seq(Call) /\ Len(cache') <= MaxCache
    BY <1>0, <1>3, UsedProperties DEF Resume
  <2>4. queue' \in [Call -> Seq(Call)]
    BY <1>0, <1>3, FreedProperties DEF Resume
  <2> QED
    BY <1>0, <2>1, <2>2, <2>3, <2>4
\* Giving up, and what leads to it.
<1>4. ASSUME NEW c \in Call, GiveUp(c), call[c].at \notin {"idle", "done"},
             UNCHANGED <<documents, cache, lock, index>>
      PROVE  Goal
  <2>1. call' \in [Call -> Record] /\ Placed'
    BY <1>0, <1>4, ReturnKeepsTypes DEF GiveUp
  <2>2. queue' \in [Call -> Seq(Call)] /\ signed' \in [Memory -> BOOLEAN]
    BY <1>0, <1>4, FreedProperties DEF GiveUp
  <2> QED
    BY <1>0, <1>4, <2>1, <2>2
<1>5. ASSUME NEW c \in Call, Read(c) PROVE Goal
  <2>1. CASE GiveUp(c)
    BY <1>4, <1>5, <2>1 DEF Read
  <2>2. CASE ~GiveUp(c)
    <3>1. call' \in [Call -> Record] /\ Placed'
      <4> DEFINE docs == documents[call[c].memory]
      <4>1. PICK stage \in {"indexing", "recreating", "opening"} :
              /\ stage \in {"opening", "recreating"} => call[c].memory \in Remote
              /\ call' = [call EXCEPT ![c] = [call[c] EXCEPT !.read = docs, !.at = stage]]
        BY <1>5, <2>2 DEF Read
      <4> DEFINE r == [call[c] EXCEPT !.read = docs, !.at = stage]
      <4>2. call[c].at = "building" /\ docs \in SUBSET Document
        BY <1>0, <1>a, <1>5 DEF Read, Proper
      <4>3. r \in Record
        BY <1>a, <4>2 DEF Record
      <4>4. Proper(r)
        BY <1>a, <4>1, <4>2 DEF Record, Proper
      <4> QED
        BY <1>0, <4>1, <4>3, <4>4, OneCallMoves
    <3> QED
      BY <1>0, <1>5, <2>2, <3>1 DEF Read
  <2> QED
    BY <2>1, <2>2
\* An instance is built, once its index is there or was written.
<1>6. ASSUME NEW c \in Call, Built(c), call[c].at \in {"opening", "indexing"}, documents' = documents,
             index' \in [Call \cup Memory -> SUBSET Document]
      PROVE  Goal
  <2> DEFINE m == call[c].memory
             full == IF IsCached(m) THEN ReplaceAt(cache, Slot(m), c) ELSE Append(cache, c)
  <2>1. call' \in [Call -> Record] /\ Placed'
    <3>1. CASE Return(c, c)
      BY <1>0, <1>6, <3>1, ReturnKeepsTypes
    <3>2. CASE /\ call[c].kind \in Writer
               /\ call' = [call EXCEPT ![c].at = "writing", ![c].rag = c]
      <4> DEFINE r == [call[c] EXCEPT !.at = "writing", !.rag = c]
      <4>1. r \in Record /\ Proper(r)
        BY <1>6, <1>a, <3>2 DEF Record, Proper
      <4> QED
        BY <1>0, <3>2, <4>1, OneCallMoves
    <3> QED
      BY <1>6, <3>1, <3>2 DEF Built
  <2>2. full \in Seq(Call) /\ Len(full) <= MaxCache + 1
    BY <1>0, SlotIsOne DEF ReplaceAt
  <2>3. CASE call[c].kind \in Reader
    <3>1. cache' = IF Len(full) > MaxCache THEN Tail(full) ELSE full
      BY <1>6, <2>3 DEF Built
    <3>2. cache' \in Seq(Call) /\ Len(cache') <= MaxCache
      <4> HIDE DEF full
      <4> QED
        BY <1>0, <2>2, <3>1
    <3>3. lock' \in [Memory -> Call \cup {None}]
      BY <1>0, <1>6, <2>3 DEF Built
    <3>4. queue' \in [Call -> Seq(Call)]
      <4>1. queue' = Freed(c)
        BY <1>6, <2>3 DEF Built
      <4> QED
        BY <1>0, <4>1, FreedProperties
    <3>5. signed' = signed
      BY <1>6, <2>3 DEF Built
    <3> QED
      BY <1>0, <1>6, <2>1, <3>2, <3>3, <3>4, <3>5
  <2>4. CASE call[c].kind \notin Reader
    BY <1>0, <1>6, <2>1, <2>4 DEF Built
  <2> QED
    BY <2>3, <2>4
<1>7. ASSUME NEW c \in Call, Open(c) PROVE Goal
  <2>1. CASE Built(c)
    BY <1>0, <1>6, <1>7, <2>1 DEF Open
  <2>2. CASE ~Built(c)
    <3>1. call' \in [Call -> Record] /\ Placed'
      BY <1>0, <1>a, <1>7, <2>2, GoKeepsTypes DEF Open, Proper
    <3> QED
      BY <1>0, <1>7, <2>2, <3>1 DEF Open
  <2> QED
    BY <2>1, <2>2
<1>8. ASSUME NEW c \in Call, Recreate(c) PROVE Goal
  <2>1. call' \in [Call -> Record] /\ Placed'
    BY <1>0, <1>a, <1>8, GoKeepsTypes DEF Recreate, Proper
  <2> QED
    BY <1>0, <1>8, <2>1 DEF Recreate
<1>9. ASSUME NEW c \in Call, Index(c) PROVE Goal
  <2>1. call[c].memory \in Memory /\ call[c].read \in SUBSET Document
    BY <1>0, <1>a, <1>9 DEF Index, Proper, Record
  <2>2. index' \in [Call \cup Memory -> SUBSET Document]
    BY <1>0, <1>9, <2>1 DEF Index, Store
  <2> QED
    BY <1>6, <1>9, <2>2 DEF Index
<1>10. ASSUME NEW c \in Call, BuildFails(c) PROVE Goal
  BY <1>4, <1>10 DEF BuildFails
<1>11. ASSUME NEW c \in Call, NEW m \in Memory, NEW d \in Document, Save(c, m, d) \/ Delete(c, m, d)
       PROVE  Goal
  <2>1. PICK kind \in Writer :
          call' = [call EXCEPT ![c] = [Idle EXCEPT !.kind = kind, !.memory = m,
                                                   !.document = d, !.at = "saved"]]
    BY <1>11 DEF Save, Delete
  <2> DEFINE r == [Idle EXCEPT !.kind = kind, !.memory = m, !.document = d, !.at = "saved"]
  <2>2. r \in Record /\ Proper(r)
    BY ProviderAssumption DEF Record, Proper
  <2>3. call' \in [Call -> Record] /\ Placed'
    BY <1>0, <2>1, <2>2, OneCallMoves
  <2> QED
    BY <1>0, <1>11, <2>3 DEF Save, Delete
<1>12. ASSUME NEW c \in Call, Pick(c) PROVE Goal
  <2>1. call' \in [Call -> Record] /\ Placed'
    <3>1. CASE Return(c, None)
      BY <1>0, <1>12, <3>1, ReturnKeepsTypes DEF Pick
    <3>2. CASE call[c].memory \in Remote /\ Go(c, "building")
      BY <1>0, <1>12, <3>2, GoKeepsTypes DEF Pick
    <3>3. CASE /\ IsCached(call[c].memory)
               /\ call' = [call EXCEPT ![c].at = "writing", ![c].rag = cache[Slot(call[c].memory)]]
      <4> DEFINE i == cache[Slot(call[c].memory)]
                 r == [call[c] EXCEPT !.at = "writing", !.rag = i]
      <4>1. i \in Call
        BY <1>0, <3>3, SlotIsOne
      <4>2. call[c].at = "saved"
        BY <1>12 DEF Pick
      <4> HIDE DEF i
      <4>3. r \in Record /\ Proper(r)
        BY <1>a, <4>1, <4>2 DEF Record, Proper
      <4>4. call' = [call EXCEPT ![c] = r]
        BY <3>3 DEF i
      <4> QED
        BY <1>0, <4>3, <4>4, OneCallMoves
    <3> QED
      BY <1>12, <3>1, <3>2, <3>3 DEF Pick
  <2> QED
    BY <1>0, <1>12, <2>1 DEF Pick
<1>13. ASSUME NEW c \in Call, Write(c) PROVE Goal
  <2>1. call' \in [Call -> Record] /\ Placed'
    BY <1>0, <1>a, <1>13, ReturnKeepsTypes DEF Write, Proper
  <2>2. call[c].document \in Document /\ call[c].rag \in Call
    BY <1>a, <1>13 DEF Write, Proper
  <2>3. index' \in [Call \cup Memory -> SUBSET Document]
    BY <1>0, <1>13, <2>2 DEF Write
  <2> QED
    BY <1>0, <1>13, <2>1, <2>3 DEF Write
<1>14. ASSUME NEW c \in Call, WriteFails(c) PROVE Goal
  BY <1>4, <1>14 DEF WriteFails
<1>15. ASSUME NEW c \in Call, NEW m \in Memory, Command(c, m) PROVE Goal
  <2>1. call' \in [Call -> Record] /\ Placed'
    <3> DEFINE r == [Idle EXCEPT !.kind = "command", !.memory = m, !.at = "building"]
    <3>1. call' = [call EXCEPT ![c] = r]
      BY <1>15 DEF Command
    <3>2. r \in Record /\ Proper(r)
      BY <3>1, ProviderAssumption DEF Record, Proper
    <3> QED
      BY <1>0, <3>1, <3>2, OneCallMoves
  <2> QED
    BY <1>0, <1>15, <2>1 DEF Command
<1>16. CASE UNCHANGED vars
  BY <1>0, <1>16 DEF vars, Placed, Proper
<1> QED
  BY <1>1, <1>2, <1>3, <1>5, <1>7, <1>8, <1>9, <1>10, <1>11, <1>12, <1>13, <1>14, <1>15, <1>16
     DEF Next, Work

\* Every variable keeps its type, whatever callers, backends and the command
\* do: the cache stays within its size, and no step takes a call for another.
THEOREM TypeCorrect == Spec => []TypeOK
<1>1. TypeOK /\ Placed /\ [Next]_vars => TypeOK' /\ Placed'
  BY TypeStep
<1> QED
  BY <1>1, TypeInit, PTL DEF Spec

(***************************************************************************)
(* One turn of a coroutine: nobody else's call changes, and its own keeps  *)
(* what it was asked for.                                                  *)
(***************************************************************************)
Turn(c) ==
  \/ Work(c)
  \/ \E m \in Memory :
        \/ \E kind \in Reader : Ask(c, m, kind)
        \/ Command(c, m)
        \/ \E d \in Document : Save(c, m, d) \/ Delete(c, m, d)

LEMMA NextIsATurn == Next <=> ClearCache \/ \E c \in Call : Turn(c)
BY DEF Next, Turn

\* What c does to its own call.
Mine(c) ==
  /\ \A x \in Call : x # c => call'[x] = call[x]
  /\ call'[c].kind = call[c].kind /\ call'[c].memory = call[c].memory
  /\ call'[c].document = call[c].document

LEMMA ReturnFacts ==
  ASSUME call \in [Call -> Record], NEW c \in Call, NEW rag, Return(c, rag)
  PROVE  /\ Mine(c)
         /\ call'[c].at = "done" /\ call'[c].rag = rag
         /\ call'[c].read = {} /\ call'[c].asked = {}
<1>1. call[c] \in Record
  OBVIOUS
<1> QED
  BY <1>1 DEF Return, Mine, Record

LEMMA GoFacts ==
  ASSUME call \in [Call -> Record], NEW c \in Call, NEW stage, Go(c, stage)
  PROVE  /\ Mine(c)
         /\ call'[c].at = stage /\ call'[c].rag = call[c].rag
         /\ call'[c].read = call[c].read /\ call'[c].asked = call[c].asked
<1>1. call[c] \in Record
  OBVIOUS
<1> QED
  BY <1>1 DEF Go, Mine, Record

LEMMA ReadFacts ==
  ASSUME call \in [Call -> Record], NEW c \in Call, Read(c)
  PROVE  /\ call[c].at = "building" /\ Mine(c)
         /\ \/ GiveUp(c)
            \/ /\ UNCHANGED <<signed, queue>> /\ call'[c].rag = call[c].rag
               /\ call'[c].read = documents[call[c].memory] /\ call'[c].asked = call[c].asked
               /\ \/ call[c].memory \notin Remote /\ call'[c].at = "indexing"
                  \/ call[c].memory \in Remote /\ call'[c].at \in {"opening", "recreating"}
<1>1. call[c] \in Record
  OBVIOUS
<1>2. CASE GiveUp(c)
  BY <1>2, ReturnFacts DEF Read, GiveUp
<1>3. CASE ~GiveUp(c)
  <2>1. PICK stage \in {"indexing", "recreating", "opening"} :
          /\ call' = [call EXCEPT ![c].read = documents[call[c].memory], ![c].at = stage]
          /\ \/ call[c].memory \notin Remote /\ stage = "indexing"
             \/ call[c].memory \in Remote /\ stage \in {"opening", "recreating"}
    BY <1>3 DEF Read
  <2> QED
    BY <1>1, <1>3, <2>1 DEF Read, Mine, Record
<1> QED
  BY <1>2, <1>3

LEMMA AskFacts ==
  ASSUME call \in [Call -> Record], NEW c \in Call, NEW m, NEW kind, Ask(c, m, kind)
  PROVE  /\ \A x \in Call : x # c => call'[x] = call[x]
         /\ call[c].at = "idle" /\ call'[c].kind = kind /\ call'[c].memory = m
         /\ call'[c].asked = IF kind = "force" THEN documents[m] ELSE {}
         /\ \/ /\ IsCached(m) /\ kind = "use" /\ cache' = Used(m) /\ UNCHANGED <<lock, queue>>
               /\ call'[c].at = "done" /\ call'[c].rag = cache[Slot(m)]
            \/ /\ ~(IsCached(m) /\ kind = "use") /\ cache' = Without(m)
               /\ lock' = [lock EXCEPT ![m] = LockFor(c, m)]
               /\ queue' = [queue EXCEPT ![LockFor(c, m)] = Append(@, c)]
               /\ call'[c].at = IF queue[LockFor(c, m)] = <<>> THEN "building" ELSE "waiting"
         /\ UNCHANGED <<documents, signed, index>>
<1> DEFINE asked == [Idle EXCEPT !.kind = kind, !.memory = m,
                                 !.asked = IF kind = "force" THEN documents[m] ELSE {}]
<1>1. CASE /\ IsCached(m) /\ kind = "use" /\ cache' = Used(m) /\ UNCHANGED <<lock, queue>>
           /\ call' = [call EXCEPT ![c] = [asked EXCEPT !.at = "done", !.rag = cache[Slot(m)]]]
  BY <1>1 DEF Ask, Idle
<1>2. CASE /\ ~(IsCached(m) /\ kind = "use") /\ cache' = Without(m)
           /\ lock' = [lock EXCEPT ![m] = LockFor(c, m)]
           /\ queue' = [queue EXCEPT ![LockFor(c, m)] = Append(@, c)]
           /\ call' = [call EXCEPT ![c] =
                 [asked EXCEPT !.at = IF queue[LockFor(c, m)] = <<>> THEN "building" ELSE "waiting"]]
  BY <1>2 DEF Ask, Idle
<1> QED
  BY <1>1, <1>2 DEF Ask

LEMMA SignalFacts ==
  ASSUME call \in [Call -> Record], NEW c \in Call, NEW m, NEW d,
         Save(c, m, d) \/ Delete(c, m, d)
  PROVE  /\ \A x \in Call : x # c => call'[x] = call[x]
         /\ call[c].at = "idle" /\ call'[c].at = "saved"
         /\ call'[c].memory = m /\ call'[c].document = d
         /\ Save(c, m, d) => call'[c].kind = "save"
         /\ Delete(c, m, d) => call'[c].kind = "delete"
<1> DEFINE Signal == /\ \A x \in Call : x # c => call'[x] = call[x]
                     /\ call[c].at = "idle" /\ call'[c].at = "saved"
                     /\ call'[c].memory = m /\ call'[c].document = d
<1>1. Save(c, m, d) => Signal /\ call'[c].kind = "save"
  BY DEF Save, Idle
<1>2. Delete(c, m, d) => Signal /\ call'[c].kind = "delete"
  BY DEF Delete, Idle
<1> QED
  BY <1>1, <1>2

LEMMA CommandFacts ==
  ASSUME call \in [Call -> Record], NEW c \in Call, NEW m, Command(c, m)
  PROVE  /\ \A x \in Call : x # c => call'[x] = call[x]
         /\ call[c].at = "idle" /\ call'[c].at = "building"
         /\ call'[c].memory = m /\ call'[c].kind = "command"
BY DEF Command, Idle

LEMMA PickFacts ==
  ASSUME call \in [Call -> Record], NEW c \in Call, Pick(c)
  PROVE  /\ Mine(c) /\ call[c].at = "saved"
         /\ \/ Return(c, None)
            \/ /\ IsCached(call[c].memory) /\ call'[c].at = "writing" /\ call'[c].asked = call[c].asked
               /\ call'[c].rag = cache[Slot(call[c].memory)] /\ UNCHANGED signed
            \/ call[c].memory \in Remote /\ Go(c, "building") /\ UNCHANGED signed
<1>1. call[c] \in Record
  OBVIOUS
<1>4. call[c].at = "saved"
  BY DEF Pick
<1>2. CASE Return(c, None) \/ Go(c, "building")
  <2>1. CASE Return(c, None)
    BY <1>4, <2>1, ReturnFacts
  <2>2. CASE Go(c, "building")
    <3>1. call'[c].at = "building"
      BY <2>2, GoFacts
    <3> QED
      BY <1>1, <1>4, <2>2, <3>1, GoFacts DEF Pick, Return, Record
  <2> QED
    BY <1>2, <2>1, <2>2
<1>3. CASE /\ IsCached(call[c].memory) /\ UNCHANGED signed
           /\ call' = [call EXCEPT ![c].at = "writing", ![c].rag = cache[Slot(call[c].memory)]]
  BY <1>1, <1>3, <1>4 DEF Mine, Record
<1> QED
  BY <1>2, <1>3 DEF Pick

LEMMA BuiltFacts ==
  ASSUME call \in [Call -> Record], NEW c \in Call, Built(c), Proper(call[c]),
         call[c].at \in {"opening", "indexing"}
  PROVE  /\ Mine(c) /\ call'[c].rag = c
         /\ \/ call[c].kind \in Reader /\ Return(c, c) /\ signed' = signed
            \/ /\ call[c].kind \in Writer /\ call[c].memory \in Remote /\ call'[c].at = "writing"
               /\ call'[c].asked = call[c].asked /\ UNCHANGED <<signed, cache, lock, queue>>
            \/ /\ call[c].kind = "command" /\ Return(c, c)
               /\ signed' = [signed EXCEPT ![call[c].memory] = TRUE] /\ UNCHANGED <<cache, lock, queue>>
<1>1. call[c] \in Record
  OBVIOUS
<1>2. CASE call[c].kind \in Reader
  BY <1>2, ReturnFacts DEF Built, Reader, Writer
<1>3. CASE call[c].kind \in Writer
  BY <1>1, <1>3 DEF Built, Mine, Record, Proper, Making, Reader, Writer
<1>4. CASE call[c].kind = "command"
  BY <1>4, ReturnFacts DEF Built, Proper, Reader, Writer
<1> QED
  BY <1>2, <1>3, <1>4 DEF Built

\* A turn of a coroutine that has begun: it returns, or goes on with what it
\* was asked, having read the documents if it was to.
LEMMA TurnsGoOn ==
  ASSUME TypeOK, Placed, NEW c \in Call, Turn(c), call[c].at # "idle"
  PROVE  /\ Work(c) /\ Mine(c) /\ call[c].at # "done"
         /\ call'[c].at = "done" => call'[c].asked = {}
         /\ call'[c].at # "done" =>
              /\ call'[c].at # "idle" /\ call'[c].asked = call[c].asked
              /\ call'[c].at \in {"opening", "recreating", "indexing"} =>
                   \/ call[c].at \in {"opening", "recreating", "indexing"} /\ call'[c].read = call[c].read
                   \/ call'[c].read = documents[call[c].memory]
<1> DEFINE Goal ==
         /\ Mine(c) /\ call[c].at # "done"
         /\ call'[c].at = "done" => call'[c].asked = {}
         /\ call'[c].at # "done" =>
              /\ call'[c].at # "idle" /\ call'[c].asked = call[c].asked
              /\ call'[c].at \in {"opening", "recreating", "indexing"} =>
                   \/ call[c].at \in {"opening", "recreating", "indexing"} /\ call'[c].read = call[c].read
                   \/ call'[c].read = documents[call[c].memory]
<1>0. call \in [Call -> Record] /\ Proper(call[c])
  BY DEF TypeOK, Record, Placed
<1>1. Work(c)
  BY <1>0 DEF Turn, Ask, Command, Save, Delete
<1> HIDE DEF Goal
<1> SUFFICES Goal
  BY <1>1 DEF Goal
<1> USE DEF Goal
<1>2. ASSUME NEW rag, Return(c, rag), call[c].at # "done" PROVE Goal
  BY <1>0, <1>2, ReturnFacts
<1>3. CASE Resume(c)
  BY <1>0, <1>2, <1>3, GoFacts DEF Resume
<1>4. CASE Read(c)
  BY <1>0, <1>2, <1>4, ReadFacts DEF GiveUp
<1>5. ASSUME Built(c), call[c].at \in {"opening", "indexing"} PROVE Goal
  BY <1>0, <1>2, <1>5, BuiltFacts
<1>6. CASE Open(c) \/ Recreate(c) \/ Index(c)
  BY <1>0, <1>5, <1>6, GoFacts DEF Open, Recreate, Index
<1>7. CASE BuildFails(c) \/ WriteFails(c) \/ Write(c)
  BY <1>2, <1>7 DEF BuildFails, WriteFails, Write, GiveUp
<1>8. CASE Pick(c)
  <2>1. call[c].at = "saved" /\ Mine(c)
    BY <1>0, <1>8, PickFacts
  <2>2. CASE Return(c, None)
    BY <1>2, <2>1, <2>2
  <2>3. CASE Go(c, "building")
    BY <1>0, <2>1, <2>3, GoFacts
  <2>4. CASE call'[c].at = "writing" /\ call'[c].asked = call[c].asked
    BY <2>1, <2>4
  <2> QED
    BY <1>0, <1>8, <2>2, <2>3, <2>4, PickFacts
<1> QED
  BY <1>1, <1>3, <1>4, <1>6, <1>7, <1>8 DEF Work

\* A turn that begins a call.
LEMMA TurnsBegin ==
  ASSUME TypeOK, Placed, NEW c \in Call, Turn(c), call[c].at = "idle"
  PROVE  /\ \A x \in Call : x # c => call'[x] = call[x]
         /\ call'[c].at \in {"done", "building", "waiting", "saved"}
         /\ call'[c].kind = "force" => call'[c].asked = documents[call'[c].memory]
         /\ ~Work(c)
<1>0. call \in [Call -> Record]
  BY DEF TypeOK, Record
<1>1. ~Work(c)
  BY DEF Work, Resume, Read, Open, Recreate, Index, BuildFails, Pick, Write, WriteFails
<1>2. ASSUME NEW m, NEW kind, Ask(c, m, kind)
      PROVE  /\ \A x \in Call : x # c => call'[x] = call[x]
             /\ call'[c].at \in {"done", "building", "waiting"}
             /\ call'[c].kind = "force" => call'[c].asked = documents[call'[c].memory]
  BY <1>0, <1>2, AskFacts
<1>3. ASSUME NEW m, NEW d, Command(c, m) \/ Save(c, m, d) \/ Delete(c, m, d)
      PROVE  /\ \A x \in Call : x # c => call'[x] = call[x]
             /\ call'[c].at \in {"building", "saved"} /\ call'[c].kind # "force"
  <2>1. CASE Command(c, m)
    BY <1>0, <2>1, CommandFacts
  <2>2. CASE Save(c, m, d) \/ Delete(c, m, d)
    BY <1>0, <2>2, SignalFacts
  <2> QED
    BY <1>3, <2>1, <2>2
<1> QED
  BY <1>1, <1>2, <1>3 DEF Turn

LEMMA TurnsAreOwn ==
  ASSUME TypeOK, Placed, NEW c \in Call, Turn(c)
  PROVE  /\ \A x \in Call : x # c => call'[x] = call[x]
         /\ call[c].at # "done" /\ call'[c].at # "idle"
         /\ call[c].at # "idle" => Mine(c)
BY TurnsGoOn, TurnsBegin DEF Mine

\* What a turn does to the rows: nothing, unless it is a save or a deletion.
LEMMA RowsChangeBySignals ==
  ASSUME TypeOK, NEW c \in Call, Turn(c)
  PROVE  \/ documents' = documents
         \/ \E m \in Memory, d \in Document : Save(c, m, d) \/ Delete(c, m, d)
<1>1. CASE Work(c)
  BY <1>1 DEF Work, Resume, Read, Open, Recreate, Index, BuildFails, Pick, Write, WriteFails
<1>2. CASE \E m \in Memory : (\E kind \in Reader : Ask(c, m, kind)) \/ Command(c, m)
  BY <1>2 DEF Ask, Command
<1> QED
  BY <1>1, <1>2 DEF Turn

\* Whoever deleted a document did so for good.
LEMMA DeletersStay ==
  ASSUME TypeOK, Placed, NEW c \in Call, Turn(c), NEW m, NEW d, NEW w \in Call,
         Writes(w, "delete", m, d)
  PROVE  Writes(w, "delete", m, d)'
<1>1. call[w].at # "idle"
  BY DEF Writes, Placed, Proper
<1> QED
  BY <1>1, TurnsAreOwn DEF Writes, Mine

(***************************************************************************)
(* A forced reindex.  What it was asked for and is no longer there was     *)
(* deleted for good, so what it read holds all that is still there.        *)
(***************************************************************************)
FreshCall(c) ==
  call[c].kind = "force" =>
    /\ \A d \in call[c].asked : d \notin documents[call[c].memory] =>
          \E w \in Call : Writes(w, "delete", call[c].memory, d)
    /\ call[c].at \in {"opening", "recreating", "indexing"} =>
          call[c].asked \cap documents[call[c].memory] \subseteq call[c].read

FreshInv == \A c \in Call : FreshCall(c)

LEMMA FreshStep ==
  ASSUME TypeOK, Placed, FreshInv, [Next]_vars PROVE FreshInv'
<1> USE DEF Idle, Reader, Writer
<1>0. /\ call \in [Call -> Record] /\ documents \in [Memory -> SUBSET Document]
      /\ \A x \in Call : call[x] \in Record /\ Proper(call[x])
  BY DEF TypeOK, Record, Placed
<1>1. CASE ClearCache \/ UNCHANGED vars
  BY <1>1 DEF ClearCache, vars, FreshInv, FreshCall, Writes
<1>2. ASSUME NEW c \in Call, Turn(c) PROVE FreshInv'
  <2>1. \A x \in Call : x # c => call'[x] = call[x]
    BY <1>2, TurnsAreOwn
  <2>2. \A m, d : \A w \in Call : Writes(w, "delete", m, d) => Writes(w, "delete", m, d)'
    BY <1>2, DeletersStay
  <2>3. CASE documents' = documents
    <3>1. ASSUME NEW x \in Call, x # c PROVE FreshCall(x)'
      BY <2>1, <2>2, <2>3, <3>1 DEF FreshInv, FreshCall
    <3>2. ASSUME call[c].at # "idle" PROVE FreshCall(c)'
      <4>1. /\ call'[c].kind = call[c].kind /\ call'[c].memory = call[c].memory
            /\ call'[c].at = "done" => call'[c].asked = {}
            /\ call'[c].at # "done" =>
                 /\ call'[c].asked = call[c].asked
                 /\ call'[c].at \in {"opening", "recreating", "indexing"} =>
                      \/ call[c].at \in {"opening", "recreating", "indexing"} /\ call'[c].read = call[c].read
                      \/ call'[c].read = documents[call[c].memory]
        BY <1>2, <3>2, TurnsGoOn DEF Mine
      <4>2. FreshCall(c)
        BY DEF FreshInv
      <4> QED
        BY <2>2, <2>3, <4>1, <4>2 DEF FreshCall
    <3>3. ASSUME call[c].at = "idle" PROVE FreshCall(c)'
      BY <1>2, <2>3, <3>3, TurnsBegin DEF FreshCall
    <3> QED
      BY <3>1, <3>2, <3>3 DEF FreshInv
  <2>4. ASSUME NEW m \in Memory, NEW d \in Document, Save(c, m, d) PROVE FreshInv'
    <3>1. /\ documents' = [documents EXCEPT ![m] = @ \cup {d}]
          /\ ~\E w \in Call : Writes(w, "delete", m, d)
          /\ call[c].at = "idle" /\ call'[c].kind = "save"
      BY <1>0, <2>4, SignalFacts DEF Save
    <3>2. ASSUME NEW x \in Call PROVE FreshCall(x)'
      <4>1. CASE x = c
        BY <3>1, <4>1 DEF FreshCall
      <4>2. CASE x # c
        <5>1. call'[x] = call[x] /\ FreshCall(x)
          BY <2>1, <4>2 DEF FreshInv
        <5>2. CASE call[x].kind = "force" /\ call[x].memory \in Memory
          BY <1>0, <2>2, <3>1, <5>1, <5>2 DEF FreshCall
        <5>3. call[x].kind = "force" => call[x].memory \in Memory
          BY <1>0 DEF Proper
        <5> QED
          BY <5>1, <5>2, <5>3 DEF FreshCall
      <4> QED
        BY <4>1, <4>2
    <3> QED
      BY <3>2 DEF FreshInv
  <2>5. ASSUME NEW m \in Memory, NEW d \in Document, Delete(c, m, d) PROVE FreshInv'
    <3>1. /\ documents' = [documents EXCEPT ![m] = @ \ {d}]
          /\ call[c].at = "idle" /\ Writes(c, "delete", m, d)'
      BY <1>0, <2>5, SignalFacts DEF Delete, Writes
    <3>2. ASSUME NEW x \in Call PROVE FreshCall(x)'
      <4>1. CASE x = c
        BY <3>1, <4>1 DEF FreshCall, Writes
      <4>2. CASE x # c
        <5>1. call'[x] = call[x] /\ FreshCall(x)
          BY <2>1, <4>2 DEF FreshInv
        <5>2. CASE call[x].kind = "force" /\ call[x].memory \in Memory
          BY <1>0, <2>2, <3>1, <5>1, <5>2 DEF FreshCall
        <5>3. call[x].kind = "force" => call[x].memory \in Memory
          BY <1>0 DEF Proper
        <5> QED
          BY <5>1, <5>2, <5>3 DEF FreshCall
      <4> QED
        BY <4>1, <4>2
    <3> QED
      BY <3>2 DEF FreshInv
  <2> QED
    BY <1>2, <2>3, <2>4, <2>5, RowsChangeBySignals
<1> QED
  BY <1>1, <1>2, NextIsATurn

LEMMA ForcedReturns ==
  ASSUME TypeOK, Placed, FreshInv, [Next]_vars, NEW c \in Call,
         call[c].kind = "force", call[c].memory \notin Remote, Returns(c)
  PROVE  call[c].asked \cap documents[call[c].memory] \subseteq index'[call'[c].rag]
<1> USE DEF Reader, Writer
<1>0. /\ call \in [Call -> Record] /\ index \in [Call \cup Memory -> SUBSET Document]
      /\ \A x \in Call : call[x] \in Record /\ Proper(call[x])
  BY DEF TypeOK, Record, Placed
<1>1. call[c].at \notin {"idle", "done", "opening", "recreating", "saved", "writing"}
  BY <1>0 DEF Returns, Proper
<1>2. PICK x \in Call : Turn(x)
  BY NextIsATurn DEF Returns, ClearCache, vars
<1>3. x = c
  BY <1>2, TurnsAreOwn DEF Returns
<1>4. Resume(c) \/ Read(c) \/ Index(c) \/ BuildFails(c)
  BY <1>1, <1>2, <1>3
     DEF Turn, Work, Open, Recreate, Pick, Write, WriteFails, Ask, Command, Save, Delete
<1>5. CASE Resume(c) \/ Read(c) \/ BuildFails(c)
  <2>1. \/ Return(c, None) \/ Go(c, "building")
        \/ Read(c) /\ ~GiveUp(c)
    BY <1>5 DEF Resume, Read, BuildFails, GiveUp
  <2> QED
    BY <1>0, <2>1, ReturnFacts, GoFacts, ReadFacts DEF Returns
<1>6. CASE Index(c)
  <2>1. call'[c].rag = c
    BY <1>0, <1>6, BuiltFacts DEF Index
  <2>2. index'[c] = index[c] \cup call[c].read
    BY <1>0, <1>6 DEF Index, Store
  <2>3. call[c].asked \cap documents[call[c].memory] \subseteq call[c].read
    BY <1>6 DEF Index, FreshInv, FreshCall
  <2> QED
    BY <2>1, <2>2, <2>3
<1> QED
  BY <1>4, <1>5, <1>6

LEMMA TypesHold == Spec => [](TypeOK /\ Placed)
<1>1. TypeOK /\ Placed /\ [Next]_vars => TypeOK' /\ Placed'
  BY TypeStep
<1> QED
  BY <1>1, TypeInit, PTL DEF Spec

\* A forced reindex of a local memory returns an instance that holds all that
\* was there when it was asked for and is there still, whoever saves, deletes
\* and rebuilds meanwhile: a waiter that is forced never takes the instance
\* built before it (_get_or_create_rag with force_reindex).
THEOREM ForcedReindexesAreFresh == Spec => ForcedReindexIsFresh
<1>1. Init => FreshInv
  BY DEF Init, FreshInv, FreshCall, Idle
<1>2. TypeOK /\ Placed /\ FreshInv /\ [Next]_vars => FreshInv'
  BY FreshStep
<1>3. TypeOK /\ Placed /\ FreshInv /\ [Next]_vars =>
        [\A c \in Call :
            call[c].kind = "force" /\ call[c].memory \notin Remote /\ Returns(c) =>
               call[c].asked \cap documents[call[c].memory] \subseteq index'[call'[c].rag]]_vars
  BY ForcedReturns
<1> QED
  BY <1>1, <1>2, <1>3, TypesHold, PTL DEF Spec, ForcedReindexIsFresh

(***************************************************************************)
(* The cache holds one instance of each memory.  When no memory is ever    *)
(* evicted, a memory keeps its lock for good, its readers queue there, and *)
(* who builds is at the head.                                              *)
(***************************************************************************)
\* The cache has room for every memory.
EveryMemoryFits == IsFiniteSet(Memory) /\ Cardinality(Memory) <= MaxCache

Joined(l) ==
  /\ \A i, j \in 1..Len(queue[l]) : queue[l][i] = queue[l][j] => i = j
  /\ \A i \in 1..Len(queue[l]) :
       /\ call[queue[l][i]].kind \in Reader
       /\ call[queue[l][i]].at \in Making \cup {"waiting"}
       /\ lock[call[queue[l][i]].memory] = l
       /\ i > 1 => call[queue[l][i]].at = "waiting"

LockInv ==
  /\ \A l \in Call : Joined(l)
  /\ \A l \in Call : call[l].at = "idle" => queue[l] = <<>>
  /\ \A m \in Memory : lock[m] # None => call[lock[m]].at # "idle"
  /\ \A c \in Call : Builds(c) => \E l \in Call : queue[l] # <<>> /\ queue[l][1] = c

\* With the instance of c in it: in its memory's place, or as the newest.
Full(c) == IF IsCached(call[c].memory) THEN ReplaceAt(cache, Slot(call[c].memory), c)
                                       ELSE Append(cache, c)

LEMMA FullProperties ==
  ASSUME NEW c \in Call, cache \in Seq(Call), CacheInv
  PROVE  /\ Full(c) \in Seq(Call) /\ Separate(Full(c))
         /\ \A i \in 1..Len(Full(c)) : Full(c)[i] # c =>
              \E j \in 1..Len(cache) : Full(c)[i] = cache[j]
<1> DEFINE m == call[c].memory
           n == Len(cache)
<1>1. CASE IsCached(m)
  <2> DEFINE k == Slot(m)
  <2>1. k \in 1..n /\ call[cache[k]].memory = m
    BY <1>1, SlotIsOne
  <2>2. /\ Full(c) \in Seq(Call) /\ Len(Full(c)) = n
        /\ \A i \in 1..n : Full(c)[i] = IF i = k THEN c ELSE cache[i]
    BY <1>1, <2>1 DEF Full, ReplaceAt
  <2>3. \A i \in 1..n : call[Full(c)[i]].memory = call[cache[i]].memory
    BY <2>1, <2>2
  <2> HIDE DEF k
  <2>4. Separate(Full(c))
    BY <2>2, <2>3 DEF CacheInv, Separate
  <2> QED
    BY <2>2, <2>4
<1>2. CASE ~IsCached(m)
  <2>1. \A i \in 1..n : call[cache[i]].memory # m
    BY <1>2 DEF IsCached, Of
  <2>2. /\ Full(c) \in Seq(Call) /\ Len(Full(c)) = n + 1
        /\ \A i \in 1..n+1 : Full(c)[i] = IF i = n + 1 THEN c ELSE cache[i]
    BY <1>2 DEF Full
  <2>3. Separate(Full(c))
    BY <2>1, <2>2 DEF CacheInv, Separate
  <2> QED
    BY <2>2, <2>3
<1> QED
  BY <1>1, <1>2

LEMMA NothingIsEvicted ==
  ASSUME EveryMemoryFits, NEW s \in Seq(Call), Separate(s),
         \A i \in 1..Len(s) : call[s[i]].memory \in Memory
  PROVE  Len(s) <= MaxCache
<1> DEFINE n == Len(s)
           f == [i \in 1..n |-> call[s[i]].memory]
<1>1. n \in Nat
  OBVIOUS
<1>2. f \in [1..n -> Memory] /\ \A i, j \in 1..n : f[i] = f[j] => i = j
  BY DEF Separate
<1>3. f \in Injection(1..n, Memory)
  BY <1>2 DEF Injection, IsInjective
<1>4. IsFiniteSet(1..n) /\ Cardinality(1..n) = n
  <2> HIDE DEF n
  <2>1. IsFiniteSet(1..n) /\ Cardinality(1..n) = IF 1 > n THEN 0 ELSE n - 1 + 1
    BY <1>1, FS_Interval
  <2> QED
    BY <1>1, <2>1
<1>5. Cardinality(1..n) <= Cardinality(Memory)
  BY <1>3, FS_Injection DEF EveryMemoryFits
<1>6. Cardinality(Memory) \in Nat /\ MaxCache \in Nat
  BY FS_CardinalityType, ProviderAssumption DEF EveryMemoryFits
<1> QED
  BY <1>1, <1>4, <1>5, <1>6 DEF EveryMemoryFits

\* A cache whose instances returned before or return now.
LEMMA CacheMoves ==
  ASSUME NEW c \in Call, NEW s \in Seq(Call), Separate(s), cache' = s,
         \A x \in Call : x # c => call'[x] = call[x],
         \A i \in 1..Len(s) : s[i] # c => call[s[i]].at = "done" /\ call[s[i]].kind \in Reader,
         \A i \in 1..Len(s) : s[i] = c => Mine(c) /\ call'[c].at = "done" /\ call[c].kind \in Reader
  PROVE  CacheInv'
<1>1. \A i \in 1..Len(s) : call'[s[i]].memory = call[s[i]].memory
  BY DEF Mine
<1>2. \A i \in 1..Len(s) : call'[s[i]].at = "done" /\ call'[s[i]].kind \in Reader
  BY DEF Mine
<1> QED
  BY <1>1, <1>2 DEF CacheInv, Ready, Separate

\* What a builder that is done with leaves in the cache, and no lock goes.
LEMMA BuiltReader ==
  ASSUME TypeOK, Placed, CacheInv, EveryMemoryFits, NEW c \in Call, Built(c),
         call[c].at \in {"opening", "indexing"}, call[c].kind \in Reader
  PROVE  /\ cache' = Full(c) /\ lock' = lock /\ queue' = Freed(c) /\ Return(c, c)
         /\ CacheInv'
<1>0. /\ call \in [Call -> Record] /\ cache \in Seq(Call) /\ MaxCache \in Nat
      /\ \A x \in Call : call[x] \in Record /\ Proper(call[x])
  BY ProviderAssumption DEF TypeOK, Record, Placed
<1>1. /\ Full(c) \in Seq(Call) /\ Separate(Full(c))
      /\ \A i \in 1..Len(Full(c)) : Full(c)[i] # c =>
           call[Full(c)[i]].at = "done" /\ call[Full(c)[i]].kind \in Reader
  BY <1>0, FullProperties DEF CacheInv, Ready
<1>2. \A i \in 1..Len(Full(c)) : Full(c)[i] \in Call /\ call[Full(c)[i]].at # "idle"
  BY <1>1
<1>3. \A i \in 1..Len(Full(c)) : call[Full(c)[i]].memory \in Memory
  BY <1>0, <1>2 DEF Proper
<1>4. Len(Full(c)) <= MaxCache
  BY <1>1, <1>3, NothingIsEvicted
<1>5. ~(Len(Full(c)) > MaxCache)
  BY <1>0, <1>1, <1>4
<1>6. /\ cache' = IF Len(Full(c)) > MaxCache THEN Tail(Full(c)) ELSE Full(c)
      /\ lock' = IF Len(Full(c)) > MaxCache
                 THEN [lock EXCEPT ![call[Head(Full(c))].memory] = None] ELSE lock
      /\ queue' = Freed(c) /\ Return(c, c)
  BY DEF Built, Full, Reader, Writer
<1>7. Mine(c) /\ call'[c].at = "done"
  BY <1>0, <1>6, ReturnFacts
<1>8. \A x \in Call : x # c => call'[x] = call[x]
  BY <1>7 DEF Mine
<1>9. CacheInv'
  BY <1>1, <1>5, <1>6, <1>7, <1>8, CacheMoves
<1> QED
  BY <1>5, <1>6, <1>9

\* What a turn may do to the locks and to its place at one.
Stays(c) ==
  /\ UNCHANGED <<lock, queue>> /\ call[c].at \in Making /\ call'[c].at \in Making
Starts(c) ==
  /\ UNCHANGED <<lock, queue>> /\ call[c].at = "waiting" /\ call'[c].at = "building"
  /\ \E l \in LockOf(c) : Head(queue[l]) = c
Leaves(c) ==
  /\ lock' = lock /\ queue' = Freed(c) /\ call'[c].at = "done"
  /\ call[c].at = "waiting" => \E l \in LockOf(c) : Head(queue[l]) = c
Elsewhere(c) ==
  /\ UNCHANGED <<lock, queue>>
  /\ call[c].at = "idle" \/ call[c].kind \notin Reader
  /\ call'[c].at \in {"done", "saved", "writing"} \/ call'[c].kind \notin Reader

LEMMA TurnsAtLocks ==
  ASSUME TypeOK, Placed, CacheInv, EveryMemoryFits, NEW c \in Call, Turn(c)
  PROVE  /\ CacheInv'
         /\ \/ \E m \in Memory, kind \in Reader : Ask(c, m, kind) /\ ~(IsCached(m) /\ kind = "use")
            \/ Elsewhere(c)
            \/ Mine(c) /\ (Stays(c) \/ Starts(c) \/ Leaves(c))
<1> USE DEF Making
<1> DEFINE Goal ==
         /\ CacheInv'
         /\ \/ \E m \in Memory, kind \in Reader : Ask(c, m, kind) /\ ~(IsCached(m) /\ kind = "use")
            \/ Elsewhere(c)
            \/ Mine(c) /\ (Stays(c) \/ Starts(c) \/ Leaves(c))
<1>0. /\ call \in [Call -> Record] /\ cache \in Seq(Call)
      /\ \A x \in Call : call[x] \in Record /\ Proper(call[x])
  BY DEF TypeOK, Record, Placed
<1>1. /\ \A x \in Call : x # c => call'[x] = call[x]
      /\ call[c].at # "done"
  BY TurnsAreOwn
<1>2. \A i \in 1..Len(cache) : /\ cache[i] \in Call /\ cache[i] # c
                              /\ call[cache[i]].at = "done" /\ call[cache[i]].kind \in Reader
  BY <1>0, <1>1 DEF CacheInv, Ready
<1>3. ASSUME cache' = cache PROVE CacheInv'
  BY <1>0, <1>1, <1>2, <1>3, CacheMoves DEF CacheInv
<1>4. ASSUME NEW m, IsCached(m), cache' = Used(m) PROVE CacheInv'
  <2>1. /\ Used(m) \in Seq(Call) /\ Separate(Used(m)) /\ Len(Used(m)) = Len(cache)
        /\ \A i \in 1..Len(cache) : \E j \in 1..Len(cache) : Used(m)[i] = cache[j]
    BY <1>0, <1>4, UsedProperties DEF CacheInv
  <2>2. \A i \in 1..Len(Used(m)) : /\ Used(m)[i] # c /\ call[Used(m)[i]].at = "done"
                                   /\ call[Used(m)[i]].kind \in Reader
    BY <1>2, <2>1
  <2> QED
    BY <1>1, <1>4, <2>1, <2>2, CacheMoves
<1>5. ASSUME NEW m, cache' = Without(m) PROVE CacheInv'
  <2>1. /\ Without(m) \in Seq(Call) /\ Separate(Without(m))
        /\ \A i \in 1..Len(Without(m)) : \E j \in 1..Len(cache) : Without(m)[i] = cache[j]
    BY <1>0, WithoutProperties DEF CacheInv
  <2>2. \A i \in 1..Len(Without(m)) : /\ Without(m)[i] # c /\ call[Without(m)[i]].at = "done"
                                      /\ call[Without(m)[i]].kind \in Reader
    BY <1>2, <2>1
  <2> QED
    BY <1>1, <1>5, <2>1, <2>2, CacheMoves
\* Giving up.
<1>6. ASSUME GiveUp(c), UNCHANGED <<cache, lock>>, call[c].at # "waiting" PROVE Goal
  <2>1. Mine(c) /\ call'[c].at = "done" /\ queue' = Freed(c)
    BY <1>0, <1>6, ReturnFacts DEF GiveUp
  <2> QED
    BY <1>3, <1>6, <2>1 DEF Leaves
<1>7. ASSUME Built(c), call[c].at \in {"opening", "indexing"} PROVE Goal
  <2>1. CASE call[c].kind \in Reader
    <3>1. /\ lock' = lock /\ queue' = Freed(c) /\ Return(c, c) /\ CacheInv'
      BY <1>7, <2>1, BuiltReader
    <3>2. Mine(c) /\ call'[c].at = "done"
      BY <1>0, <3>1, ReturnFacts
    <3> QED
      BY <1>7, <3>1, <3>2 DEF Leaves
  <2>2. CASE call[c].kind \notin Reader
    <3>1. UNCHANGED <<cache, lock, queue>> /\ Mine(c)
      BY <1>0, <1>7, <2>2, BuiltFacts
    <3> QED
      BY <1>3, <2>2, <3>1 DEF Elsewhere, Mine
  <2> QED
    BY <2>1, <2>2
<1>8. ASSUME NEW stage \in Making, Go(c, stage), call[c].at \in Making, UNCHANGED <<cache, lock, queue>>
      PROVE  Goal
  BY <1>0, <1>3, <1>8, GoFacts DEF Stays
<1>9. CASE Resume(c)
  <2>1. /\ lock' = lock /\ call[c].at = "waiting" /\ \E l \in LockOf(c) : Head(queue[l]) = c
    BY <1>9 DEF Resume
  <2>2. CASE Go(c, "building") /\ UNCHANGED <<cache, queue>>
    BY <1>0, <1>3, <2>1, <2>2, GoFacts DEF Starts
  <2>3. CASE /\ IsCached(call[c].memory) /\ cache' = Used(call[c].memory) /\ queue' = Freed(c)
             /\ Return(c, cache[Slot(call[c].memory)])
    <3>1. CacheInv'
      BY <1>4, <2>3
    <3>2. Mine(c) /\ call'[c].at = "done"
      BY <1>0, <2>3, ReturnFacts
    <3> QED
      BY <2>1, <2>3, <3>1, <3>2 DEF Leaves
  <2> QED
    BY <1>9, <2>2, <2>3 DEF Resume
<1>10. CASE Read(c)
  <2>1. call[c].at = "building" /\ UNCHANGED <<cache, lock>>
    BY <1>10 DEF Read
  <2>2. CASE GiveUp(c)
    BY <1>6, <2>1, <2>2
  <2>3. CASE ~GiveUp(c)
    BY <1>0, <1>3, <1>10, <2>1, <2>3, ReadFacts DEF Stays
  <2> QED
    BY <2>2, <2>3
<1>11. CASE Open(c) \/ Recreate(c) \/ Index(c)
  BY <1>7, <1>8, <1>11 DEF Open, Recreate, Index
<1>12. CASE BuildFails(c) \/ WriteFails(c)
  BY <1>6, <1>12 DEF BuildFails, WriteFails
<1>13. CASE Pick(c) \/ Write(c)
  <2>1. UNCHANGED <<cache, lock, queue>> /\ call[c].kind \in Writer
    BY <1>0, <1>13 DEF Pick, Write, Proper
  <2>2. Mine(c)
    BY <1>0, <1>13, PickFacts, ReturnFacts DEF Write
  <2> QED
    BY <1>3, <2>1, <2>2 DEF Elsewhere, Mine, Reader, Writer
<1>14. ASSUME NEW m \in Memory, NEW kind \in Reader, Ask(c, m, kind) PROVE Goal
  <2>1. CASE IsCached(m) /\ kind = "use"
    <3>1. /\ cache' = Used(m) /\ UNCHANGED <<lock, queue>>
          /\ call[c].at = "idle" /\ call'[c].at = "done"
      BY <1>0, <1>14, <2>1, AskFacts
    <3> QED
      BY <1>4, <2>1, <3>1 DEF Elsewhere
  <2>2. CASE ~(IsCached(m) /\ kind = "use")
    <3>1. cache' = Without(m)
      BY <1>0, <1>14, <2>2, AskFacts
    <3> QED
      BY <1>5, <1>14, <2>2, <3>1
  <2> QED
    BY <2>1, <2>2
<1>15. ASSUME NEW m \in Memory, NEW d \in Document, Save(c, m, d) \/ Delete(c, m, d) PROVE Goal
  <2>1. UNCHANGED <<cache, lock, queue>>
    BY <1>15 DEF Save, Delete
  <2>2. call[c].at = "idle" /\ call'[c].at = "saved"
    BY <1>0, <1>15, SignalFacts
  <2> QED
    BY <1>3, <2>1, <2>2 DEF Elsewhere
<1>16. ASSUME NEW m \in Memory, Command(c, m) PROVE Goal
  <2>1. UNCHANGED <<cache, lock, queue>>
    BY <1>16 DEF Command
  <2>2. call[c].at = "idle" /\ call'[c].kind = "command"
    BY <1>0, <1>16, CommandFacts
  <2> QED
    BY <1>3, <2>1, <2>2 DEF Elsewhere, Reader
<1> QED
  BY <1>9, <1>10, <1>11, <1>12, <1>13, <1>14, <1>15, <1>16 DEF Turn, Work

\* The first place at a lock is given up: the others move up.
LEMMA FreedQueue ==
  ASSUME queue \in [Call -> Seq(Call)], NEW c \in Call, NEW l0 \in Call,
         queue[l0] # <<>>, queue[l0][1] = c, Joined(l0),
         \A l \in Call : l # l0 => \A i \in 1..Len(queue[l]) : queue[l][i] # c
  PROVE  /\ \A l \in Call : l # l0 => Freed(c)[l] = queue[l]
         /\ Len(Freed(c)[l0]) = Len(queue[l0]) - 1
         /\ \A i \in 1..Len(Freed(c)[l0]) : /\ i + 1 \in 1..Len(queue[l0])
                                            /\ Freed(c)[l0][i] = queue[l0][i+1]
                                            /\ Freed(c)[l0][i] # c
<1>1. queue[l0] \in Seq(Call) /\ Len(queue[l0]) \in Nat \ {0} /\ 1 \in 1..Len(queue[l0])
  OBVIOUS
<1>2. \A l \in Call : l # l0 => Freed(c)[l] = queue[l]
  BY FreedProperties
<1>3. Freed(c)[l0] = Tail(queue[l0])
  BY <1>1, FreedProperties
<1>4. /\ Len(Tail(queue[l0])) = Len(queue[l0]) - 1
      /\ \A i \in 1..Len(queue[l0])-1 : Tail(queue[l0])[i] = queue[l0][i+1]
  BY <1>1
<1>5. \A i \in 1..Len(queue[l0])-1 : i + 1 \in 1..Len(queue[l0]) /\ i + 1 # 1
  BY <1>1
<1>6. \A i \in 1..Len(queue[l0])-1 : queue[l0][i+1] # c
  BY <1>1, <1>5 DEF Joined
<1>7. Len(queue[l0]) - 1 \in Nat
  BY <1>1
<1> QED
  BY <1>2, <1>3, <1>4, <1>5, <1>6, <1>7

\* Nobody queues at a lock that is not their memory's.
LEMMA OneLock ==
  ASSUME LockInv, NEW l \in Call, NEW k \in Call, NEW i \in 1..Len(queue[l]), NEW j \in 1..Len(queue[k]),
         queue[l][i] = queue[k][j]
  PROVE  l = k
BY DEF LockInv, Joined

LEMMA LockStep ==
  ASSUME TypeOK, Placed, CacheInv, LockInv, EveryMemoryFits, [Next]_vars
  PROVE  CacheInv' /\ LockInv'
<1> USE DEF Making
<1>0. /\ call \in [Call -> Record] /\ cache \in Seq(Call) /\ queue \in [Call -> Seq(Call)]
      /\ lock \in [Memory -> Call \cup {None}] /\ None \notin Call
      /\ \A x \in Call : call[x] \in Record /\ Proper(call[x])
      /\ \A l \in Call : queue[l] \in Seq(Call) /\ Len(queue[l]) \in Nat
  BY ProviderAssumption DEF TypeOK, Record, Placed
<1>1. CASE UNCHANGED vars
  BY <1>1 DEF vars, CacheInv, Ready, Separate, LockInv, Joined, Builds
<1>2. CASE ClearCache
  BY <1>2 DEF ClearCache, CacheInv, Ready, Separate, LockInv, Joined, Builds
<1>3. ASSUME NEW c \in Call, Turn(c) PROVE CacheInv' /\ LockInv'
  <2>1. CacheInv'
    BY <1>3, TurnsAtLocks
  <2>2. /\ \A x \in Call : x # c => call'[x] = call[x]
        /\ call[c].at # "done" /\ call'[c].at # "idle"
    BY <1>3, TurnsAreOwn
  <2>a. \A l \in Call : \A i \in 1..Len(queue[l]) :
          /\ queue[l][i] \in Call /\ call[queue[l][i]].kind \in Reader
          /\ call[queue[l][i]].at \in Making \cup {"waiting"}
    BY <1>0 DEF LockInv, Joined
  <2>b. ASSUME call[c].at \notin Making \cup {"waiting"} \/ call[c].kind \notin Reader,
               NEW l \in Call, NEW i \in 1..Len(queue[l])
        PROVE  queue[l][i] # c
    BY <2>a, <2>b
  <2>c. ASSUME lock' = lock, NEW m \in Memory, lock'[m] # None PROVE call'[lock'[m]].at # "idle"
    <3>1. lock[m] \in Call /\ call[lock[m]].at # "idle"
      BY <1>0, <2>c DEF LockInv
    <3> QED
      BY <2>2, <2>c, <3>1
  <2>3. CASE Elsewhere(c)
    <3>1. UNCHANGED <<lock, queue>>
      BY <2>3 DEF Elsewhere
    <3>2. \A l \in Call : \A i \in 1..Len(queue[l]) : queue[l][i] # c
      BY <2>b, <2>3 DEF Elsewhere
    <3>3. ASSUME NEW l \in Call PROVE Joined(l)'
      BY <2>2, <2>a, <3>1, <3>2 DEF LockInv, Joined
    <3>4. \A x \in Call : Builds(x)' => Builds(x)
      BY <2>2, <2>3 DEF Builds, Elsewhere
    <3> QED
      BY <2>1, <2>2, <2>c, <3>1, <3>3, <3>4 DEF LockInv
  <2>4. CASE Mine(c) /\ (Stays(c) \/ Starts(c))
    <3>1. UNCHANGED <<lock, queue>>
      BY <2>4 DEF Stays, Starts
    <3>2. call'[c].at \in Making /\ call[c].at \in Making \cup {"waiting"}
      BY <2>4 DEF Stays, Starts
    <3>3. \A l \in Call : \A i \in 1..Len(queue[l]) :
             queue[l][i] = c /\ i > 1 => FALSE
      <4>1. ASSUME NEW l \in Call, NEW i \in 1..Len(queue[l]), queue[l][i] = c, i > 1
            PROVE  FALSE
        <5>1. call[c].at = "waiting"
          BY <4>1 DEF LockInv, Joined
        <5>2. PICK k \in Call : c \in ToSet(queue[k]) /\ Head(queue[k]) = c
          BY <2>4, <5>1 DEF Stays, Starts, LockOf
        <5>3. 1 \in 1..Len(queue[k]) /\ queue[k][1] = c
          BY <1>0, <5>2 DEF ToSet
        <5>4. k = l
          BY <4>1, <5>3, OneLock
        <5> QED
          BY <4>1, <5>3, <5>4 DEF LockInv, Joined
      <4> QED
        BY <4>1
    <3>4. ASSUME NEW l \in Call PROVE Joined(l)'
      <4>1. ASSUME NEW i \in 1..Len(queue[l])
            PROVE  /\ call'[queue[l][i]].kind \in Reader
                   /\ call'[queue[l][i]].at \in Making \cup {"waiting"}
                   /\ lock[call'[queue[l][i]].memory] = l
                   /\ i > 1 => call'[queue[l][i]].at = "waiting"
        <5>1. CASE queue[l][i] = c
          BY <2>4, <3>2, <3>3, <5>1 DEF LockInv, Joined, Mine
        <5>2. CASE queue[l][i] # c
          BY <2>2, <2>a, <5>2 DEF LockInv, Joined
        <5> QED
          BY <5>1, <5>2
      <4> QED
        BY <3>1, <4>1 DEF LockInv, Joined
    <3>5. ASSUME NEW x \in Call, Builds(x)' PROVE \E l \in Call : queue[l] # <<>> /\ queue[l][1] = x
      <4>1. CASE x # c
        BY <2>2, <3>5, <4>1 DEF LockInv, Builds
      <4>2. CASE x = c /\ Stays(c)
        BY <2>4, <3>5, <4>2 DEF LockInv, Builds, Stays, Mine
      <4>3. CASE x = c /\ Starts(c)
        BY <1>0, <4>3 DEF Starts, LockOf, ToSet
      <4> QED
        BY <2>4, <4>1, <4>2, <4>3
    <3> QED
      BY <2>1, <2>2, <2>c, <3>1, <3>4, <3>5 DEF LockInv
  <2>5. CASE Mine(c) /\ Leaves(c)
    <3>1. /\ lock' = lock /\ queue' = Freed(c) /\ call'[c].at = "done"
      BY <2>5 DEF Leaves
    <3>2. ASSUME \A l \in Call : \A i \in 1..Len(queue[l]) : queue[l][i] # c PROVE LockInv'
      <4>1. queue' = queue
        <5>1. /\ Freed(c) \in [Call -> Seq(Call)]
              /\ \A l \in Call : Freed(c)[l] = queue[l]
          BY <1>0, <3>2, FreedProperties
        <5> QED
          BY <1>0, <3>1, <5>1
      <4>2. ASSUME NEW l \in Call PROVE Joined(l)'
        BY <2>2, <2>a, <3>1, <3>2, <4>1 DEF LockInv, Joined
      <4>3. \A x \in Call : Builds(x)' => Builds(x)
        BY <2>2, <3>1 DEF Builds
      <4> QED
        BY <2>2, <2>c, <3>1, <4>1, <4>2, <4>3 DEF LockInv
    <3>3. ASSUME NEW k \in Call, NEW n \in 1..Len(queue[k]), queue[k][n] = c PROVE LockInv'
      <4>1. call[c].kind \in Reader /\ call[c].at \in Making \cup {"waiting"}
        BY <2>a, <3>3
      <4>2. PICK l0 \in Call : queue[l0] # <<>> /\ queue[l0][1] = c
        <5>1. CASE call[c].at = "waiting"
          BY <1>0, <2>5, <5>1 DEF Leaves, LockOf, ToSet
        <5>2. CASE call[c].at \in Making
          BY <4>1, <5>2 DEF LockInv, Builds
        <5> QED
          BY <4>1, <5>1, <5>2
      <4>3. 1 \in 1..Len(queue[l0])
        BY <1>0, <4>2
      <4>4. \A l \in Call : l # l0 => \A i \in 1..Len(queue[l]) : queue[l][i] # c
        BY <4>2, <4>3, OneLock
      <4>5. Joined(l0)
        BY DEF LockInv
      <4>6. /\ \A l \in Call : l # l0 => queue'[l] = queue[l]
            /\ Len(queue'[l0]) = Len(queue[l0]) - 1
            /\ \A i \in 1..Len(queue'[l0]) : /\ i + 1 \in 1..Len(queue[l0])
                                             /\ queue'[l0][i] = queue[l0][i+1]
                                             /\ queue'[l0][i] # c
        <5>1. /\ \A l \in Call : l # l0 => Freed(c)[l] = queue[l]
              /\ Len(Freed(c)[l0]) = Len(queue[l0]) - 1
              /\ \A i \in 1..Len(Freed(c)[l0]) : /\ i + 1 \in 1..Len(queue[l0])
                                                 /\ Freed(c)[l0][i] = queue[l0][i+1]
                                                 /\ Freed(c)[l0][i] # c
          <6>1. queue \in [Call -> Seq(Call)]
            BY <1>0
          <6> QED
            BY <4>2, <4>4, <4>5, <6>1, FreedQueue
        <5> QED
          BY <3>1, <5>1
      <4>7. ASSUME NEW l \in Call PROVE Joined(l)'
        <5>1. CASE l # l0
          <6>1. queue'[l] = queue[l] /\ Joined(l) /\ \A i \in 1..Len(queue[l]) : queue[l][i] # c
            BY <4>4, <4>6, <5>1 DEF LockInv
          <6>2. \A i \in 1..Len(queue[l]) : call'[queue[l][i]] = call[queue[l][i]]
            BY <2>2, <2>a, <6>1
          <6> QED
            BY <3>1, <6>1, <6>2 DEF Joined
        <5>2. CASE l = l0
          <6>1. ASSUME NEW i \in 1..Len(queue'[l0]), NEW j \in 1..Len(queue'[l0]),
                       queue'[l0][i] = queue'[l0][j]
                PROVE  i = j
            <7>1. /\ i + 1 \in 1..Len(queue[l0]) /\ j + 1 \in 1..Len(queue[l0])
                  /\ queue[l0][i+1] = queue[l0][j+1]
              BY <4>6, <6>1
            <7>2. i + 1 = j + 1
              BY <4>5, <7>1 DEF Joined
            <7> QED
              BY <7>2
          <6>2. ASSUME NEW i \in 1..Len(queue'[l0])
                PROVE  /\ call'[queue'[l0][i]] = call[queue[l0][i+1]]
                       /\ call[queue[l0][i+1]].kind \in Reader
                       /\ call[queue[l0][i+1]].at = "waiting"
                       /\ lock[call[queue[l0][i+1]].memory] = l0
            <7>1. /\ i + 1 \in 1..Len(queue[l0]) /\ i + 1 > 1
                  /\ queue'[l0][i] = queue[l0][i+1] /\ queue'[l0][i] # c
              BY <1>0, <4>3, <4>6
            <7>2. queue[l0][i+1] \in Call
              BY <2>a, <7>1
            <7> QED
              BY <2>2, <4>5, <7>1, <7>2 DEF Joined
          <6> QED
            BY <3>1, <5>2, <6>1, <6>2 DEF Joined
        <5> QED
          BY <5>1, <5>2
      <4>8. ASSUME NEW x \in Call, Builds(x)' PROVE \E l \in Call : queue'[l] # <<>> /\ queue'[l][1] = x
        <5>1. x # c /\ Builds(x)
          BY <2>2, <3>1, <4>8 DEF Builds
        <5>2. PICK l \in Call : queue[l] # <<>> /\ queue[l][1] = x
          BY <5>1 DEF LockInv
        <5>3. l # l0
          BY <4>2, <5>1, <5>2
        <5> QED
          BY <4>6, <5>2, <5>3
      <4>9. ASSUME NEW l \in Call, call'[l].at = "idle" PROVE queue'[l] = <<>>
        <5>1. l # c /\ call[l].at = "idle"
          BY <2>2, <4>9
        <5>2. queue[l] = <<>>
          BY <5>1 DEF LockInv
        <5> QED
          BY <4>2, <4>6, <5>2
      <4> QED
        BY <2>c, <3>1, <4>7, <4>8, <4>9 DEF LockInv
    <3>4. ASSUME ~\A l \in Call : \A i \in 1..Len(queue[l]) : queue[l][i] # c PROVE LockInv'
      BY <3>3, <3>4
    <3> QED
      BY <2>1, <3>2, <3>4
  <2>6. ASSUME NEW m \in Memory, NEW kind \in Reader, Ask(c, m, kind), ~(IsCached(m) /\ kind = "use")
        PROVE  LockInv'
    <3> DEFINE l0 == LockFor(c, m)
    <3>1. /\ lock' = [lock EXCEPT ![m] = l0]
          /\ queue' = [queue EXCEPT ![l0] = Append(@, c)]
          /\ call'[c].at = IF queue[l0] = <<>> THEN "building" ELSE "waiting"
          /\ call[c].at = "idle" /\ call'[c].kind = kind /\ call'[c].memory = m
      BY <1>0, <2>6, AskFacts
    <3>2. /\ l0 \in Call
          /\ \A x \in Call : lock[m] = x => l0 = x
          /\ call[l0].at = "idle" => l0 = c
      BY <1>0 DEF LockFor, LockInv
    <3> HIDE DEF l0
    <3>3. \A l \in Call : \A i \in 1..Len(queue[l]) : queue[l][i] # c
      BY <2>b, <3>1
    <3>4. \A l \in Call : \A i \in 1..Len(queue[l]) : lock'[call[queue[l][i]].memory] = l
      <4>1. ASSUME NEW l \in Call, NEW i \in 1..Len(queue[l])
            PROVE  lock'[call[queue[l][i]].memory] = l
        <5>1. queue[l][i] \in Call /\ lock[call[queue[l][i]].memory] = l
          BY <1>0 DEF LockInv, Joined
        <5>2. call[queue[l][i]].memory \in Memory
          BY <1>0, <2>a, <5>1 DEF Proper
        <5> QED
          BY <1>0, <3>1, <3>2, <5>1, <5>2
      <4> QED
        BY <4>1
    <3>5. ASSUME NEW l \in Call PROVE Joined(l)'
      <4>1. CASE l # l0
        <5>1. queue'[l] = queue[l]
          BY <1>0, <3>1, <4>1
        <5> QED
          BY <2>2, <2>a, <3>3, <3>4, <5>1 DEF LockInv, Joined
      <4>2. CASE l = l0
        <5> DEFINE n == Len(queue[l0])
        <5>1. /\ Len(queue'[l0]) = n + 1 /\ n \in Nat
              /\ \A i \in 1..n+1 : queue'[l0][i] = IF i = n + 1 THEN c ELSE queue[l0][i]
          BY <1>0, <3>1, <3>2
        <5>2. n > 0 => call'[c].at = "waiting"
          BY <3>1
        <5>3. \A i, j \in 1..n+1 : queue'[l0][i] = queue'[l0][j] => i = j
          BY <3>2, <3>3, <5>1 DEF LockInv, Joined
        <5>4. ASSUME NEW i \in 1..n+1
              PROVE  /\ call'[queue'[l0][i]].kind \in Reader
                     /\ call'[queue'[l0][i]].at \in Making \cup {"waiting"}
                     /\ lock'[call'[queue'[l0][i]].memory] = l0
                     /\ i > 1 => call'[queue'[l0][i]].at = "waiting"
          <6>1. CASE i = n + 1
            <7>1. queue'[l0][i] = c /\ (i > 1 => n > 0)
              BY <5>1, <6>1
            <7>2. lock'[m] = l0
              BY <1>0, <3>1
            <7> QED
              BY <3>1, <5>2, <7>1, <7>2
          <6>2. CASE i # n + 1
            <7>1. i \in 1..n /\ queue'[l0][i] = queue[l0][i]
              BY <5>1, <6>2
            <7>2. call'[queue[l0][i]] = call[queue[l0][i]]
              BY <2>2, <2>a, <3>2, <3>3, <7>1
            <7> QED
              BY <3>2, <3>4, <7>1, <7>2 DEF LockInv, Joined
          <6> QED
            BY <6>1, <6>2
        <5> QED
          BY <4>2, <5>1, <5>3, <5>4 DEF Joined
      <4> QED
        BY <4>1, <4>2
    <3>6. ASSUME NEW x \in Call, Builds(x)' PROVE \E l \in Call : queue'[l] # <<>> /\ queue'[l][1] = x
      <4>1. CASE x = c
        <5>1. queue[l0] = <<>>
          BY <3>1, <3>6, <4>1 DEF Builds
        <5>2. queue'[l0] = <<c>>
          BY <1>0, <3>1, <3>2, <5>1
        <5> QED
          BY <3>2, <4>1, <5>2
      <4>2. CASE x # c
        <5>1. PICK l \in Call : queue[l] # <<>> /\ queue[l][1] = x
          BY <2>2, <3>6, <4>2 DEF LockInv, Builds
        <5>2. CASE l # l0
          BY <1>0, <3>1, <5>1, <5>2
        <5>3. CASE l = l0
          <6>1. queue'[l0] = Append(queue[l0], c)
            BY <1>0, <3>1, <3>2
          <6>2. queue[l0] \in Seq(Call) /\ queue[l0] # <<>>
            BY <1>0, <3>2, <5>1, <5>3
          <6>3. Append(queue[l0], c) # <<>> /\ Append(queue[l0], c)[1] = queue[l0][1]
            BY <6>2
          <6> QED
            BY <3>2, <5>1, <5>3, <6>1, <6>3
        <5> QED
          BY <5>2, <5>3
      <4> QED
        BY <4>1, <4>2
    <3>7. ASSUME NEW l \in Call, call'[l].at = "idle" PROVE queue'[l] = <<>>
      <4>1. l # c /\ call[l].at = "idle"
        BY <2>2, <3>7
      <4>2. l # l0 /\ queue[l] = <<>>
        BY <3>2, <4>1 DEF LockInv
      <4> QED
        BY <1>0, <3>1, <4>2
    <3>8. ASSUME NEW o \in Memory, lock'[o] # None PROVE call'[lock'[o]].at # "idle"
      <4>1. CASE o = m
        <5>1. lock'[o] = l0
          BY <1>0, <3>1, <4>1
        <5> QED
          BY <2>2, <3>2, <5>1
      <4>2. CASE o # m
        <5>1. lock'[o] = lock[o]
          BY <1>0, <3>1, <4>2
        <5>2. lock[o] \in Call /\ call[lock[o]].at # "idle"
          BY <1>0, <3>8, <5>1 DEF LockInv
        <5> QED
          BY <2>2, <5>1, <5>2
      <4> QED
        BY <4>1, <4>2
    <3> QED
      BY <3>5, <3>6, <3>7, <3>8 DEF LockInv
  <2> QED
    BY <1>3, <2>1, <2>3, <2>4, <2>5, <2>6, TurnsAtLocks
<1> QED
  BY <1>1, <1>2, <1>3, NextIsATurn

LEMMA LockInit == ASSUME Init PROVE CacheInv /\ LockInv
<1>1. /\ cache = <<>> /\ \A l \in Call : queue[l] = <<>>
      /\ \A m \in Memory : lock[m] = None
      /\ \A c \in Call : call[c].at = "idle"
  BY DEF Init, Idle
<1> QED
  BY <1>1 DEF CacheInv, Ready, Separate, LockInv, Joined, Builds

LEMMA LocksHold ==
  ASSUME EveryMemoryFits PROVE Spec => [](TypeOK /\ Placed /\ CacheInv /\ LockInv)
<1>1. TypeOK /\ Placed /\ CacheInv /\ LockInv /\ [Next]_vars =>
        (TypeOK /\ Placed /\ CacheInv /\ LockInv)'
  BY TypeStep, LockStep
<1>2. Init => TypeOK /\ Placed /\ CacheInv /\ LockInv
  BY TypeInit, LockInit
<1> QED
  BY <1>1, <1>2, PTL DEF Spec

\* Two builders of a memory would both be at the head of its lock's queue.
LEMMA HeadsAreOne == ASSUME TypeOK, Placed, LockInv PROVE OneWarmup
<1>1. \A l \in Call : queue[l] # <<>> => 1 \in 1..Len(queue[l])
  BY DEF TypeOK
<1>2. ASSUME NEW a \in Call, NEW b \in Call, Builds(a), Builds(b), call[a].memory = call[b].memory
      PROVE  a = b
  <2>1. PICK l \in Call : queue[l] # <<>> /\ queue[l][1] = a
    BY <1>2 DEF LockInv
  <2>2. PICK k \in Call : queue[k] # <<>> /\ queue[k][1] = b
    BY <1>2 DEF LockInv
  <2>3. lock[call[a].memory] = l /\ lock[call[b].memory] = k
    BY <1>1, <2>1, <2>2 DEF LockInv, Joined
  <2> QED
    BY <1>2, <2>1, <2>2, <2>3
<1> QED
  BY <1>2 DEF OneWarmup

\* With room for every memory in the cache, a memory is never built by two
\* coroutines at once, and no early return, exception or failed build leaves a
\* lock held, however many coroutines ask, reindex and force.  (With less room
\* an eviction pops the lock somebody waits for: provider.py:298.)
THEOREM WarmupsStayLocked ==
  ASSUME EveryMemoryFits PROVE Spec => []WarmupsAreLocked
<1>1. TypeOK /\ Placed /\ LockInv => OneWarmup
  BY HeadsAreOne
<1>2. ASSUME TypeOK, LockInv PROVE LocksAreReleased
  <2>1. ASSUME NEW l \in Call, NEW i \in 1..Len(queue[l])
        PROVE  /\ Builds(queue[l][i]) \/ call[queue[l][i]].at = "waiting"
               /\ i # 1 => call[queue[l][i]].at = "waiting"
    BY <1>2 DEF TypeOK, LockInv, Joined, Builds, Making
  <2> QED
    BY <2>1 DEF LocksAreReleased
<1> QED
  BY <1>1, <1>2, LocksHold, PTL DEF WarmupsAreLocked

(***************************************************************************)
(* What a local index misses is on its way: a row of the memory that its   *)
(* index does not have has a save that will add it, a row that only the    *)
(* index has has a deletion that will take it out, or the signature is     *)
(* gone.                                                                   *)
(***************************************************************************)
Unforced(m) == ~Forced(m)

\* The signal of a row that has not reached instance i.
Coming(kind, m, d, i) ==
  \E w \in Call : /\ Writes(w, kind, m, d)
                  /\ call[w].at = "saved" \/ (call[w].at = "writing" /\ call[w].rag = i)

Settles(S, m, i) ==
  \A d \in Document : /\ d \in documents[m] \ S => Coming("save", m, d, i)
                      /\ d \in S \ documents[m] => Coming("delete", m, d, i)

Trusted(m) == m \in Memory \ Remote /\ signed[m] /\ Unforced(m) /\ ~SignedElsewhere(m)

\* A signal writes to an instance of its memory that is there.
TargetsStand ==
  \A w \in Call : call[w].at = "writing" =>
    /\ call[call[w].rag].memory = call[w].memory
    /\ call[call[w].rag].at # "idle"
    /\ call[w].memory \notin Remote => call[call[w].rag].at = "done"

\* The saves of a row come before its deletion.
SignalsInOrder ==
  \A w \in Call, m \in Memory, d \in Document :
    /\ Writes(w, "save", m, d) /\ call[w].at # "done" => d \in documents[m]
    /\ Writes(w, "delete", m, d) => d \notin documents[m]

UnbuiltAreEmpty == \A c \in Call : call[c].at # "done" => index[c] = {}

BuildersAreUncached ==
  \A c \in Call : Builds(c) /\ Unforced(call[c].memory) => ~IsCached(call[c].memory)

CachedSettle ==
  \A k \in 1..Len(cache) : Trusted(call[cache[k]].memory) =>
    Settles(index[cache[k]], call[cache[k]].memory, cache[k])

BuildersSettle ==
  \A c \in Call : call[c].kind \in Reader /\ call[c].at = "indexing" /\ Trusted(call[c].memory) =>
    Settles(call[c].read, call[c].memory, None)

HonestInv ==
  /\ TargetsStand /\ SignalsInOrder /\ UnbuiltAreEmpty
  /\ BuildersAreUncached /\ CachedSettle /\ BuildersSettle

\* What a turn adds to the cache is its own call, when it has built.
LEMMA TurnsAtCache ==
  ASSUME TypeOK, Placed, CacheInv, EveryMemoryFits, NEW c \in Call, Turn(c)
  PROVE  \A k \in 1..Len(cache') :
           \/ \E j \in 1..Len(cache) : cache'[k] = cache[j]
           \/ /\ cache'[k] = c /\ Builds(c) /\ Built(c) /\ Return(c, c)
              /\ (Open(c) /\ call[c].memory \in Remote) \/ Index(c)
<1> DEFINE Goal == \A k \in 1..Len(cache') :
           \/ \E j \in 1..Len(cache) : cache'[k] = cache[j]
           \/ /\ cache'[k] = c /\ Builds(c) /\ Built(c) /\ Return(c, c)
              /\ (Open(c) /\ call[c].memory \in Remote) \/ Index(c)
<1>0. /\ call \in [Call -> Record] /\ cache \in Seq(Call) /\ Proper(call[c])
  BY DEF TypeOK, Record, Placed
<1>1. ASSUME cache' = cache PROVE Goal
  BY <1>1
<1>2. ASSUME NEW m, IsCached(m), cache' = Used(m) PROVE Goal
  <2>1. /\ Len(Used(m)) = Len(cache)
        /\ \A i \in 1..Len(cache) : \E j \in 1..Len(cache) : Used(m)[i] = cache[j]
    BY <1>0, <1>2, UsedProperties
  <2> QED
    BY <1>2, <2>1
<1>3. ASSUME NEW m, cache' = Without(m) PROVE Goal
  <2>1. \A i \in 1..Len(Without(m)) : \E j \in 1..Len(cache) : Without(m)[i] = cache[j]
    BY <1>0, WithoutProperties
  <2> QED
    BY <1>3, <2>1
<1>4. CASE Resume(c)
  BY <1>1, <1>2, <1>4 DEF Resume
<1>5. CASE Read(c) \/ Recreate(c) \/ BuildFails(c) \/ Pick(c) \/ Write(c) \/ WriteFails(c)
  BY <1>1, <1>5 DEF Read, Recreate, BuildFails, Pick, Write, WriteFails
<1>6. CASE Open(c) \/ Index(c)
  <2>1. CASE Built(c) /\ call[c].kind \in Reader
    <3>1. cache' = Full(c) /\ Return(c, c)
      BY <1>6, <2>1, BuiltReader DEF Open, Index
    <3>2. \A i \in 1..Len(Full(c)) : Full(c)[i] # c =>
            \E j \in 1..Len(cache) : Full(c)[i] = cache[j]
      BY <1>0, FullProperties
    <3>3. Builds(c) /\ (Open(c) => call[c].memory \in Remote)
      BY <1>0, <1>6, <2>1 DEF Open, Index, Builds, Proper
    <3> QED
      BY <1>6, <2>1, <3>1, <3>2, <3>3
  <2>2. CASE ~(Built(c) /\ call[c].kind \in Reader)
    <3>1. cache' = cache
      BY <1>0, <1>6, <2>2, BuiltFacts DEF Open, Index
    <3> QED
      BY <1>1, <3>1
  <2> QED
    BY <2>1, <2>2
<1>7. ASSUME NEW m \in Memory, NEW kind \in Reader, Ask(c, m, kind) PROVE Goal
  <2>1. (IsCached(m) /\ cache' = Used(m)) \/ cache' = Without(m)
    BY <1>0, <1>7, AskFacts
  <2> QED
    BY <1>2, <1>3, <2>1
<1>8. ASSUME NEW m \in Memory, NEW d \in Document, Save(c, m, d) \/ Delete(c, m, d) PROVE Goal
  BY <1>1, <1>8 DEF Save, Delete
<1>9. ASSUME NEW m \in Memory, Command(c, m) PROVE Goal
  BY <1>1, <1>9 DEF Command
<1> QED
  BY <1>4, <1>5, <1>6, <1>7, <1>8, <1>9 DEF Turn, Work

\* The indexes of instances: a local build fills its own, a signal writes to
\* the instance it took.
LEMMA TurnsAtIndex ==
  ASSUME TypeOK, Placed, TargetsStand, NEW c \in Call, Turn(c), NEW i \in Call
  PROVE  \/ index'[i] = index[i]
         \/ /\ Index(c) /\ i = c /\ call[c].memory \notin Remote
            /\ index'[c] = index[c] \cup call[c].read
         \/ /\ Write(c) /\ i = call[c].rag /\ call[c].memory \notin Remote
            /\ index'[i] = IF call[c].kind = "save" THEN index[i] \cup {call[c].document}
                                                    ELSE index[i] \ {call[c].document}
<1>0. /\ index \in [Call \cup Memory -> SUBSET Document] /\ Proper(call[c]) /\ Call \cap Memory = {}
      /\ Remote \subseteq Memory /\ i \notin Memory
  BY ProviderAssumption DEF TypeOK, Placed
<1>1. CASE Resume(c) \/ Read(c) \/ Open(c) \/ BuildFails(c) \/ Pick(c) \/ WriteFails(c)
  BY <1>1 DEF Resume, Read, Open, BuildFails, Pick, WriteFails
<1>2. CASE Recreate(c)
  BY <1>0, <1>2 DEF Recreate, Store, Proper
<1>3. CASE Index(c)
  BY <1>0, <1>3 DEF Index, Store
<1>4. CASE Write(c)
  <2>1. /\ call[c].rag \in Call /\ call[call[c].rag].memory = call[c].memory
    BY <1>0, <1>4 DEF Write, Proper, TargetsStand
  <2>2. CASE call[c].memory \in Remote
    BY <1>0, <1>4, <2>1, <2>2 DEF Write, Store
  <2>3. CASE call[c].memory \notin Remote
    BY <1>0, <1>4, <2>1, <2>3 DEF Write, Store
  <2> QED
    BY <2>2, <2>3
<1>5. ASSUME NEW m \in Memory, NEW kind \in Reader, Ask(c, m, kind) PROVE index' = index
  BY <1>5 DEF Ask
<1>6. ASSUME NEW m \in Memory, NEW d \in Document, Command(c, m) \/ Save(c, m, d) \/ Delete(c, m, d)
      PROVE  index' = index
  BY <1>6 DEF Command, Save, Delete
<1>7. ASSUME NEW m \in Memory, Command(c, m) PROVE index' = index
  BY <1>7 DEF Command
<1> QED
  BY <1>1, <1>2, <1>3, <1>4, <1>5, <1>6, <1>7 DEF Turn, Work

\* Nothing but the command signs, and who it has signed is left out.
LEMMA NobodySigns ==
  ASSUME TypeOK, Placed, [Next]_vars, NEW m \in Memory \ Remote, signed'[m], ~SignedElsewhere(m)'
  PROVE  signed[m]
<1>0. /\ call \in [Call -> Record] /\ signed \in [Memory -> BOOLEAN]
      /\ \A x \in Call : Proper(call[x])
  BY DEF TypeOK, Record, Placed
<1>1. ASSUME NEW c \in Call, GiveUp(c) PROVE signed[m]
  BY <1>0, <1>1 DEF GiveUp
<1>2. ASSUME NEW c \in Call, Built(c), call[c].at \in {"opening", "indexing"} PROVE signed[m]
  <2>1. Mine(c) /\ call'[c].rag = c /\ c # None
    BY <1>0, <1>2, BuiltFacts, ProviderAssumption
  <2>2. ~(call[c].kind = "command" /\ call[c].memory = m)
    BY <2>1 DEF SignedElsewhere, Mine
  <2> QED
    BY <1>0, <1>2, <2>2, BuiltFacts
<1>3. ASSUME NEW c \in Call, Work(c) PROVE signed[m]
  <2>1. CASE Resume(c) \/ Recreate(c) \/ Write(c)
    BY <2>1 DEF Resume, Recreate, Write
  <2>2. CASE Read(c) \/ BuildFails(c) \/ WriteFails(c)
    BY <1>1, <2>2 DEF Read, BuildFails, WriteFails
  <2>3. CASE Open(c) \/ Index(c)
    BY <1>2, <2>3 DEF Open, Index
  <2>4. CASE Pick(c)
    BY <1>0, <2>4 DEF Pick
  <2> QED
    BY <1>3, <2>1, <2>2, <2>3, <2>4 DEF Work
<1>4. ASSUME NEW c \in Call, NEW o \in Memory, NEW kind \in Reader, Ask(c, o, kind) PROVE signed[m]
  BY <1>4 DEF Ask
<1>5. ASSUME NEW c \in Call, NEW o \in Memory, NEW d \in Document, Save(c, o, d) \/ Delete(c, o, d)
      PROVE  signed[m]
  BY <1>5 DEF Save, Delete
<1>6. ASSUME NEW c \in Call, NEW o \in Memory, Command(c, o) PROVE signed[m]
  BY <1>6 DEF Command
<1>7. CASE ClearCache \/ UNCHANGED vars
  BY <1>7 DEF ClearCache, vars
<1> QED
  BY <1>3, <1>4, <1>5, <1>6, <1>7 DEF Next

\* A save or deletion of row d is asked for, and its signal is on its way.
LEMMA SignalsAre ==
  ASSUME TypeOK, NEW c \in Call, NEW m \in Memory, NEW d \in Document, Save(c, m, d) \/ Delete(c, m, d)
  PROVE  /\ call[c].at = "idle" /\ signed' = signed /\ cache' = cache
         /\ \/ /\ Save(c, m, d) /\ documents' = [documents EXCEPT ![m] = @ \cup {d}]
               /\ Writes(c, "save", m, d)' /\ call'[c].at = "saved"
            \/ /\ Delete(c, m, d) /\ documents' = [documents EXCEPT ![m] = @ \ {d}]
               /\ Writes(c, "delete", m, d)' /\ call'[c].at = "saved"
<1>1. call \in [Call -> Record]
  BY DEF TypeOK, Record
<1>2. /\ call[c].at = "idle" /\ call'[c].at = "saved"
      /\ call'[c].memory = m /\ call'[c].document = d
      /\ Save(c, m, d) => call'[c].kind = "save"
      /\ Delete(c, m, d) => call'[c].kind = "delete"
  BY <1>1, SignalFacts
<1>3. signed' = signed /\ cache' = cache
  BY DEF Save, Delete
<1>4. CASE Save(c, m, d)
  <2>1. documents' = [documents EXCEPT ![m] = @ \cup {d}]
    BY <1>4 DEF Save
  <2> QED
    BY <1>2, <1>3, <1>4, <2>1 DEF Writes
<1>5. CASE Delete(c, m, d)
  <2>1. documents' = [documents EXCEPT ![m] = @ \ {d}]
    BY <1>5 DEF Delete
  <2> QED
    BY <1>2, <1>3, <1>5, <2>1 DEF Writes
<1> QED
  BY <1>4, <1>5

LEMMA TargetsStep ==
  ASSUME TypeOK, Placed, CacheInv, TargetsStand, NEW c \in Call, Turn(c)
  PROVE  TargetsStand'
<1>0. /\ call \in [Call -> Record] /\ cache \in Seq(Call)
      /\ \A x \in Call : call[x] \in Record /\ Proper(call[x])
  BY DEF TypeOK, Record, Placed
<1>1. /\ \A x \in Call : x # c => call'[x] = call[x]
      /\ call[c].at # "done" /\ call'[c].at # "idle"
      /\ call[c].at # "idle" => Mine(c)
  BY TurnsAreOwn
<1> SUFFICES ASSUME NEW w \in Call, call'[w].at = "writing"
             PROVE  /\ call'[call'[w].rag].memory = call'[w].memory
                    /\ call'[call'[w].rag].at # "idle"
                    /\ call'[w].memory \notin Remote => call'[call'[w].rag].at = "done"
  BY DEF TargetsStand
<1>2. CASE w # c
  <2>1. /\ call'[w] = call[w] /\ call[w].at = "writing" /\ call[w].rag \in Call
        /\ call[call[w].rag].memory = call[w].memory /\ call[call[w].rag].at # "idle"
        /\ call[w].memory \notin Remote => call[call[w].rag].at = "done"
    BY <1>0, <1>1, <1>2 DEF TargetsStand, Proper
  <2>2. CASE call[w].rag # c
    BY <1>1, <2>1, <2>2
  <2>3. CASE call[w].rag = c
    BY <1>1, <2>1, <2>3 DEF Mine
  <2> QED
    BY <2>2, <2>3
<1>3. CASE w = c
  <2>1. call[c].at # "idle"
    BY <1>3, TurnsBegin
  <2>2. Work(c)
    BY <2>1, TurnsGoOn
  <2>3. CASE Pick(c)
    <3> DEFINE i == cache[Slot(call[c].memory)]
    <3>1. IsCached(call[c].memory) /\ call'[c].rag = i /\ Mine(c)
      BY <1>0, <1>3, <2>3, PickFacts, ReturnFacts, GoFacts
    <3>2. Slot(call[c].memory) \in 1..Len(cache) /\ call[i].memory = call[c].memory
      BY <3>1, SlotIsOne
    <3>3. i \in Call /\ call[i].at = "done"
      BY <1>0, <3>2 DEF CacheInv, Ready
    <3>4. i # c
      BY <1>1, <3>3
    <3> QED
      BY <1>1, <1>3, <3>1, <3>2, <3>3, <3>4 DEF Mine
  <2>4. CASE Open(c) \/ Index(c)
    <3>1. Built(c)
      BY <1>0, <1>3, <2>4, GoFacts DEF Open, Index
    <3>2. /\ Mine(c) /\ call'[c].rag = c /\ call[c].memory \in Remote
      BY <1>0, <1>3, <2>4, <3>1, BuiltFacts, ReturnFacts DEF Open, Index
    <3> QED
      BY <1>3, <3>2 DEF Mine
  <2>5. CASE Resume(c) \/ Recreate(c) \/ Write(c) \/ WriteFails(c) \/ BuildFails(c)
    BY <1>0, <1>3, <2>5, GoFacts, ReturnFacts DEF Resume, Recreate, Write, WriteFails, BuildFails, GiveUp
  <2>6. CASE Read(c)
    BY <1>0, <1>3, <2>6, ReadFacts, ReturnFacts DEF GiveUp
  <2> QED
    BY <2>2, <2>3, <2>4, <2>5, <2>6 DEF Work
<1> QED
  BY <1>2, <1>3

LEMMA SignalsStep ==
  ASSUME TypeOK, Placed, SignalsInOrder, "rush" \notin Allowed, NEW c \in Call, Turn(c)
  PROVE  SignalsInOrder'
<1>0. /\ documents \in [Memory -> SUBSET Document]
      /\ \A x \in Call : Proper(call[x])
  BY DEF TypeOK, Placed
<1>1. /\ \A x \in Call : x # c => call'[x] = call[x]
      /\ call[c].at # "done" /\ call'[c].at # "idle"
      /\ call[c].at # "idle" => Mine(c)
  BY TurnsAreOwn
<1> SUFFICES ASSUME NEW w \in Call, NEW m \in Memory, NEW d \in Document
             PROVE  /\ Writes(w, "save", m, d)' /\ call'[w].at # "done" => d \in documents'[m]
                    /\ Writes(w, "delete", m, d)' => d \notin documents'[m]
  BY DEF SignalsInOrder
<1>2. CASE \E n \in Memory, e \in Document : Save(c, n, e) \/ Delete(c, n, e)
  <2>1. PICK n \in Memory, e \in Document : Save(c, n, e) \/ Delete(c, n, e)
    BY <1>2
  <2>2. CASE Save(c, n, e) /\ documents' = [documents EXCEPT ![n] = @ \cup {e}]
             /\ Writes(c, "save", n, e)'
    <3>1. ~\E x \in Call : Writes(x, "delete", n, e)
      BY <2>2 DEF Save
    <3>2. CASE w = c
      BY <1>0, <2>2, <3>2 DEF Writes
    <3>3. CASE w # c
      <4>1. /\ Writes(w, "save", m, d)' <=> Writes(w, "save", m, d)
            /\ Writes(w, "delete", m, d)' <=> Writes(w, "delete", m, d)
            /\ call'[w].at = call[w].at
        BY <1>1, <3>3 DEF Writes
      <4>2. documents'[m] = IF m = n THEN documents[m] \cup {e} ELSE documents[m]
        BY <1>0, <2>2
      <4>3. Writes(w, "delete", m, d) => ~(m = n /\ d = e)
        BY <3>1
      <4> QED
        BY <4>1, <4>2, <4>3 DEF SignalsInOrder
    <3> QED
      BY <3>2, <3>3
  <2>3. CASE Delete(c, n, e) /\ documents' = [documents EXCEPT ![n] = @ \ {e}]
             /\ Writes(c, "delete", n, e)'
    <3>1. \A x \in Call : Writes(x, "save", n, e) => call[x].at = "done"
      BY <2>3 DEF Delete
    <3>2. CASE w = c
      BY <1>0, <2>3, <3>2 DEF Writes
    <3>3. CASE w # c
      <4>1. /\ Writes(w, "save", m, d)' <=> Writes(w, "save", m, d)
            /\ Writes(w, "delete", m, d)' <=> Writes(w, "delete", m, d)
            /\ call'[w].at = call[w].at
        BY <1>1, <3>3 DEF Writes
      <4>2. documents'[m] = IF m = n THEN documents[m] \ {e} ELSE documents[m]
        BY <1>0, <2>3
      <4>3. Writes(w, "save", m, d) /\ call[w].at # "done" => ~(m = n /\ d = e)
        BY <3>1
      <4> QED
        BY <4>1, <4>2, <4>3 DEF SignalsInOrder
    <3> QED
      BY <3>2, <3>3
  <2> QED
    BY <2>1, <2>2, <2>3, SignalsAre
<1>3. CASE documents' = documents /\ ~\E n \in Memory, e \in Document : Save(c, n, e) \/ Delete(c, n, e)
  <2>1. CASE w # c
    BY <1>1, <1>3, <2>1 DEF Writes, SignalsInOrder
  <2>2. CASE w = c /\ call[c].at # "idle"
    BY <1>1, <1>3, <2>2 DEF Writes, SignalsInOrder, Mine
  <2>3. CASE w = c /\ call[c].at = "idle"
    <3>1. call'[c].kind \notin Writer
      <4>1. ~Work(c) /\ call \in [Call -> Record]
        BY <2>3, TurnsBegin DEF TypeOK, Record
      <4> QED
        BY <1>3, <4>1, AskFacts, CommandFacts DEF Turn, Reader, Writer
    <3> QED
      BY <2>3, <3>1 DEF Writes, Writer
  <2> QED
    BY <2>1, <2>2, <2>3
<1> QED
  BY <1>2, <1>3, RowsChangeBySignals

LEMMA EmptyStep ==
  ASSUME TypeOK, Placed, TargetsStand, UnbuiltAreEmpty, NEW c \in Call, Turn(c)
  PROVE  UnbuiltAreEmpty'
<1>0. /\ call \in [Call -> Record] /\ \A x \in Call : Proper(call[x])
  BY DEF TypeOK, Record, Placed
<1>1. /\ \A x \in Call : x # c => call'[x] = call[x]
      /\ call[c].at # "done"
  BY TurnsAreOwn
<1> SUFFICES ASSUME NEW i \in Call, call'[i].at # "done" PROVE index'[i] = {}
  BY DEF UnbuiltAreEmpty
<1>2. call[i].at # "done" /\ index[i] = {}
  BY <1>1 DEF UnbuiltAreEmpty
<1>3. ~(Index(c) /\ i = c /\ call[c].memory \notin Remote)
  <2>1. ASSUME Index(c), i = c, call[c].memory \notin Remote PROVE FALSE
    <3>1. Built(c) /\ call[c].at = "indexing"
      BY <2>1 DEF Index
    <3>2. Return(c, c)
      BY <1>0, <2>1, <3>1, BuiltFacts
    <3> QED
      BY <1>0, <2>1, <3>2, ReturnFacts
  <2> QED
    BY <2>1
<1>4. ~(Write(c) /\ i = call[c].rag /\ call[c].memory \notin Remote)
  BY <1>2 DEF Write, TargetsStand
<1> QED
  BY <1>2, <1>3, <1>4, TurnsAtIndex

\* A turn of c leaves the places of the cache with the memories they had.
LEMMA CachedBefore ==
  ASSUME TypeOK, Placed, CacheInv, LockInv, EveryMemoryFits, NEW c \in Call, Turn(c), NEW m \in Memory,
         IsCached(m)'
  PROVE  IsCached(m) \/ (Builds(c) /\ call[c].memory = m /\ call'[c].at = "done")
<1>0. call \in [Call -> Record] /\ cache \in Seq(Call)
  BY DEF TypeOK, Record
<1>1. /\ \A x \in Call : x # c => call'[x] = call[x]
      /\ call[c].at # "done" /\ call'[c].at # "idle"
      /\ call[c].at # "idle" => Mine(c)
  BY TurnsAreOwn
<1>2. PICK k \in 1..Len(cache') : call'[cache'[k]].memory = m
  BY DEF IsCached, Of
<1>3. CASE \E j \in 1..Len(cache) : cache'[k] = cache[j]
  <2>1. PICK j \in 1..Len(cache) : cache'[k] = cache[j]
    BY <1>3
  <2>2. cache[j] \in Call /\ call[cache[j]].at = "done"
    BY <1>0 DEF CacheInv, Ready
  <2>3. call[cache[j]].memory = m
    BY <1>1, <1>2, <2>1, <2>2
  <2> QED
    BY <2>3 DEF IsCached, Of
<1>4. CASE cache'[k] = c /\ Builds(c) /\ Return(c, c)
  <2>1. Mine(c) /\ call'[c].at = "done"
    BY <1>0, <1>4, ReturnFacts
  <2> QED
    BY <1>2, <1>4, <2>1 DEF Mine
<1> QED
  BY <1>3, <1>4, TurnsAtCache

LEMMA UnforcedBefore ==
  ASSUME TypeOK, Placed, NEW c \in Call, Turn(c), NEW m, Unforced(m)' PROVE Unforced(m)
<1>1. /\ \A x \in Call : x # c => call'[x] = call[x]
      /\ call[c].at # "idle" => Mine(c)
      /\ call[c].at = "idle" => call[c].kind = "use"
  BY TurnsAreOwn DEF Placed, Proper
<1> QED
  BY <1>1 DEF Unforced, Forced, Mine

LEMMA UnsignedBefore ==
  ASSUME TypeOK, Placed, NEW c \in Call, Turn(c), NEW m, ~SignedElsewhere(m)'
  PROVE  ~SignedElsewhere(m)
<1>1. /\ \A x \in Call : x # c => call'[x] = call[x]
      /\ call[c].at # "done"
      /\ call[c].kind = "command" => call[c].rag = None
  BY TurnsAreOwn DEF Placed, Proper
<1> QED
  BY <1>1 DEF SignedElsewhere

LEMMA UncachedStep ==
  ASSUME TypeOK, Placed, CacheInv, LockInv, OneWarmup, EveryMemoryFits, BuildersAreUncached,
         NEW c \in Call, Turn(c)
  PROVE  BuildersAreUncached'
<1>0. /\ call \in [Call -> Record] /\ cache \in Seq(Call)
      /\ \A x \in Call : Proper(call[x])
  BY DEF TypeOK, Record, Placed
<1>1. /\ \A x \in Call : x # c => call'[x] = call[x]
      /\ call[c].at # "done" /\ call'[c].at # "idle"
      /\ call[c].at # "idle" => Mine(c)
  BY TurnsAreOwn
<1>2. ASSUME NEW x \in Call, Builds(x)', NEW m, m = call'[x].memory, Unforced(m)'
      PROVE  ~IsCached(m)'
  <2>1. Unforced(m)
    BY <1>2, UnforcedBefore
  <2>2. ASSUME call[x].memory = m, ~IsCached(m), m \in Memory,
               x # c => Builds(x)
        PROVE  ~IsCached(m)'
    <3>1. CASE x # c
      BY <2>2, <3>1, CachedBefore DEF OneWarmup
    <3>2. CASE x = c
      BY <1>2, <2>2, <3>2, CachedBefore DEF Builds
    <3> QED
      BY <3>1, <3>2
  <2>3. CASE x # c
    <3>1. Builds(x) /\ call[x].memory = m /\ m \in Memory
      BY <1>0, <1>1, <1>2, <2>3 DEF Builds, Proper
    <3>2. ~IsCached(m)
      BY <2>1, <3>1 DEF BuildersAreUncached
    <3> QED
      BY <2>2, <3>1, <3>2
  <2>4. CASE x = c /\ call[c].at # "idle"
    <3>1. call[c].memory = m /\ m \in Memory /\ call[c].kind \in Reader
      BY <1>0, <1>1, <1>2, <2>4 DEF Mine, Proper, Builds
    <3>2. Work(c)
      BY <2>4, TurnsGoOn
    <3>3. CASE Builds(c)
      BY <2>1, <2>2, <2>4, <3>1, <3>3 DEF BuildersAreUncached
    <3>4. CASE ~Builds(c)
      <4>1. Resume(c)
        BY <1>0, <3>1, <3>2, <3>4
           DEF Work, Builds, Read, Open, Recreate, Index, BuildFails, Pick, Write, WriteFails, Proper,
               Reader, Writer
      <4>2. call'[c].at # "done"
        BY <1>2, <2>4 DEF Builds
      <4>3. ~(IsCached(m) /\ call[c].kind # "force")
        BY <1>0, <3>1, <4>1, <4>2, ReturnFacts, GoFacts DEF Resume
      <4>4. call[c].kind # "force"
        BY <2>1, <3>1 DEF Unforced, Forced
      <4> QED
        BY <2>2, <2>4, <3>1, <4>3, <4>4
    <3> QED
      BY <3>3, <3>4
  <2>5. CASE x = c /\ call[c].at = "idle"
    <3>1. ~Work(c) /\ call'[c].at = "building" /\ call'[c].kind \in Reader
      BY <1>2, <2>5, TurnsBegin DEF Builds
    <3>2. PICK n \in Memory, kind \in Reader : Ask(c, n, kind)
      BY <1>0, <3>1, CommandFacts, SignalFacts DEF Turn, Reader
    <3>3. n = m /\ cache' = Without(m)
      BY <1>0, <1>2, <2>5, <3>1, <3>2, AskFacts
    <3>4. /\ \A i \in 1..Len(Without(m)) : call[Without(m)[i]].memory # m
          /\ \A i \in 1..Len(Without(m)) : \E j \in 1..Len(cache) : Without(m)[i] = cache[j]
      BY <1>0, WithoutProperties DEF CacheInv
    <3>5. \A j \in 1..Len(cache) : cache[j] \in Call /\ cache[j] # c
      BY <1>0, <1>1 DEF CacheInv, Ready
    <3>6. \A i \in 1..Len(cache') : call'[cache'[i]].memory # m
      BY <1>1, <3>3, <3>4, <3>5
    <3> QED
      BY <3>6 DEF IsCached, Of
  <2> QED
    BY <2>3, <2>4, <2>5
<1> QED
  BY <1>2 DEF BuildersAreUncached

\* Whoever is not the instance a signal writes to stays settled.
LEMMA SettlesKept ==
  ASSUME TypeOK, Placed, SignalsInOrder, NEW c \in Call, Turn(c),
         NEW m \in Memory \ Remote, signed'[m], NEW S \in SUBSET Document, NEW i,
         IsCached(m) => cache[Slot(m)] = i,
         ~(Write(c) /\ call[c].rag = i /\ call[c].memory = m),
         Settles(S, m, i)
  PROVE  Settles(S, m, i)'
<1>0. /\ call \in [Call -> Record] /\ documents \in [Memory -> SUBSET Document]
      /\ signed \in [Memory -> BOOLEAN] /\ \A x \in Call : Proper(call[x])
  BY DEF TypeOK, Record, Placed
<1>1. /\ \A x \in Call : x # c => call'[x] = call[x]
      /\ call[c].at # "done" /\ call'[c].at # "idle"
      /\ call[c].at # "idle" => Mine(c)
  BY TurnsAreOwn
<1> DEFINE On(kind, d, w) == /\ Writes(w, kind, m, d)
                             /\ call[w].at = "saved" \/ (call[w].at = "writing" /\ call[w].rag = i)
\* A signal on its way to i stays on its way.
<1>2. ASSUME NEW kind \in Writer, NEW d \in Document, NEW w \in Call, On(kind, d, w)
      PROVE  On(kind, d, w)'
  <2>1. CASE w # c
    BY <1>1, <1>2, <2>1 DEF Writes
  <2>2. CASE w = c
    <3>1. call[c].at \in {"saved", "writing"} /\ call[c].memory = m /\ call[c].kind = kind
      BY <1>2, <2>2 DEF Writes
    <3>2. Work(c) /\ Mine(c)
      BY <3>1, TurnsGoOn
    <3>3. ~(GiveUp(c))
      BY <1>0, <3>1 DEF GiveUp
    <3>4. ~Write(c)
      BY <1>2, <2>2, <3>1 DEF Write
    <3>5. Pick(c)
      BY <3>1, <3>2, <3>3, <3>4
         DEF Work, Resume, Read, Open, Recreate, Index, BuildFails, WriteFails
    <3>6. call[c].at = "saved"
      BY <3>5 DEF Pick
    <3>7. ~(call[c].kind = "save" /\ call[c].document \notin documents[m])
      BY <1>2, <2>2, <3>6 DEF SignalsInOrder, Writes
    <3>8. /\ IsCached(m)
          /\ call' = [call EXCEPT ![c].at = "writing", ![c].rag = cache[Slot(m)]]
      BY <1>0, <3>1, <3>5, <3>7 DEF Pick
    <3>9. call'[c].at = "writing" /\ call'[c].rag = i
      BY <1>0, <3>8 DEF Record
    <3> QED
      BY <1>2, <2>2, <3>2, <3>9 DEF Writes, Mine
  <2> QED
    BY <2>1, <2>2
<1>3. ASSUME documents'[m] = documents[m] PROVE Settles(S, m, i)'
  <2>1. ASSUME NEW d \in Document
        PROVE  /\ d \in documents'[m] \ S => Coming("save", m, d, i)'
               /\ d \in S \ documents'[m] => Coming("delete", m, d, i)'
    <3>1. \A kind \in Writer : Coming(kind, m, d, i) => Coming(kind, m, d, i)'
      BY <1>2 DEF Coming
    <3> QED
      BY <1>3, <3>1 DEF Settles, Writer
  <2> QED
    BY <2>1 DEF Settles
<1>4. ASSUME NEW n \in Memory, NEW e \in Document, Save(c, n, e) \/ Delete(c, n, e)
      PROVE  Settles(S, m, i)'
  <2>1. CASE n # m
    BY <1>0, <1>3, <1>4, <2>1 DEF Save, Delete
  <2>2. CASE n = m
    <3>1. \/ /\ documents' = [documents EXCEPT ![m] = @ \cup {e}]
             /\ Writes(c, "save", m, e)' /\ call'[c].at = "saved"
          \/ /\ documents' = [documents EXCEPT ![m] = @ \ {e}]
             /\ Writes(c, "delete", m, e)' /\ call'[c].at = "saved"
      BY <1>4, <2>2, SignalsAre
    <3>2. ASSUME NEW d \in Document
          PROVE  /\ d \in documents'[m] \ S => Coming("save", m, d, i)'
                 /\ d \in S \ documents'[m] => Coming("delete", m, d, i)'
      <4>1. \A kind \in Writer : Coming(kind, m, d, i) => Coming(kind, m, d, i)'
        BY <1>2 DEF Coming
      <4>2. CASE d = e
        <5>1. \/ e \in documents'[m] /\ Coming("save", m, e, i)'
              \/ e \notin documents'[m] /\ Coming("delete", m, e, i)'
          BY <1>0, <3>1 DEF Coming
        <5> QED
          BY <4>2, <5>1
      <4>3. CASE d # e
        <5>1. d \in documents'[m] <=> d \in documents[m]
          BY <1>0, <3>1, <4>3
        <5> QED
          BY <4>1, <5>1 DEF Settles, Writer
      <4> QED
        BY <4>2, <4>3
    <3> QED
      BY <3>2 DEF Settles
  <2> QED
    BY <2>1, <2>2
<1> QED
  BY <1>3, <1>4, RowsChangeBySignals

\* The instance a signal writes to is settled when the signal is done.
LEMMA WriteSettles ==
  ASSUME TypeOK, Placed, SignalsInOrder, NEW c \in Call, Turn(c), Write(c),
         NEW i \in Call, call[c].rag = i, call[c].memory \notin Remote,
         Settles(index[i], call[c].memory, i),
         index'[i] = IF call[c].kind = "save" THEN index[i] \cup {call[c].document}
                                              ELSE index[i] \ {call[c].document},
         NEW m, m = call[c].memory
  PROVE  Settles(index[i], m, i)'
<1>0. /\ call \in [Call -> Record] /\ documents \in [Memory -> SUBSET Document]
      /\ Proper(call[c])
  BY DEF TypeOK, Record, Placed
<1>1. /\ \A x \in Call : x # c => call'[x] = call[x]
      /\ documents' = documents /\ call[c].at = "writing"
      /\ m \in Memory /\ call[c].kind \in Writer /\ call[c].document \in Document
  BY <1>0, TurnsAreOwn DEF Write, Proper
<1>2. Writes(c, call[c].kind, m, call[c].document)
  BY DEF Writes
<1>3. /\ call[c].kind = "save" => call[c].document \in documents[m]
      /\ call[c].kind = "delete" => call[c].document \notin documents[m]
  BY <1>1, <1>2 DEF SignalsInOrder
<1>4. ASSUME NEW d \in Document
      PROVE  /\ d \in documents'[m] \ index'[i] => Coming("save", m, d, i)'
             /\ d \in index'[i] \ documents'[m] => Coming("delete", m, d, i)'
  <2>1. CASE d = call[c].document
    BY <1>1, <1>3, <2>1 DEF Writer
  <2>2. CASE d # call[c].document
    <3>1. d \in index'[i] <=> d \in index[i]
      BY <2>2
    <3>2. ASSUME NEW kind \in Writer, Coming(kind, m, d, i) PROVE Coming(kind, m, d, i)'
      <4>1. PICK w \in Call : /\ Writes(w, kind, m, d)
                              /\ call[w].at = "saved" \/ (call[w].at = "writing" /\ call[w].rag = i)
        BY <3>2 DEF Coming
      <4>2. w # c
        BY <2>2, <4>1 DEF Writes
      <4> QED
        BY <1>1, <4>1, <4>2 DEF Coming, Writes
    <3> QED
      BY <1>1, <3>1, <3>2 DEF Settles, Writer
  <2> QED
    BY <2>1, <2>2
<1> QED
  BY <1>4 DEF Settles

\* A cached instance stays settled, and the one a builder caches is.
LEMMA CachedSettleStep ==
  ASSUME TypeOK, Placed, CacheInv, LockInv, EveryMemoryFits, HonestInv, NEW c \in Call, Turn(c)
  PROVE  CachedSettle'
<1>0. /\ call \in [Call -> Record] /\ cache \in Seq(Call)
      /\ index \in [Call \cup Memory -> SUBSET Document]
      /\ \A x \in Call : call[x] \in Record /\ Proper(call[x])
  BY DEF TypeOK, Record, Placed
<1>1. /\ \A x \in Call : x # c => call'[x] = call[x]
      /\ call[c].at # "done" /\ call'[c].at # "idle"
      /\ call[c].at # "idle" => Mine(c)
  BY TurnsAreOwn
<1>2. TargetsStand /\ SignalsInOrder
  BY DEF HonestInv
<1>3. [Next]_vars
  BY NextIsATurn
<1>4. ASSUME NEW k \in 1..Len(cache'), NEW i, i = cache'[k], NEW m, m = call'[i].memory, Trusted(m)'
      PROVE  Settles(index[i], m, i)'
  <2>1. m \in Memory \ Remote /\ signed'[m] /\ Unforced(m)' /\ ~SignedElsewhere(m)'
    BY <1>4 DEF Trusted
  <2>2. Trusted(m) /\ Unforced(m)
    BY <1>3, <2>1, NobodySigns, UnforcedBefore, UnsignedBefore DEF Trusted
  <2>3. CASE \E j \in 1..Len(cache) : i = cache[j]
    <3>1. PICK j \in 1..Len(cache) : i = cache[j]
      BY <2>3
    <3>2. i \in Call /\ call[i].at = "done" /\ i # c
      BY <1>0, <1>1, <3>1 DEF CacheInv, Ready
    <3>3. call[i].memory = m
      BY <1>1, <1>4, <3>2
    <3>4. Settles(index[i], m, i)
      BY <2>2, <3>1, <3>3 DEF HonestInv, CachedSettle
    <3>5. IsCached(m) => cache[Slot(m)] = i
      BY <3>1, <3>3, SlotIsOne DEF CacheInv, Separate
    <3>6. CASE Write(c) /\ call[c].rag = i
      <4>1. call[c].memory = m
        BY <1>2, <3>3, <3>6 DEF Write, TargetsStand
      <4>2. index'[i] = IF call[c].kind = "save" THEN index[i] \cup {call[c].document}
                                                 ELSE index[i] \ {call[c].document}
        BY <1>0, <2>1, <3>2, <3>3, <3>6, <4>1 DEF Write, Store
      <4> QED
        BY <1>2, <2>1, <3>2, <3>4, <3>6, <4>1, <4>2, WriteSettles
    <3>7. CASE ~(Write(c) /\ call[c].rag = i)
      <4>1. index'[i] = index[i]
        BY <1>2, <3>2, <3>7, TurnsAtIndex
      <4>2. DEFINE S == index[i]
      <4>3. S \in SUBSET Document
        BY <1>0, <3>2
      <4>4. index'[i] = S /\ Settles(S, m, i)
        BY <3>4, <4>1
      <4> HIDE DEF S
      <4>5. ASSUME NEW T \in SUBSET Document, T = index'[i], Settles(T, m, i)
            PROVE  Settles(T, m, i)'
        BY <1>2, <2>1, <3>5, <3>7, <4>5, SettlesKept
      <4> QED
        BY <4>3, <4>4, <4>5 DEF Settles
    <3> QED
      BY <3>6, <3>7
  <2>4. CASE i = c /\ Builds(c) /\ Built(c) /\ Return(c, c)
             /\ ((Open(c) /\ call[c].memory \in Remote) \/ Index(c))
    <3>1. Mine(c) /\ call[c].at # "idle"
      BY <1>0, <2>4, ReturnFacts DEF Builds
    <3>2. call[c].memory = m
      BY <1>4, <2>4, <3>1 DEF Mine
    <3>3. Index(c) /\ call[c].at = "indexing" /\ call[c].kind \in Reader
      BY <2>1, <2>4, <3>2 DEF Index, Builds
    <3>4. index[c] = {}
      BY <3>3 DEF HonestInv, UnbuiltAreEmpty
    <3>5. index'[c] = call[c].read
      BY <1>0, <2>1, <3>2, <3>3, <3>4 DEF Index, Store
    <3>6. Settles(call[c].read, m, None)
      BY <2>2, <3>2, <3>3 DEF HonestInv, BuildersSettle
    <3>7. ~IsCached(m)
      BY <2>2, <2>4, <3>2 DEF HonestInv, BuildersAreUncached
    <3>8. ASSUME NEW kind, NEW d, Coming(kind, m, d, None) PROVE Coming(kind, m, d, c)
      BY <1>0, <3>8, ProviderAssumption DEF Coming, Proper
    <3>9. Settles(call[c].read, m, c)
      BY <3>6, <3>8 DEF Settles
    <3>10. ~(Write(c) /\ call[c].rag = c /\ call[c].memory = m)
      BY <3>3 DEF Write
    <3>11. ASSUME NEW S \in SUBSET Document, S = index'[c], Settles(S, m, c)
           PROVE  Settles(S, m, c)'
      BY <1>2, <2>1, <3>7, <3>10, <3>11, SettlesKept
    <3>12. call[c].read \in SUBSET Document
      BY <1>0 DEF Record
    <3> QED
      BY <2>4, <3>5, <3>9, <3>11, <3>12 DEF Settles
  <2> QED
    BY <1>4, <2>3, <2>4, TurnsAtCache
<1>5. ASSUME NEW k \in 1..Len(cache'), Trusted(call[cache[k]].memory)'
      PROVE  Settles(index[cache[k]], call[cache[k]].memory, cache[k])'
  <2>1. PICK i : i = cache'[k]
    OBVIOUS
  <2>2. PICK m : m = call'[i].memory
    OBVIOUS
  <2>3. Trusted(m)'
    BY <1>5, <2>1, <2>2 DEF Trusted
  <2>4. Settles(index[i], m, i)'
    BY <1>4, <2>1, <2>2, <2>3
  <2> QED
    BY <2>1, <2>2, <2>4 DEF Settles
<1> QED
  BY <1>5 DEF CachedSettle

\* What a builder has read stays settled until it has written it.
LEMMA BuildersSettleStep ==
  ASSUME TypeOK, Placed, CacheInv, HonestInv, NEW c \in Call, Turn(c)
  PROVE  BuildersSettle'
<1>0. /\ call \in [Call -> Record] /\ documents \in [Memory -> SUBSET Document]
      /\ \A x \in Call : call[x] \in Record /\ Proper(call[x])
  BY DEF TypeOK, Record, Placed
<1>1. /\ \A x \in Call : x # c => call'[x] = call[x]
      /\ call[c].at # "done" /\ call'[c].at # "idle"
      /\ call[c].at # "idle" => Mine(c)
  BY TurnsAreOwn
<1>2. [Next]_vars /\ SignalsInOrder
  BY NextIsATurn DEF HonestInv
<1>3. ASSUME NEW x \in Call, call'[x].kind \in Reader, call'[x].at = "indexing",
             NEW m, m = call'[x].memory, Trusted(m)'
      PROVE  Settles(call[x].read, m, None)'
  <2>1. m \in Memory \ Remote /\ signed'[m] /\ Unforced(m)' /\ ~SignedElsewhere(m)'
    BY <1>3 DEF Trusted
  <2>2. Trusted(m) /\ Unforced(m)
    BY <1>2, <2>1, NobodySigns, UnforcedBefore, UnsignedBefore DEF Trusted
  <2>3. CASE x # c
    <3>1. call'[x] = call[x] /\ call[x].memory = m
      BY <1>1, <1>3, <2>3
    <3>2. Settles(call[x].read, m, None)
      BY <1>3, <2>2, <3>1 DEF HonestInv, BuildersSettle
    <3>3. ~IsCached(m)
      BY <1>3, <2>2, <3>1 DEF HonestInv, BuildersAreUncached, Builds
    <3>4. ~(Write(c) /\ call[c].rag = None /\ call[c].memory = m)
      BY <1>0, ProviderAssumption DEF Write, Proper
    <3>5. ASSUME NEW S \in SUBSET Document, S = call[x].read, Settles(S, m, None)
          PROVE  Settles(S, m, None)'
      BY <1>2, <2>1, <3>3, <3>4, <3>5, SettlesKept
    <3>6. call[x].read \in SUBSET Document
      BY <1>0 DEF Record
    <3> QED
      BY <3>1, <3>2, <3>5, <3>6 DEF Settles
  <2>4. CASE x = c
    <3>1. call[c].at # "idle"
      BY <1>3, <2>4, TurnsBegin
    <3>2. Mine(c) /\ call[c].memory = m /\ Work(c)
      BY <1>1, <1>3, <2>4, <3>1, TurnsGoOn DEF Mine
    <3>3. Read(c)
      <4>1. CASE Resume(c)
        BY <1>0, <1>3, <2>4, <4>1, GoFacts, ReturnFacts DEF Resume
      <4>2. CASE Open(c) \/ Recreate(c)
        BY <1>0, <2>1, <3>2, <4>2 DEF Open, Recreate, Proper
      <4>3. CASE Index(c)
        BY <1>0, <1>3, <2>1, <2>4, <3>2, <4>3, BuiltFacts, ReturnFacts DEF Index
      <4>4. CASE BuildFails(c) \/ WriteFails(c) \/ Write(c)
        BY <1>0, <1>3, <2>4, <4>4, ReturnFacts DEF BuildFails, WriteFails, Write, GiveUp
      <4>5. CASE Pick(c)
        BY <1>0, <1>3, <2>1, <2>4, <3>2, <4>5, PickFacts, ReturnFacts
      <4> QED
        BY <3>2, <4>1, <4>2, <4>3, <4>4, <4>5 DEF Work
    <3>4. call'[c].read = documents[m]
      BY <1>0, <1>3, <2>4, <3>2, <3>3, ReadFacts, ReturnFacts DEF GiveUp
    <3>5. documents' = documents
      BY <3>3 DEF Read
    <3> QED
      BY <2>4, <3>4, <3>5 DEF Settles
  <2> QED
    BY <2>3, <2>4
<1>4. ASSUME NEW x \in Call, call'[x].kind \in Reader, call'[x].at = "indexing",
             Trusted(call[x].memory)'
      PROVE  Settles(call[x].read, call[x].memory, None)'
  <2>1. PICK m : m = call'[x].memory
    OBVIOUS
  <2>2. Trusted(m)'
    BY <1>4, <2>1 DEF Trusted
  <2>3. Settles(call[x].read, m, None)'
    BY <1>3, <1>4, <2>1, <2>2
  <2> QED
    BY <2>1, <2>3 DEF Settles
<1> QED
  BY <1>4 DEF BuildersSettle

LEMMA HonestInit == ASSUME Init PROVE HonestInv
<1>1. /\ cache = <<>> /\ \A c \in Call : call[c].at = "idle" /\ call[c].kind = "use"
      /\ \A c \in Call : index[c] = {}
  BY ProviderAssumption DEF Init, Idle
<1> QED
  BY <1>1 DEF HonestInv, TargetsStand, SignalsInOrder, UnbuiltAreEmpty, BuildersAreUncached,
              CachedSettle, BuildersSettle, Writes, Builds, IsCached, Of

LEMMA HonestStep ==
  ASSUME TypeOK, Placed, CacheInv, LockInv, HonestInv, EveryMemoryFits, "rush" \notin Allowed,
         [Next]_vars
  PROVE  HonestInv'
<1>1. CASE UNCHANGED vars
  BY <1>1 DEF vars, HonestInv, TargetsStand, SignalsInOrder, UnbuiltAreEmpty, BuildersAreUncached,
              CachedSettle, BuildersSettle, Trusted, Settles, Coming, Unforced, Forced, SignedElsewhere, Writes, Builds,
              IsCached, Of
<1>2. CASE ClearCache
  BY <1>2 DEF ClearCache, HonestInv, TargetsStand, SignalsInOrder, UnbuiltAreEmpty, BuildersAreUncached,
              CachedSettle, BuildersSettle, Trusted, Settles, Coming, Unforced, Forced, SignedElsewhere, Writes, Builds,
              IsCached, Of
<1>3. ASSUME NEW c \in Call, Turn(c) PROVE HonestInv'
  BY <1>3, HeadsAreOne, TargetsStep, SignalsStep, EmptyStep, UncachedStep, CachedSettleStep,
     BuildersSettleStep DEF HonestInv
<1> QED
  BY <1>1, <1>2, <1>3, NextIsATurn

\* Whoever saves, deletes, builds and fails meanwhile: once nothing is under
\* way for a memory, the cached instance of it holds exactly its rows, or its
\* signature is gone (memories/signals.py and rags/provider.py together).  The
\* cache has room for every memory, and no row is deleted while its own save
\* is on its way to the index.  The command builds local indexes too; what it
\* signs is its own index, not the cached one.
THEOREM LocalIndexesAreHonest ==
  ASSUME EveryMemoryFits, "rush" \notin Allowed PROVE Spec => []LocalIndexIsHonest
<1>1. Init => HonestInv
  BY HonestInit
<1>2. TypeOK /\ Placed /\ CacheInv /\ LockInv /\ HonestInv /\ [Next]_vars => HonestInv'
  BY HonestStep
<1>3. ASSUME TypeOK, Placed, CacheInv, HonestInv PROVE LocalIndexIsHonest
  <2>1. ASSUME NEW k \in 1..Len(cache), NEW i, i = cache[k], NEW m, m = call[i].memory,
               m \notin Remote, AtRest(m), signed[m], ~Forced(m), ~SignedElsewhere(m)
        PROVE  index[i] = documents[m]
    <3>1. i \in Call /\ call[i].at = "done"
      BY <1>3, <2>1 DEF TypeOK, CacheInv, Ready
    <3>2. m \in Memory
      BY <1>3, <2>1, <3>1 DEF Placed, Proper
    <3>3. Settles(index[i], m, i)
      BY <1>3, <2>1, <3>2 DEF HonestInv, CachedSettle, Trusted, Unforced
    <3>4. \A kind, d : ~Coming(kind, m, d, i)
      BY <2>1 DEF Coming, Writes, AtRest
    <3>5. index[i] \in SUBSET Document /\ documents[m] \in SUBSET Document
      BY <1>3, <3>1, <3>2 DEF TypeOK
    <3> QED
      BY <3>3, <3>4, <3>5 DEF Settles
  <2>2. \A i \in ToSet(cache) : \E k \in 1..Len(cache) : i = cache[k]
    BY DEF ToSet
  <2> QED
    BY <2>1, <2>2 DEF LocalIndexIsHonest
<1> QED
  BY <1>1, <1>2, <1>3, LocksHold, PTL DEF Spec
==============================================================================
