-------------------------- MODULE Threads_proofs --------------------------
(***************************************************************************)
(* Theorems about Threads, for any number of overlapping requests, threads, *)
(* agents and memories, and any cap.                                        *)
(***************************************************************************)
EXTENDS Threads, SequenceTheorems, TLAPS

(***************************************************************************)
(* Sequences without repetition: what taking one place out, and dropping   *)
(* the first places, leaves.                                               *)
(***************************************************************************)
Injective(s) == \A i, j \in 1..Len(s) : s[i] = s[j] => i = j
Has(s, e) == \E i \in 1..Len(s) : s[i] = e

LEMMA RemoveAtProperties ==
  ASSUME NEW S, NEW s \in Seq(S), Injective(s), NEW k \in 1..Len(s)
  PROVE  /\ RemoveAt(s, k) \in Seq(S) /\ Injective(RemoveAt(s, k))
         /\ \A e : Has(RemoveAt(s, k), e) <=> Has(s, e) /\ e # s[k]
<1> DEFINE front == SubSeq(s, 1, k-1)
           back == SubSeq(s, k+1, Len(s))
           at(i) == IF i < k THEN i ELSE i + 1
<1>1. /\ front \in Seq(S) /\ Len(front) = k - 1
      /\ \A i \in 1..k-1 : front[i] = s[i]
  OBVIOUS
<1>2. /\ back \in Seq(S) /\ Len(back) = Len(s) - k
      /\ \A i \in 1..Len(s)-k : back[i] = s[k+i]
  OBVIOUS
<1>3. RemoveAt(s, k) = front \o back
  BY DEF RemoveAt
<1> HIDE DEF front, back
<1>4. PICK r : r = front \o back
  OBVIOUS
<1>5. r \in Seq(S) /\ Len(r) = Len(s) - 1
  BY <1>1, <1>2, <1>4
<1>6. ASSUME NEW i \in 1..Len(s)-1 PROVE r[i] = s[at(i)] /\ at(i) \in 1..Len(s) /\ at(i) # k
  <2>1. CASE i < k
    BY <1>1, <1>2, <1>4, <2>1
  <2>2. CASE ~(i < k)
    <3>1. r[i] = back[i - (k - 1)]
      BY <1>1, <1>2, <1>4, <2>2
    <3>2. back[i - (k - 1)] = s[i + 1]
      BY <1>2, <2>2
    <3> QED
      BY <2>2, <3>1, <3>2
  <2> QED
    BY <2>1, <2>2
<1>7. \A i, j \in 1..Len(s)-1 : at(i) = at(j) => i = j
  OBVIOUS
<1>8. \A n \in 1..Len(s) : n # k => \E i \in 1..Len(s)-1 : at(i) = n
  <2>1. ASSUME NEW n \in 1..Len(s), n # k PROVE \E i \in 1..Len(s)-1 : at(i) = n
    <3>1. CASE n < k
      BY <3>1
    <3>2. CASE ~(n < k)
      <4>1. n - 1 \in 1..Len(s)-1 /\ at(n - 1) = n
        BY <2>1, <3>2
      <4> QED
        BY <4>1
    <3> QED
      BY <3>1, <3>2
  <2> QED
    BY <2>1
<1> HIDE DEF at
<1>9. Injective(r)
  BY <1>5, <1>6, <1>7 DEF Injective
<1>10. ASSUME NEW e PROVE Has(r, e) <=> Has(s, e) /\ e # s[k]
  <2>1. ASSUME Has(r, e) PROVE Has(s, e) /\ e # s[k]
    <3>1. PICK i \in 1..Len(s)-1 : r[i] = e
      BY <1>5, <2>1 DEF Has
    <3> QED
      BY <1>6, <3>1 DEF Injective, Has
  <2>2. ASSUME Has(s, e), e # s[k] PROVE Has(r, e)
    <3>1. PICK n \in 1..Len(s) : s[n] = e
      BY <2>2 DEF Has
    <3>2. PICK i \in 1..Len(s)-1 : at(i) = n
      BY <1>8, <2>2, <3>1
    <3> QED
      BY <1>5, <1>6, <3>1, <3>2 DEF Has
  <2> QED
    BY <2>1, <2>2
<1> QED
  BY <1>3, <1>4, <1>5, <1>9, <1>10

LEMMA SuffixProperties ==
  ASSUME NEW S, NEW s \in Seq(S), Injective(s), NEW n \in 0..Len(s)
  PROVE  /\ SubSeq(s, n+1, Len(s)) \in Seq(S) /\ Injective(SubSeq(s, n+1, Len(s)))
         /\ Len(SubSeq(s, n+1, Len(s))) = Len(s) - n
         /\ \A e : Has(SubSeq(s, n+1, Len(s)), e) <=> Has(s, e) /\ e \notin {s[i] : i \in 1..n}
<1>1. PICK r : r = SubSeq(s, n+1, Len(s))
  OBVIOUS
<1>2. /\ r \in Seq(S) /\ Len(r) = Len(s) - n
      /\ \A i \in 1..Len(s)-n : r[i] = s[n+i] /\ n + i \in 1..Len(s)
  BY <1>1
<1>3. Injective(r)
  <2>1. ASSUME NEW i \in 1..Len(s)-n, NEW j \in 1..Len(s)-n, r[i] = r[j] PROVE i = j
    <3>1. n + i = n + j
      BY <1>2, <2>1 DEF Injective
    <3> QED
      BY <3>1
  <2> QED
    BY <1>2, <2>1 DEF Injective
<1>4. ASSUME NEW e PROVE Has(r, e) <=> Has(s, e) /\ e \notin {s[i] : i \in 1..n}
  <2>1. ASSUME Has(r, e) PROVE Has(s, e) /\ e \notin {s[i] : i \in 1..n}
    <3>1. PICK i \in 1..Len(s)-n : r[i] = e
      BY <1>2, <2>1 DEF Has
    <3>2. s[n+i] = e /\ n + i \in 1..Len(s) /\ n + i > n
      BY <1>2, <3>1
    <3>3. \A j \in 1..n : s[j] # e
      BY <3>2 DEF Injective
    <3> QED
      BY <3>2, <3>3 DEF Has
  <2>2. ASSUME Has(s, e), e \notin {s[i] : i \in 1..n} PROVE Has(r, e)
    <3>1. PICK j \in 1..Len(s) : s[j] = e
      BY <2>2 DEF Has
    <3>2. j > n
      BY <2>2, <3>1
    <3>3. j - n \in 1..Len(s)-n /\ r[j - n] = s[j]
      BY <1>2, <3>2
    <3> QED
      BY <1>2, <3>1, <3>3 DEF Has
  <2> QED
    BY <2>1, <2>2
<1> QED
  BY <1>1, <1>2, <1>3, <1>4

LEMMA AppendNew ==
  ASSUME NEW S, NEW s \in Seq(S), Injective(s), NEW e \in S, ~Has(s, e)
  PROVE  /\ Append(s, e) \in Seq(S) /\ Injective(Append(s, e)) /\ Len(Append(s, e)) = Len(s) + 1
         /\ \A f : Has(Append(s, e), f) <=> Has(s, f) \/ f = e
<1>1. PICK r : r = Append(s, e)
  OBVIOUS
<1>2. /\ r \in Seq(S) /\ Len(r) = Len(s) + 1 /\ Len(s) \in Nat /\ r[Len(s) + 1] = e
      /\ \A i \in 1..Len(s) : r[i] = s[i]
  BY <1>1
<1>3. Injective(r)
  BY <1>2 DEF Injective, Has
<1>4. \A f : Has(r, f) <=> Has(s, f) \/ f = e
  BY <1>2 DEF Has
<1> QED
  BY <1>1, <1>2, <1>3, <1>4

(***************************************************************************)
(* What a request still has to do, in an order no step leaves.             *)
(***************************************************************************)
Updates == {"reassign", "retitle", "entitle"}
ChatSteps == {"ask", "entitle", "save", "reply"}

Ordered(s) ==
  \A i \in 1..Len(s) :
    /\ s[i] = "create" => i = 1 /\ Len(s) = 2 /\ s[2] = "link"
    /\ s[i] = "unlink" => i = 1 /\ i + 1 <= Len(s) /\ s[i+1] = "reassign"
    /\ s[i] = "reassign" => i + 2 <= Len(s) /\ s[i+1] = "save" /\ s[i+2] = "link"
    /\ s[i] \in Updates => i + 1 <= Len(s) /\ s[i+1] = "save"
    /\ s[i] = "toggle" /\ i > 1 => s[i-1] = "hold"
    /\ s[i] = "save" /\ i > 1 => s[i-1] \in Updates
    /\ s[i] \in {"look", "hold"} => \A j \in 1..Len(s) : s[j] # "save"
    /\ s[i] \in {"ask", "reply"} => \A j \in 1..Len(s) : s[j] \in ChatSteps
    /\ s[i] = "link" => \A j \in 1..Len(s) :
         /\ s[j] = "link" => j = i
         /\ j < i => s[j] \in {"create", "unlink", "reassign", "save"}
         /\ s[j] = "save" /\ j < i => j + 1 = i

Pending(c, step) == Has(call[c].todo, step)

LEMMA TailOrdered ==
  ASSUME NEW s \in Seq(Steps), s # <<>>, Ordered(s)
  PROVE  /\ Tail(s) \in Seq(Steps) /\ Ordered(Tail(s))
         /\ Len(s) \in Nat \ {0} /\ Len(Tail(s)) = Len(s) - 1 /\ Head(s) = s[1]
         /\ \A i \in 1..Len(s)-1 : Tail(s)[i] = s[i+1] /\ i + 1 \in 1..Len(s)
         /\ \A e : Has(Tail(s), e) => Has(s, e)
<1>1. /\ Tail(s) \in Seq(Steps) /\ Len(s) \in Nat \ {0} /\ Len(Tail(s)) = Len(s) - 1
      /\ \A i \in 1..Len(s)-1 : Tail(s)[i] = s[i+1] /\ i + 1 \in 1..Len(s)
      /\ Head(s) = s[1]
  OBVIOUS
<1>2. PICK t : t = Tail(s)
  OBVIOUS
<1>3. Ordered(t)
  BY <1>1, <1>2 DEF Ordered
<1>4. \A e : Has(t, e) => Has(s, e)
  BY <1>1, <1>2 DEF Has
<1> QED
  BY <1>1, <1>2, <1>3, <1>4

\* An update is followed by its save.
LEMMA UpdateThenSave ==
  ASSUME NEW s \in Seq(Steps), s # <<>>, Ordered(s), Head(s) \in Updates
  PROVE  /\ Tail(s) # <<>> /\ Head(Tail(s)) = "save"
         /\ Tail(Tail(s)) \in Seq(Steps) /\ Ordered(Tail(Tail(s)))
         /\ \A e : Has(Tail(Tail(s)), e) => Has(Tail(s), e)
         /\ Tail(Tail(s)) # <<>> => Head(Tail(Tail(s))) = s[3] /\ 3 \in 1..Len(s)
<1>1. /\ Tail(s) \in Seq(Steps) /\ Ordered(Tail(s)) /\ Len(Tail(s)) = Len(s) - 1
      /\ Len(s) \in Nat \ {0} /\ Head(s) = s[1]
      /\ \A i \in 1..Len(s)-1 : Tail(s)[i] = s[i+1] /\ i + 1 \in 1..Len(s)
  BY TailOrdered
<1>2. 2 <= Len(s) /\ s[2] = "save"
  BY <1>1 DEF Ordered
<1>3. Tail(s) # <<>>
  <2>1. PICK r : r = Tail(s)
    OBVIOUS
  <2>2. Len(r) >= 1 /\ Len(<<>>) = 0
    BY <1>1, <1>2, <2>1
  <2>3. r # <<>>
    BY <2>2
  <2> QED
    BY <2>1, <2>3
<1>4. /\ Tail(Tail(s)) \in Seq(Steps) /\ Ordered(Tail(Tail(s)))
      /\ Len(Tail(Tail(s))) = Len(s) - 2 /\ Head(Tail(s)) = Tail(s)[1]
      /\ \A i \in 1..Len(s)-2 : Tail(Tail(s))[i] = Tail(s)[i+1]
      /\ \A e : Has(Tail(Tail(s)), e) => Has(Tail(s), e)
  <2>1. PICK r : r = Tail(s)
    OBVIOUS
  <2>2. r \in Seq(Steps) /\ Ordered(r) /\ r # <<>> /\ Len(r) = Len(s) - 1
    BY <1>1, <1>3, <2>1
  <2>3. /\ Tail(r) \in Seq(Steps) /\ Ordered(Tail(r)) /\ Len(Tail(r)) = Len(r) - 1 /\ Head(r) = r[1]
        /\ \A i \in 1..Len(r)-1 : Tail(r)[i] = r[i+1]
        /\ \A e : Has(Tail(r), e) => Has(r, e)
    BY <2>2, TailOrdered
  <2> QED
    BY <1>1, <2>1, <2>2, <2>3
<1>5. Head(Tail(s)) = "save"
  BY <1>1, <1>2, <1>4
<1>6. ASSUME Tail(Tail(s)) # <<>> PROVE Head(Tail(Tail(s))) = s[3] /\ 3 \in 1..Len(s)
  <2>1. PICK r : r = Tail(Tail(s))
    OBVIOUS
  <2>2. r \in Seq(Steps) /\ r # <<>> /\ Len(r) = Len(s) - 2
    BY <1>4, <1>6, <2>1
  <2>3. Len(r) >= 1 /\ Head(r) = r[1]
    BY <2>2
  <2>4. r[1] = s[3] /\ Len(s) >= 3
    BY <1>1, <1>4, <2>1, <2>2, <2>3
  <2> QED
    BY <1>1, <2>1, <2>3, <2>4
<1> QED
  BY <1>3, <1>4, <1>5, <1>6

(***************************************************************************)
(* What a request knows of its thread: a request to create one is alone    *)
(* with it, any other found it, and what it will write or change was there.*)
(***************************************************************************)
Fits(c) ==
  LET r == call[c]
      t == call[c].thread
  IN  /\ Ordered(r.todo)
      /\ Busy(c) => t \in Thread
      /\ Pending(c, "create") =>
           /\ thread[t] = Unborn
           /\ r.arg \in Agent /\ r.left = MemoriesOf[r.arg]
           /\ \A d \in Call : call[d].thread = t => d = c
      /\ t # None /\ ~Pending(c, "create") => thread[t] # Unborn
      /\ Pending(c, "reassign") => r.arg \in Agent /\ r.left = MemoriesOf[r.arg]
      /\ Pending(c, "link") => r.left \subseteq Memory
      /\ \A step \in {"find", "clear", "drop"} :
           Pending(c, step) => \A u \in r.left : u \in Thread /\ thread[u] # Unborn
      /\ Pending(c, "save") => r.read \in Row
      /\ \A step \in {"look", "rate", "fetch", "flag"} :
           Pending(c, step) => r.arg \in [of : Message, on : BOOLEAN] /\ r.arg.of \in In(t)
      /\ \A step \in {"lock", "hold", "toggle", "detach"} : Pending(c, step) => t \notin InMemory
      /\ \A step \in {"hold", "toggle", "detach"} :
           Pending(c, step) => r.arg \in [of : Memory, on : BOOLEAN] /\ <<t, r.arg.of>> \in byHand
      /\ At(c, "toggle") => r.read \in Link

RequestInv == \A c \in Call : Fits(c)

(***************************************************************************)
(* The moves of a request: it ends, goes on, links one more memory, or     *)
(* turns to the next thread to delete.                                     *)
(***************************************************************************)
Others(c) == \A d \in Call : d # c => call'[d] = call[d]

Ends(c) ==
  /\ Others(c) /\ call'[c].todo = <<>> /\ call'[c].thread = call[c].thread
  /\ call'[c].read = None /\ call'[c].arg = None /\ call'[c].left = {}

GoesOn(c, steps, read) ==
  /\ Others(c) /\ call'[c].todo = steps /\ call'[c].thread = call[c].thread
  /\ call'[c].read = read /\ call'[c].arg = call[c].arg /\ call'[c].left = call[c].left

TurnsTo(c, t) ==
  /\ Others(c) /\ call'[c].todo = DeleteSteps /\ call'[c].thread = t
  /\ call'[c].read = call[c].read /\ call'[c].arg = call[c].arg /\ call'[c].left = call[c].left \ {t}

LEMMA GotoFacts ==
  ASSUME call \in [Call -> Request], NEW c \in Call, NEW steps \in Seq(Steps), Goto(c, steps)
  PROVE  /\ call' \in [Call -> Request]
         /\ steps = <<>> => Ends(c)
         /\ steps # <<>> => GoesOn(c, steps, call[c].read)
<1>1. call[c] \in Request
  OBVIOUS
<1>2. CASE steps = <<>>
  <2> DEFINE r == [todo |-> <<>>, thread |-> call[c].thread, read |-> None, arg |-> None, left |-> {}]
  <2>1. call' = [call EXCEPT ![c] = r]
    BY <1>2 DEF Goto
  <2>2. r \in Request
    BY <1>1 DEF Request
  <2> QED
    BY <1>2, <2>1, <2>2 DEF Ends, Others
<1>3. CASE steps # <<>>
  <2> DEFINE r == [call[c] EXCEPT !.todo = steps]
  <2>1. call' = [call EXCEPT ![c] = r]
    BY <1>3 DEF Goto
  <2>2. r \in Request
    BY <1>1 DEF Request
  <2> QED
    BY <1>1, <1>3, <2>1, <2>2 DEF GoesOn, Others, Request
<1> QED
  BY <1>2, <1>3

LEMMA KeepFacts ==
  ASSUME call \in [Call -> Request], NEW c \in Call, Busy(c),
         NEW read \in Row \cup Link \cup {Unborn, Gone, None}, Keep(c, read)
  PROVE  call' \in [Call -> Request] /\ GoesOn(c, Tail(call[c].todo), read)
<1>1. call[c] \in Request /\ Tail(call[c].todo) \in Seq(Steps)
  BY DEF Request, Busy
<1> DEFINE r == [call[c] EXCEPT !.todo = Tail(@), !.read = read]
<1>2. call' = [call EXCEPT ![c] = r]
  BY DEF Keep
<1>3. r \in Request
  BY <1>1 DEF Request
<1> QED
  BY <1>1, <1>2, <1>3 DEF GoesOn, Others, Request

LEMMA Next1Facts ==
  ASSUME call \in [Call -> Request], NEW c \in Call, Next1(c), call[c].left \subseteq Thread
  PROVE  /\ call' \in [Call -> Request]
         /\ Ends(c) \/ \E t \in call[c].left : TurnsTo(c, t)
<1>1. call[c] \in Request
  OBVIOUS
<1>2. CASE call[c].left = {}
  <2>1. Goto(c, <<>>) /\ <<>> \in Seq(Steps)
    BY <1>2 DEF Next1, Abort
  <2> QED
    BY <2>1, GotoFacts
<1>3. CASE call[c].left # {}
  <2>1. PICK t \in call[c].left :
          call' = [call EXCEPT ![c].todo = DeleteSteps, ![c].thread = t, ![c].left = @ \ {t}]
    BY <1>3 DEF Next1
  <2> DEFINE r == [call[c] EXCEPT !.todo = DeleteSteps, !.thread = t, !.left = @ \ {t}]
  <2>2. call' = [call EXCEPT ![c] = r]
    BY <2>1
  <2>3. DeleteSteps \in Seq(Steps)
    BY DEF DeleteSteps, Steps
  <2>4. r \in Request
    BY <1>1, <2>3 DEF Request
  <2>5. TurnsTo(c, t)
    BY <1>1, <2>2 DEF TurnsTo, Others, Request
  <2> QED
    BY <2>2, <2>4, <2>5
<1> QED
  BY <1>2, <1>3

LEMMA FirstStep ==
  ASSUME call \in [Call -> Request], NEW c \in Call, NEW step, At(c, step)
  PROVE  /\ call[c].todo \in Seq(Steps) /\ call[c].todo # <<>> /\ Busy(c)
         /\ 1 \in 1..Len(call[c].todo) /\ call[c].todo[1] = step
         /\ Pending(c, step) /\ Tail(call[c].todo) \in Seq(Steps)
<1>1. call[c].todo \in Seq(Steps) /\ call[c].todo # <<>> /\ Head(call[c].todo) = step
  BY DEF Request, At, Busy
<1>2. /\ 1 \in 1..Len(call[c].todo) /\ Head(call[c].todo) = call[c].todo[1]
      /\ Tail(call[c].todo) \in Seq(Steps)
  BY <1>1
<1> QED
  BY <1>1, <1>2 DEF Pending, Has, At

\* The plain end of a step.
LEMMA DoneFacts ==
  ASSUME call \in [Call -> Request], NEW c \in Call, Busy(c), Done(c)
  PROVE  /\ call' \in [Call -> Request]
         /\ Ends(c) \/ (Tail(call[c].todo) # <<>> /\ GoesOn(c, Tail(call[c].todo), call[c].read))
<1>1. call[c].todo \in Seq(Steps) /\ Tail(call[c].todo) \in Seq(Steps)
  BY DEF Request, Busy
<1> QED
  BY <1>1, GotoFacts DEF Done

LEMMA AbortFacts ==
  ASSUME call \in [Call -> Request], NEW c \in Call, Abort(c)
  PROVE  call' \in [Call -> Request] /\ Ends(c)
<1>1. <<>> \in Seq(Steps)
  OBVIOUS
<1> QED
  BY <1>1, GotoFacts DEF Abort

\* One step of a request, whatever it does to the data.
Turns(c) ==
  \/ Ends(c)
  \/ /\ GoesOn(c, Tail(call[c].todo), call'[c].read)
     /\ At(c, "hold") => call'[c].read \in Link
     /\ \/ call'[c].read = call[c].read
        \/ \E step \in Updates : /\ At(c, step) /\ Live(call[c].thread)
                                 /\ call'[c].read = Merged(c, thread[call[c].thread])
                                 /\ call'[c].read \in Row
        \/ At(c, "look") \/ At(c, "hold")
  \/ /\ \E step \in Updates : At(c, step)
     /\ ~Live(call[c].thread) \/ call[c].thread \in InMemory
     /\ Tail(Tail(call[c].todo)) # <<>> /\ GoesOn(c, Tail(Tail(call[c].todo)), call[c].read)
  \/ /\ At(c, "link") /\ \E m \in call[c].left : Others(c) /\ call'[c] = [call[c] EXCEPT !.left = @ \ {m}]
  \/ \E t \in call[c].left : TurnsTo(c, t) /\ (At(c, "find") \/ At(c, "drop"))

LEMMA StepTurns ==
  ASSUME TypeOK, NEW c \in Call, Fits(c), Step(c)
  PROVE  call' \in [Call -> Request] /\ Busy(c) /\ Turns(c)
<1>0. /\ call \in [Call -> Request] /\ call[c] \in Request
      /\ thread \in [Thread -> Row \cup {Unborn, Gone}]
      /\ links \in [Thread -> [Memory -> Link \cup {None}]]
      /\ call[c].todo \in Seq(Steps)
  BY DEF TypeOK, Request
<1> DEFINE Goal == call' \in [Call -> Request] /\ Busy(c) /\ Turns(c)
\* The steps that simply finish, or stop there.
<1>1. ASSUME NEW step, At(c, step), step # "hold", Done(c) \/ Abort(c) PROVE Goal
  <2>1. Busy(c) /\ ~At(c, "hold")
    BY <1>1 DEF At
  <2> QED
    BY <1>0, <1>1, <2>1, DoneFacts, AbortFacts DEF Turns, GoesOn
<1>2. CASE Create(c) \/ Unlink(c) \/ Ask(c) \/ Reply(c) \/ Clear(c) \/ Rate(c) \/ Fetch(c) \/ SetFlag(c)
           \/ FileMemory(c) \/ Toggle(c) \/ Detach(c) \/ Save(c)
  BY <1>1, <1>2 DEF Create, Unlink, Ask, Reply, Clear, Rate, Fetch, SetFlag, FileMemory, Toggle, Detach, Save
<1>3. CASE Merge(c)
  <2> DEFINE t == call[c].thread
  <2>1. PICK step \in Updates : At(c, step)
    BY <1>3 DEF Merge, Updates
  <2>2. call[c].todo # <<>> /\ Busy(c) /\ Head(call[c].todo) = step /\ Ordered(call[c].todo) /\ t \in Thread
    BY <1>0, <2>1, FirstStep DEF At, Fits
  <2>3. CASE SkipSave(c) /\ (~Live(t) \/ t \in InMemory)
    <3>1. Tail(Tail(call[c].todo)) \in Seq(Steps)
      BY <1>0, <2>2, UpdateThenSave
    <3>2. Goto(c, Tail(Tail(call[c].todo)))
      BY <2>3 DEF SkipSave
    <3>3. /\ call' \in [Call -> Request]
          /\ Ends(c) \/ (Tail(Tail(call[c].todo)) # <<>> /\ GoesOn(c, Tail(Tail(call[c].todo)), call[c].read))
      BY <1>0, <3>1, <3>2, GotoFacts
    <3> QED
      BY <2>1, <2>2, <2>3, <3>3 DEF Turns
  <2>4. CASE Live(t) /\ Keep(c, Merged(c, thread[t]))
    <3>1. thread[t] \in Row
      BY <1>0, <2>2, <2>4 DEF Live
    <3>2. At(c, "reassign") => call[c].arg \in Agent
      BY <1>0, FirstStep DEF Fits
    <3>3. Merged(c, thread[t]) \in Row
      BY <3>1, <3>2 DEF Merged, Row
    <3>4. call' \in [Call -> Request] /\ GoesOn(c, Tail(call[c].todo), Merged(c, thread[t]))
      BY <1>0, <2>2, <2>4, <3>3, KeepFacts
    <3>5. ~At(c, "hold")
      BY <2>2 DEF At, Updates
    <3>6. call'[c].read = Merged(c, thread[t])
      BY <3>4 DEF GoesOn
    <3> HIDE DEF t
    <3> QED
      BY <2>1, <2>2, <2>4, <3>3, <3>4, <3>5, <3>6 DEF Turns, t
  <2> QED
    BY <1>3, <2>3, <2>4 DEF Merge
<1>4. CASE LinkOne(c)
  <2>1. CASE Done(c) \/ Abort(c)
    BY <1>1, <1>4, <2>1 DEF LinkOne
  <2>2. CASE \E m \in call[c].left : call' = [call EXCEPT ![c].left = @ \ {m}]
    <3>1. PICK m \in call[c].left : call' = [call EXCEPT ![c].left = @ \ {m}]
      BY <2>2
    <3> DEFINE r == [call[c] EXCEPT !.left = @ \ {m}]
    <3>2. call' = [call EXCEPT ![c] = r]
      BY <3>1
    <3>3. r \in Request
      BY <1>0 DEF Request
    <3> QED
      BY <1>0, <1>4, <3>2, <3>3, FirstStep DEF LinkOne, Turns, Others
  <2> QED
    BY <1>4, <2>1, <2>2 DEF LinkOne
<1>5. CASE Find(c) \/ DropThread(c)
  <2>1. PICK step \in {"find", "drop"} : At(c, step)
    BY <1>5 DEF Find, DropThread
  <2>2. Busy(c) /\ call[c].left \subseteq Thread
    BY <1>0, <2>1, FirstStep DEF Fits
  <2>3. Next1(c) \/ Done(c)
    BY <1>5 DEF Find, DropThread
  <2> QED
    BY <1>0, <1>1, <2>1, <2>2, <2>3, Next1Facts DEF Turns
<1>6. CASE Look(c)
  <2>1. CASE Abort(c)
    BY <1>1, <1>6, <2>1 DEF Look
  <2>2. CASE ~Abort(c)
    <3>1. PICK read \in Row \cup Link \cup {Unborn, Gone, None} : Keep(c, read)
      BY <1>0, <1>6, <2>2 DEF Look, Request
    <3>2. Busy(c) /\ At(c, "look")
      BY <1>0, <1>6, FirstStep DEF Look
    <3>3. call' \in [Call -> Request] /\ GoesOn(c, Tail(call[c].todo), read)
      BY <1>0, <3>1, <3>2, KeepFacts
    <3>4. ~At(c, "hold")
      BY <3>2 DEF At
    <3>5. call'[c].read = read
      BY <3>3 DEF GoesOn
    <3> QED
      BY <3>2, <3>3, <3>4, <3>5 DEF Turns
  <2> QED
    BY <2>1, <2>2
<1>7. CASE Hold(c)
  <2>1. CASE Abort(c)
    BY <1>0, <1>7, <2>1, FirstStep, AbortFacts DEF Hold, Turns
  <2>2. CASE ~Abort(c)
    <3> DEFINE link == links[call[c].thread][Target(c)]
    <3>1. Keep(c, link) /\ link # None /\ At(c, "hold")
      BY <1>7, <2>2 DEF Hold
    <3>2. Busy(c) /\ Pending(c, "hold")
      BY <1>0, <3>1, FirstStep
    <3>3. call[c].thread \in Thread /\ Target(c) \in Memory
      BY <3>2 DEF Fits, Target
    <3>4. link \in Link
      BY <1>0, <3>1, <3>3
    <3> HIDE DEF link
    <3>5. call' \in [Call -> Request] /\ GoesOn(c, Tail(call[c].todo), link)
      BY <1>0, <3>1, <3>2, <3>4, KeepFacts
    <3> QED
      BY <3>1, <3>2, <3>4, <3>5 DEF Turns, GoesOn
  <2> QED
    BY <2>1, <2>2
<1> QED
  BY <1>2, <1>3, <1>4, <1>5, <1>6, <1>7 DEF Step

(***************************************************************************)
(* The requests: what each begins with.                                    *)
(***************************************************************************)
LEMMA Pairs ==
  ASSUME NEW a \in Steps, NEW b \in Steps
  PROVE  /\ <<a, b>> \in Seq(Steps) /\ Len(<<a, b>>) = 2 /\ Head(<<a, b>>) = a
         /\ <<a, b>>[1] = a /\ <<a, b>>[2] = b
         /\ \A e : Has(<<a, b>>, e) <=> e \in {a, b}
BY DEF Has

LEMMA Singles ==
  ASSUME NEW a \in Steps
  PROVE  /\ <<a>> \in Seq(Steps) /\ Len(<<a>>) = 1 /\ Head(<<a>>) = a /\ <<a>>[1] = a
         /\ \A e : Has(<<a>>, e) <=> e = a
BY DEF Has

LEMMA SwitchPlan ==
  /\ Switch \in Seq(Steps) /\ Ordered(Switch) /\ Head(Switch) = "unlink"
  /\ \A e : Has(Switch, e) <=> e \in {"unlink", "reassign", "save", "link"}
<1>1. Switch \in Seq(Steps) /\ Ordered(Switch) /\ Head(Switch) = "unlink"
  BY DEF Switch, Steps, Ordered, Updates, ChatSteps
<1>2. /\ Len(Switch) = 4 /\ Switch[1] = "unlink" /\ Switch[2] = "reassign"
      /\ Switch[3] = "save" /\ Switch[4] = "link"
  BY DEF Switch
<1>3. \A e : Has(Switch, e) <=> \E i \in 1..4 : Switch[i] = e
  BY <1>2 DEF Has
<1> QED
  BY <1>1, <1>2, <1>3

SwitchAndRename == <<"unlink", "reassign", "save", "link", "retitle", "save">>

LEMMA SwitchAndRenamePlan ==
  /\ SwitchAndRename \in Seq(Steps) /\ Ordered(SwitchAndRename) /\ Head(SwitchAndRename) = "unlink"
  /\ \A e : Has(SwitchAndRename, e) <=> e \in {"unlink", "reassign", "save", "link", "retitle"}
  /\ Switch \o <<"retitle", "save">> = SwitchAndRename
<1>1. /\ SwitchAndRename \in Seq(Steps) /\ Ordered(SwitchAndRename)
      /\ Head(SwitchAndRename) = "unlink"
  BY DEF SwitchAndRename, Steps, Ordered, Updates, ChatSteps
<1>2. /\ Len(SwitchAndRename) = 6 /\ SwitchAndRename[1] = "unlink"
      /\ SwitchAndRename[2] = "reassign" /\ SwitchAndRename[3] = "save"
      /\ SwitchAndRename[4] = "link" /\ SwitchAndRename[5] = "retitle" /\ SwitchAndRename[6] = "save"
  BY DEF SwitchAndRename
<1>3. \A e : Has(SwitchAndRename, e) <=> \E i \in 1..6 : SwitchAndRename[i] = e
  BY <1>2 DEF Has
<1>4. Switch \o <<"retitle", "save">> = SwitchAndRename
  <2>0. PICK q : q = <<"retitle", "save">>
    OBVIOUS
  <2>1. PICK s : s = Switch \o q
    OBVIOUS
  <2>2. q \in Seq(Steps) /\ Len(q) = 2 /\ q[1] = "retitle" /\ q[2] = "save"
    BY <2>0 DEF Steps
  <2>3. /\ Len(Switch) = 4 /\ Switch[1] = "unlink" /\ Switch[2] = "reassign"
        /\ Switch[3] = "save" /\ Switch[4] = "link"
    BY DEF Switch
  <2>4. /\ s \in Seq(Steps) /\ Len(s) = 6
        /\ \A i \in 1..6 : s[i] = IF i <= 4 THEN Switch[i] ELSE q[i - 4]
    <3>1. /\ s \in Seq(Steps) /\ Len(s) = Len(Switch) + Len(q)
          /\ \A i \in 1..Len(Switch) + Len(q) :
               s[i] = IF i <= Len(Switch) THEN Switch[i] ELSE q[i - Len(Switch)]
      BY <2>1, <2>2, SwitchPlan, ConcatProperties
    <3> QED
      BY <2>2, <2>3, <3>1
  <2>5. s[1] = "unlink" /\ s[2] = "reassign" /\ s[3] = "save" /\ s[4] = "link"
    BY <2>3, <2>4
  <2>6. s[5] = "retitle" /\ s[6] = "save"
    BY <2>2, <2>4
  <2>7. \A i \in 1..6 : s[i] = SwitchAndRename[i]
    BY <1>2, <2>5, <2>6
  <2> QED
    BY <1>1, <1>2, <2>0, <2>1, <2>4, <2>7, SeqEqual
<1> QED
  BY <1>1, <1>2, <1>3, <1>4

LEMMA ChatPlans ==
  /\ <<"ask", "entitle", "save", "reply">> \in Seq(Steps)
  /\ Ordered(<<"ask", "entitle", "save", "reply">>)
  /\ \A e : Has(<<"ask", "entitle", "save", "reply">>, e) <=> e \in {"ask", "entitle", "save", "reply"}
  /\ Head(<<"ask", "entitle", "save", "reply">>) = "ask"
<1> DEFINE s == <<"ask", "entitle", "save", "reply">>
<1>1. s \in Seq(Steps) /\ Ordered(s) /\ Head(s) = "ask"
  BY DEF Steps, Ordered, Updates, ChatSteps
<1>2. Len(s) = 4 /\ s[1] = "ask" /\ s[2] = "entitle" /\ s[3] = "save" /\ s[4] = "reply"
  OBVIOUS
<1> HIDE DEF s
<1>3. \A e : Has(s, e) <=> \E i \in 1..4 : s[i] = e
  BY <1>2 DEF Has
<1>4. \A e : Has(s, e) <=> e \in {"ask", "entitle", "save", "reply"}
  BY <1>2, <1>3
<1> QED
  BY <1>1, <1>4 DEF s

LEMMA DeletePlan ==
  /\ DeleteSteps \in Seq(Steps) /\ Ordered(DeleteSteps) /\ Head(DeleteSteps) = "find"
  /\ \A e : Has(DeleteSteps, e) <=> e \in {"find", "clear", "drop"}
<1>1. DeleteSteps \in Seq(Steps) /\ Ordered(DeleteSteps) /\ Head(DeleteSteps) = "find"
  BY DEF DeleteSteps, Steps, Ordered, Updates, ChatSteps
<1>2. Len(DeleteSteps) = 3 /\ DeleteSteps[1] = "find" /\ DeleteSteps[2] = "clear" /\ DeleteSteps[3] = "drop"
  BY DEF DeleteSteps
<1>3. \A e : Has(DeleteSteps, e) <=> \E i \in 1..3 : DeleteSteps[i] = e
  BY <1>2 DEF Has
<1> QED
  BY <1>1, <1>2, <1>3

\* A request on a thread that is there.
OnLive(t, steps, arg, left) ==
  /\ Live(t)
  /\ \/ /\ steps \in {Switch, SwitchAndRename} /\ arg \in Agent /\ left = MemoriesOf[arg]
     \/ steps = <<"retitle", "save">> /\ arg = None /\ left = {}
     \/ /\ steps \in {<<"ask", "entitle", "save", "reply">>, <<"ask", "reply">>}
        /\ arg = None /\ left = {}
     \/ /\ steps \in {<<"look", "rate">>, <<"fetch", "flag">>} /\ left = {}
        /\ arg \in [of : Message, on : BOOLEAN] /\ arg.of \in In(t)
     \/ steps = <<"lock">> /\ arg = None /\ left = {} /\ t \notin InMemory
     \/ /\ steps = DeleteSteps /\ arg = None /\ left \subseteq {u \in Thread : Live(u)}

\* A link to change by hand.
OnALink(t, steps, arg, left) ==
  /\ Live(t) /\ t \notin InMemory
  /\ steps \in {<<"link">>, <<"hold", "detach">>, <<"hold", "toggle">>}
  /\ arg \in [of : Memory, on : BOOLEAN] /\ left = {arg.of}

NewThread(t, steps, arg, left) ==
  /\ thread[t] = Unborn /\ \A d \in Call : call[d].thread # t
  /\ steps = <<"create", "link">> /\ arg \in Agent /\ left = MemoriesOf[arg]

Starts(c, t, steps, arg, left) ==
  /\ Begin(c, t, steps, arg, left)
  /\ \/ OnLive(t, steps, arg, left) /\ byHand' = byHand
     \/ NewThread(t, steps, arg, left) /\ byHand' = byHand
     \/ OnALink(t, steps, arg, left) /\ byHand' = byHand \cup {<<t, arg.of>>}

LEMMA StartsAre ==
  ASSUME NEW c \in Call, Start(c)
  PROVE  /\ UNCHANGED Data
         /\ \E t \in Thread : \E steps, arg, left : Starts(c, t, steps, arg, left)
<1>0. UNCHANGED Data
  BY DEF Start, StartCreate, Patch, Chat, OnMessage, Upload, OnLink, Delete, DeleteAll, Asked
<1>1. CASE StartCreate(c)
  <2>1. PICK t \in Thread, a \in Agent : /\ thread[t] = Unborn /\ \A d \in Call : call[d].thread # t
                                         /\ Begin(c, t, <<"create", "link">>, a, MemoriesOf[a])
                                         /\ byHand' = byHand
    BY <1>1 DEF StartCreate
  <2>2. Starts(c, t, <<"create", "link">>, a, MemoriesOf[a])
    BY <2>1 DEF Starts, NewThread
  <2> QED
    BY <1>0, <2>2
<1>2. ASSUME NEW t \in Thread, NEW steps, NEW arg, NEW left, Asked(c, t, steps, arg, left),
             OnLive(t, steps, arg, left)
      PROVE  \E u \in Thread : \E s, a, l : Starts(c, u, s, a, l)
  BY <1>2 DEF Asked, Starts
<1>3. CASE Patch(c)
  <2>0. PICK t \in Thread, a \in Agent \cup {None}, rename \in BOOLEAN : \E steps :
          /\ steps = (IF a = None THEN <<>> ELSE Switch)
                     \o (IF rename THEN <<"retitle", "save">> ELSE <<>>)
          /\ steps # <<>>
          /\ Asked(c, t, steps, a, IF a = None THEN {} ELSE MemoriesOf[a])
    BY <1>3 DEF Patch
  <2>1. PICK steps :
          /\ steps = (IF a = None THEN <<>> ELSE Switch)
                     \o (IF rename THEN <<"retitle", "save">> ELSE <<>>)
          /\ steps # <<>>
          /\ Asked(c, t, steps, a, IF a = None THEN {} ELSE MemoriesOf[a])
    BY <2>0
  <2>2. <<"retitle", "save">> \in Seq(Steps) /\ <<>> \in Seq(Steps)
    BY Pairs DEF Steps
  <2>3. CASE a = None
    <3>1. steps = <<"retitle", "save">>
      BY <2>1, <2>2, <2>3, ConcatEmptySeq
    <3>2. OnLive(t, steps, a, {})
      BY <2>1, <2>3, <3>1 DEF OnLive, Asked
    <3> QED
      BY <1>0, <1>2, <2>1, <2>3, <3>2
  <2>4. CASE a # None
    <3>1. steps \in {Switch, SwitchAndRename}
      BY <2>1, <2>4, SwitchPlan, SwitchAndRenamePlan, ConcatEmptySeq
    <3>2. OnLive(t, steps, a, MemoriesOf[a])
      BY <2>1, <2>4, <3>1 DEF OnLive, Asked
    <3> QED
      BY <1>0, <1>2, <2>1, <2>4, <3>2
  <2> QED
    BY <2>3, <2>4
<1>4. CASE Chat(c)
  <2>1. PICK t \in Thread, steps \in {<<"ask", "entitle", "save", "reply">>, <<"ask", "reply">>} :
          Asked(c, t, steps, None, {})
    BY <1>4 DEF Chat
  <2> QED
    BY <1>2, <2>1 DEF OnLive, Asked
<1>5. CASE OnMessage(c)
  <2>1. PICK t \in Thread, m \in Message, on \in BOOLEAN, steps \in {<<"look", "rate">>, <<"fetch", "flag">>} :
          m \in In(t) /\ Asked(c, t, steps, [of |-> m, on |-> on], {})
    BY <1>5 DEF OnMessage, In
  <2>2. OnLive(t, steps, [of |-> m, on |-> on], {})
    BY <2>1 DEF OnLive, Asked
  <2> QED
    BY <1>0, <1>2, <2>1, <2>2
<1>6. CASE Upload(c)
  BY <1>2, <1>6 DEF Upload, OnLive, Asked
<1>7. CASE OnLink(c)
  <2>1. PICK t \in Thread \ InMemory, m \in Memory, on \in BOOLEAN,
             steps \in {<<"link">>, <<"hold", "detach">>, <<"hold", "toggle">>} :
          /\ Live(t) /\ Begin(c, t, steps, [of |-> m, on |-> on], {m})
          /\ byHand' = byHand \cup {<<t, m>>}
    BY <1>7 DEF OnLink
  <2>2. OnALink(t, steps, [of |-> m, on |-> on], {m})
    BY <2>1 DEF OnALink
  <2>3. Starts(c, t, steps, [of |-> m, on |-> on], {m})
    BY <2>1, <2>2 DEF Starts
  <2> QED
    BY <1>0, <2>3
<1>8. CASE Delete(c) \/ DeleteAll(c)
  <2>1. PICK t \in Thread, left \in SUBSET {u \in Thread : Live(u)} :
          Asked(c, t, DeleteSteps, None, left)
    BY <1>8 DEF Delete, DeleteAll
  <2> QED
    BY <1>2, <2>1 DEF OnLive, Asked
<1> QED
  BY <1>0, <1>1, <1>2, <1>3, <1>4, <1>5, <1>6, <1>7, <1>8 DEF Start

(***************************************************************************)
(* What a step does to the threads: its own is created, updated or         *)
(* deleted, and others in memory are evicted.                              *)
(***************************************************************************)
LEMMA TypedThreads ==
  ASSUME TypeOK
  PROVE  /\ thread \in [Thread -> Row \cup {Unborn, Gone}]
         /\ order \in Seq(InMemory) /\ Injective(order) /\ InMemory \subseteq Thread
         /\ \A t \in InMemory : Live(t) <=> Has(order, t)
         /\ \A t \in Thread : Live(t) => thread[t] \in Row
         /\ call \in [Call -> Request] /\ Unborn # Gone /\ Unborn \notin Row /\ Gone \notin Row
BY ThreadAssumption DEF TypeOK, Injective, Has, Live

\* Who goes when t is added: the oldest, if there are too many.
Evicted(t, a, out) ==
  /\ \A u \in out : u \in InMemory /\ Live(u) /\ Has(order, u)
  /\ thread' = [u \in Thread |-> IF u \in out THEN Gone ELSE IF u = t THEN Fresh(a) ELSE thread[u]]
  /\ \A u : Has(order', u) <=> (Has(order, u) \/ u = t) /\ u \notin out
  /\ Wipe(UNION {In(u) : u \in out})
  /\ out # {} => Len(order') = MaxThreads
  /\ \A i, j \in 1..Len(order) : order[j] \in out /\ i < j => order[i] \in out

LEMMA EvictFacts ==
  ASSUME TypeOK, NEW t \in InMemory, thread[t] = Unborn, NEW a, Evict(t, a)
  PROVE  /\ order' \in Seq(InMemory) /\ Injective(order')
         /\ \E out : Evicted(t, a, out)
<1> DEFINE over == IF Len(Append(order, t)) > MaxThreads THEN Len(Append(order, t)) - MaxThreads ELSE 0
           out == {Append(order, t)[i] : i \in 1..over}
<1>1. /\ order \in Seq(InMemory) /\ Injective(order) /\ ~Has(order, t)
      /\ MaxThreads \in Nat \ {0} /\ Len(order) \in Nat
      /\ \A u \in InMemory : Has(order, u) => Live(u)
  BY TypedThreads, ThreadAssumption DEF Live
<1>2. PICK all : all = Append(order, t)
  OBVIOUS
<1>3. /\ all \in Seq(InMemory) /\ Injective(all) /\ Len(all) = Len(order) + 1
      /\ \A u : Has(all, u) <=> Has(order, u) \/ u = t
  BY <1>1, <1>2, AppendNew
<1>4. \A i \in 1..Len(order) : all[i] = order[i]
  BY <1>1, <1>2
<1>5. over \in 0..Len(order) /\ over = IF Len(all) > MaxThreads THEN Len(all) - MaxThreads ELSE 0
  BY <1>1, <1>2, <1>3
<1>6. /\ order' = SubSeq(all, over + 1, Len(all))
      /\ thread' = [u \in Thread |-> IF u \in out THEN Gone ELSE IF u = t THEN Fresh(a) ELSE thread[u]]
      /\ Wipe(UNION {In(u) : u \in out})
  BY <1>2 DEF Evict, Keeping
<1>7. out = {order[i] : i \in 1..over}
  <2>1. out = {all[i] : i \in 1..over}
    BY <1>2
  <2>2. \A i \in 1..over : all[i] = order[i]
    BY <1>1, <1>4, <1>5
  <2> QED
    BY <2>1, <2>2
<1>8. \A i \in 1..over : all[i] = order[i] /\ i \in 1..Len(order)
  BY <1>1, <1>4, <1>5
<1> HIDE DEF over, out
<1>9. out = {all[i] : i \in 1..over}
  BY <1>7, <1>8
<1>10. /\ order' \in Seq(InMemory) /\ Injective(order') /\ Len(order') = Len(all) - over
       /\ \A u : Has(order', u) <=> Has(all, u) /\ u \notin out
  <2>1. over \in 0..Len(all)
    BY <1>1, <1>3, <1>5
  <2> QED
    BY <1>3, <1>6, <1>9, <2>1, SuffixProperties
<1>11. \A u \in out : u \in InMemory /\ Live(u) /\ Has(order, u)
  BY <1>1, <1>7, <1>8 DEF Has
<1>12. out # {} => Len(order') = MaxThreads
  <2>1. out # {} => over # 0
    BY <1>7
  <2> QED
    BY <1>1, <1>3, <1>5, <1>10, <2>1
<1>13. ASSUME NEW i \in 1..Len(order), NEW j \in 1..Len(order), order[j] \in out, i < j
       PROVE  order[i] \in out
  <2>1. PICK k \in 1..over : order[j] = order[k] /\ k \in 1..Len(order)
    BY <1>7, <1>8, <1>13
  <2>2. j = k
    BY <1>1, <2>1 DEF Injective
  <2>3. i \in 1..over
    BY <1>5, <1>13, <2>1, <2>2
  <2> QED
    BY <1>7, <2>3
<1>14. Evicted(t, a, out)
  BY <1>3, <1>6, <1>10, <1>11, <1>12, <1>13 DEF Evicted
<1> QED
  BY <1>10, <1>14

LEMMA DropFacts ==
  ASSUME TypeOK, NEW t \in Thread, thread[t] # Unborn, Drop(t)
  PROVE  /\ order' \in Seq(InMemory) /\ Injective(order')
         /\ \A u : Has(order', u) <=> Has(order, u) /\ u # t
         /\ thread' = [thread EXCEPT ![t] = Gone]
<1> DEFINE places == {i \in 1..Len(order) : order[i] = t}
           k == CHOOSE i \in places : TRUE
<1>1. /\ order \in Seq(InMemory) /\ Injective(order)
  BY TypedThreads
<1>2. thread' = [thread EXCEPT ![t] = Gone]
  BY DEF Drop
<1>3. CASE places = {}
  <2>1. order' = order /\ ~Has(order, t)
    BY <1>3 DEF Drop, Has
  <2> QED
    BY <1>1, <1>2, <2>1
<1>4. CASE places # {}
  <2>1. k \in 1..Len(order) /\ order[k] = t
    BY <1>4
  <2>2. order' = RemoveAt(order, k)
    BY <1>4 DEF Drop
  <2> HIDE DEF k
  <2> QED
    BY <1>1, <1>2, <2>1, <2>2, RemoveAtProperties
<1> QED
  BY <1>3, <1>4

\* The change of one thread.
Created(c, t) == At(c, "create") /\ t = call[c].thread /\ thread'[t] = Fresh(call[c].arg)
Removed(c, t) ==
  /\ thread[t] # Unborn /\ thread'[t] = Gone
  /\ \E step \in {"create", "find", "drop"} : At(c, step)
Updated(c, t) ==
  /\ t = call[c].thread /\ Live(t) /\ thread'[t] \in Row
  /\ thread'[t].files = thread[t].files \/ (At(c, "lock") /\ thread'[t].files)

ThreadsMove(c) ==
  /\ thread' \in [Thread -> Row \cup {Unborn, Gone}]
  /\ \A t \in Thread : thread'[t] = thread[t] \/ Created(c, t) \/ Removed(c, t) \/ Updated(c, t)
  /\ order' \in Seq(InMemory) /\ Injective(order')
  /\ \A t \in InMemory : Live(t)' <=> Has(order', t)

LEMMA StepMovesThreads ==
  ASSUME TypeOK, NEW c \in Call, Fits(c), Step(c)
  PROVE  ThreadsMove(c)
<1> DEFINE t == call[c].thread
<1>0. /\ thread \in [Thread -> Row \cup {Unborn, Gone}]
      /\ order \in Seq(InMemory) /\ Injective(order) /\ InMemory \subseteq Thread
      /\ \A u \in InMemory : Live(u) <=> Has(order, u)
      /\ \A u \in Thread : Live(u) => thread[u] \in Row
      /\ call \in [Call -> Request] /\ Unborn # Gone /\ Unborn \notin Row /\ Gone \notin Row
      /\ t \in Thread
  BY TypedThreads, StepTurns DEF Fits
<1>1. ASSUME UNCHANGED <<thread, order>> PROVE ThreadsMove(c)
  BY <1>0, <1>1 DEF ThreadsMove, Live
\* An update of the row in place.
<1>2. ASSUME Live(t), NEW row \in Row, thread' = [thread EXCEPT ![t] = row],
             row.files = thread[t].files \/ (At(c, "lock") /\ row.files), order' = order
      PROVE  ThreadsMove(c)
  <2>1. \A u \in Thread : thread'[u] = IF u = t THEN row ELSE thread[u]
    BY <1>0, <1>2
  <2>2. \A u \in Thread : thread'[u] = thread[u] \/ Updated(c, u)
    BY <1>2, <2>1 DEF Updated
  <2>3. \A u \in InMemory : Live(u)' <=> Live(u)
    BY <1>0, <1>2, <2>1 DEF Live
  <2>4. thread' \in [Thread -> Row \cup {Unborn, Gone}]
    BY <1>0, <1>2
  <2> QED
    BY <1>0, <1>2, <2>2, <2>3, <2>4 DEF ThreadsMove
<1>3. ASSUME thread[t] # Unborn, Drop(t), At(c, "find") \/ At(c, "drop") PROVE ThreadsMove(c)
  <2>1. /\ order' \in Seq(InMemory) /\ Injective(order')
        /\ \A u : Has(order', u) <=> Has(order, u) /\ u # t
        /\ thread' = [thread EXCEPT ![t] = Gone]
    BY <1>0, <1>3, DropFacts
  <2>2. \A u \in Thread : thread'[u] = IF u = t THEN Gone ELSE thread[u]
    BY <1>0, <2>1
  <2>3. \A u \in InMemory : Live(u)' <=> Has(order', u)
    BY <1>0, <2>1, <2>2 DEF Live
  <2>4. \A u \in Thread : thread'[u] = thread[u] \/ Removed(c, u)
    BY <1>3, <2>2 DEF Removed
  <2>5. thread' \in [Thread -> Row \cup {Unborn, Gone}]
    BY <1>0, <2>1
  <2> QED
    BY <2>1, <2>3, <2>4, <2>5 DEF ThreadsMove
<1>4. CASE Create(c)
  <2>1. /\ thread[t] = Unborn /\ call[c].arg \in Agent /\ At(c, "create")
    BY <1>0, <1>4, FirstStep DEF Fits, Create
  <2>2. Fresh(call[c].arg) \in Row
    BY <2>1 DEF Fresh, Row
  <2>3. CASE t \in InMemory
    <3>1. Evict(t, call[c].arg)
      BY <1>4, <2>3 DEF Create
    <3>2. PICK out : Evicted(t, call[c].arg, out) /\ order' \in Seq(InMemory) /\ Injective(order')
      BY <2>1, <2>3, <3>1, EvictFacts
    <3>3. /\ \A u \in Thread : thread'[u] = IF u \in out THEN Gone
                                            ELSE IF u = t THEN Fresh(call[c].arg) ELSE thread[u]
          /\ \A u \in out : u \in InMemory /\ Live(u)
          /\ \A u : Has(order', u) <=> (Has(order, u) \/ u = t) /\ u \notin out
      BY <3>2 DEF Evicted
    <3>4. ASSUME NEW u \in Thread PROVE thread'[u] = thread[u] \/ Created(c, u) \/ Removed(c, u)
      BY <2>1, <3>3 DEF Created, Removed, Live
    <3>5. \A u \in InMemory : Live(u)' <=> Has(order', u)
      BY <1>0, <2>2, <3>3 DEF Live
    <3>6. thread' \in [Thread -> Row \cup {Unborn, Gone}]
      <4>1. thread' = [u \in Thread |-> IF u \in out THEN Gone
                                        ELSE IF u = t THEN Fresh(call[c].arg) ELSE thread[u]]
        BY <3>2 DEF Evicted
      <4> QED
        BY <1>0, <2>2, <4>1
    <3> QED
      BY <3>2, <3>4, <3>5, <3>6 DEF ThreadsMove
  <2>4. CASE t \notin InMemory
    <3>1. thread' = [thread EXCEPT ![t] = Fresh(call[c].arg)] /\ order' = order
      BY <1>4, <2>4 DEF Create
    <3>2. \A u \in Thread : thread'[u] = IF u = t THEN Fresh(call[c].arg) ELSE thread[u]
      BY <1>0, <3>1
    <3>3. \A u \in Thread : thread'[u] = thread[u] \/ Created(c, u)
      BY <2>1, <3>2 DEF Created
    <3>4. \A u \in InMemory : Live(u)' <=> Live(u)
      BY <1>0, <2>4, <3>2 DEF Live
    <3>5. thread' \in [Thread -> Row \cup {Unborn, Gone}]
      BY <1>0, <2>2, <3>1
    <3> QED
      BY <1>0, <3>1, <3>3, <3>4, <3>5 DEF ThreadsMove
  <2> QED
    BY <2>3, <2>4
<1>5. CASE Merge(c)
  <2>1. CASE t \in InMemory /\ Live(t)
    <3>1. thread' = [thread EXCEPT ![t].title = Merged(c, thread[t]).title] /\ order' = order
      BY <1>5, <2>1 DEF Merge
    <3>2. thread[t] \in Row
      BY <1>0, <2>1
    <3>3. Merged(c, thread[t]).title \in {"", "theirs", "generated"}
      BY <3>2 DEF Merged, Row
    <3> DEFINE row == [thread[t] EXCEPT !.title = Merged(c, thread[t]).title]
    <3>4. row \in Row /\ row.files = thread[t].files
      BY <3>2, <3>3 DEF Row
    <3>5. thread' = [thread EXCEPT ![t] = row]
      BY <3>1
    <3> QED
      BY <1>2, <2>1, <3>1, <3>4, <3>5
  <2>2. CASE ~(t \in InMemory /\ Live(t))
    BY <1>1, <1>5, <2>2 DEF Merge
  <2> QED
    BY <2>1, <2>2
<1>6. CASE Save(c)
  <2>1. call[c].read \in Row
    BY <1>0, <1>6, FirstStep DEF Save, Fits
  <2>2. CASE Live(t)
    <3> DEFINE row == [thread[t] EXCEPT !.agent = call[c].read.agent, !.title = call[c].read.title]
    <3>1. thread[t] \in Row
      BY <1>0, <2>2
    <3>2. row \in Row /\ row.files = thread[t].files
      BY <2>1, <3>1 DEF Row
    <3>3. thread' = [thread EXCEPT ![t] = row] /\ order' = order
      BY <1>6, <2>2 DEF Save, SaveColumns
    <3> QED
      BY <1>2, <2>2, <3>2, <3>3
  <2>3. CASE ~Live(t)
    BY <1>1, <1>6, <2>3 DEF Save, SaveColumns
  <2> QED
    BY <2>2, <2>3
<1>7. CASE FileMemory(c)
  <2>1. CASE Recheck(t, call[c].read)
    <3> DEFINE row == [thread[t] EXCEPT !.files = TRUE]
    <3>1. thread[t] \in Row /\ Live(t)
      BY <1>0, <2>1 DEF Recheck
    <3>2. row \in Row /\ row.files
      BY <3>1 DEF Row
    <3>3. thread' = [thread EXCEPT ![t] = row] /\ order' = order /\ At(c, "lock")
      BY <1>7, <2>1 DEF FileMemory
    <3> HIDE DEF row
    <3> QED
      BY <1>2, <3>1, <3>2, <3>3
  <2>2. CASE ~Recheck(t, call[c].read)
    BY <1>1, <1>7, <2>2 DEF FileMemory
  <2> QED
    BY <2>1, <2>2
<1>8. CASE Find(c)
  <2>1. CASE Live(t) /\ t \in InMemory
    BY <1>3, <1>8, <2>1 DEF Find, Live
  <2>2. CASE ~(Live(t) /\ t \in InMemory)
    BY <1>1, <1>8, <2>2 DEF Find
  <2> QED
    BY <2>1, <2>2
<1>9. CASE DropThread(c)
  <2>1. Pending(c, "drop") /\ ~Pending(c, "create") /\ t # None
    <3>1. At(c, "drop") /\ Ordered(call[c].todo)
      BY <1>9 DEF DropThread, Fits
    <3>2. 1 \in 1..Len(call[c].todo) /\ call[c].todo[1] = "drop" /\ Pending(c, "drop")
      BY <1>0, <3>1, FirstStep
    <3>3. ~Pending(c, "create")
      BY <3>1, <3>2 DEF Ordered, Pending, Has
    <3> QED
      BY <1>0, <3>2, <3>3, ThreadAssumption
  <2>2. thread[t] # Unborn
    BY <2>1 DEF Fits
  <2> QED
    BY <1>3, <1>9, <2>2 DEF DropThread
<1>10. CASE Unlink(c) \/ LinkOne(c) \/ Ask(c) \/ Reply(c) \/ Clear(c) \/ Look(c) \/ Rate(c) \/ Fetch(c)
            \/ SetFlag(c) \/ Hold(c) \/ Toggle(c) \/ Detach(c)
  BY <1>1, <1>10 DEF Unlink, LinkOne, Ask, Reply, Clear, Look, Rate, Fetch, SetFlag, Hold, Toggle, Detach, Data
<1> QED
  BY <1>4, <1>5, <1>6, <1>7, <1>8, <1>9, <1>10 DEF Step

LEMMA NotCreating ==
  ASSUME call \in [Call -> Request], NEW c \in Call, Ordered(call[c].todo), NEW step, At(c, step)
  PROVE  /\ step # "create" => ~Pending(c, "create")
         /\ ~Has(Tail(call[c].todo), "create")
         /\ step \in {"ask", "reply"} => \A e : Pending(c, e) => e \in ChatSteps
         /\ step = "link" => ~Pending(c, "reassign") /\ ~Has(Tail(call[c].todo), "link")
         /\ step \in {"look", "hold"} => ~Pending(c, "save")
<1> DEFINE s == call[c].todo
<1>1. /\ s \in Seq(Steps) /\ s # <<>> /\ 1 \in 1..Len(s) /\ s[1] = step /\ Len(s) \in Nat
  BY FirstStep
<1>2. \A i \in 1..Len(s) : s[i] = "create" => i = 1
  BY DEF Ordered
<1>3. Len(Tail(s)) = Len(s) - 1 /\ \A i \in 1..Len(s)-1 : Tail(s)[i] = s[i+1] /\ i + 1 \in 1..Len(s)
  BY <1>1, TailOrdered
<1>4. ~Has(Tail(s), "create")
  BY <1>1, <1>2, <1>3 DEF Has
<1>5. ASSUME step = "link" PROVE ~Pending(c, "reassign") /\ ~Has(Tail(s), "link")
  <2>1. \A i \in 1..Len(s) : s[i] = "link" => i = 1
    BY <1>1, <1>5 DEF Ordered
  <2>2. ~Has(s, "reassign")
    <3>1. ASSUME NEW i \in 1..Len(s), s[i] = "reassign" PROVE FALSE
      <4>1. i + 2 \in 1..Len(s) /\ s[i+2] = "link"
        BY <1>1, <3>1 DEF Ordered
      <4> QED
        BY <2>1, <4>1
    <3> QED
      BY <3>1 DEF Has
  <2>3. ASSUME NEW i \in 1..Len(s)-1 PROVE Tail(s)[i] # "link"
    <3>1. Tail(s)[i] = s[i+1] /\ i + 1 \in 1..Len(s) /\ i + 1 # 1
      BY <1>3
    <3> QED
      BY <2>1, <3>1
  <2>4. ~Has(Tail(s), "link")
    BY <1>3, <2>3 DEF Has
  <2> QED
    BY <2>2, <2>4 DEF Pending
<1>6. step \in {"ask", "reply"} => \A e : Pending(c, e) => e \in ChatSteps
  BY <1>1 DEF Ordered, Pending, Has
<1>7. step \in {"look", "hold"} => ~Pending(c, "save")
  BY <1>1 DEF Ordered, Pending, Has
<1> QED
  BY <1>1, <1>2, <1>4, <1>5, <1>6, <1>7 DEF Pending, Has

(***************************************************************************)
(* Messages: only a chat sends them, and it stays on its thread.           *)
(***************************************************************************)
Chats(c) == call[c].thread \in Thread /\ \A e : Pending(c, e) => e \in ChatSteps

MessageInv == \A m \in Message : messages[m] # "unsent" => Chats(m[1])

Sent(c, m) ==
  /\ messages'[m] = "kept"
  /\ \/ At(c, "ask") /\ m = <<c, "question">> /\ Live(call[c].thread)
     \/ At(c, "reply") /\ m = <<c, "reply">> /\ (Live(call[c].thread) \/ call[c].thread \in InMemory)
Flagged(c, m) ==
  At(c, "flag") /\ m = Target(c) /\ Live(call[c].thread) /\ messages'[m] \in Flag

MessagesMove(c) ==
  /\ messages' \in [Message -> Flag \cup {"unsent", "gone"}]
  /\ \A m \in Message : \/ messages'[m] = messages[m]
                        \/ Sent(c, m)
                        \/ Stored(m) /\ messages'[m] = "gone"
                        \/ Flagged(c, m)

LEMMA WipeFacts ==
  ASSUME TypeOK, NEW ms, Wipe(ms)
  PROVE  /\ messages' \in [Message -> Flag \cup {"unsent", "gone"}]
         /\ feedback' \in [Message -> Nat]
         /\ \A m \in Message : /\ m \in ms /\ Stored(m) => messages'[m] = "gone"
                               /\ ~(m \in ms /\ Stored(m)) => messages'[m] = messages[m]
                               /\ m \in ms => feedback'[m] = 0
                               /\ m \notin ms => feedback'[m] = feedback[m]
BY DEF TypeOK, Wipe

LEMMA StepMovesMessages ==
  ASSUME TypeOK, NEW c \in Call, Fits(c), Step(c)
  PROVE  MessagesMove(c)
<1>0. /\ messages \in [Message -> Flag \cup {"unsent", "gone"}]
      /\ <<c, "question">> \in Message /\ <<c, "reply">> \in Message /\ call \in [Call -> Request]
  BY DEF TypeOK, Message
<1>1. ASSUME messages' = messages PROVE MessagesMove(c)
  BY <1>0, <1>1 DEF MessagesMove
<1>2. ASSUME NEW ms, Wipe(ms) PROVE MessagesMove(c)
  BY <1>2, WipeFacts DEF MessagesMove
<1>3. CASE Create(c)
  <2>1. PICK ms : messages' = messages \/ Wipe(ms)
    BY <1>3 DEF Create, Evict, Keeping
  <2> QED
    BY <1>1, <1>2, <2>1
<1>4. CASE Find(c) \/ Clear(c) \/ DropThread(c)
  BY <1>1, <1>2, <1>4 DEF Find, Clear, DropThread, Cascade
<1>5. CASE Ask(c)
  BY <1>0, <1>1, <1>5 DEF Ask, MessagesMove, Sent, Flag
<1>6. CASE Reply(c)
  BY <1>0, <1>1, <1>6 DEF Reply, MessagesMove, Sent, Flag
<1>7. CASE SetFlag(c)
  <2>1. At(c, "flag") /\ Target(c) \in Message
    BY <1>0, <1>7, FirstStep DEF SetFlag, Fits, Target
  <2>2. CASE Live(call[c].thread)
    <3>1. PICK f \in Flag : messages' = [messages EXCEPT ![Target(c)] = f]
      BY <1>7, <2>2 DEF SetFlag, Flag
    <3>2. \A m \in Message : messages'[m] = IF m = Target(c) THEN f ELSE messages[m]
      BY <1>0, <3>1
    <3> QED
      BY <1>0, <2>1, <2>2, <3>1, <3>2 DEF MessagesMove, Flagged
  <2>3. CASE ~Live(call[c].thread)
    BY <1>1, <1>7, <2>3 DEF SetFlag
  <2> QED
    BY <2>2, <2>3
<1>8. CASE Unlink(c) \/ Merge(c) \/ Save(c) \/ LinkOne(c) \/ Look(c) \/ Rate(c) \/ Fetch(c)
           \/ FileMemory(c) \/ Hold(c) \/ Toggle(c) \/ Detach(c)
  BY <1>1, <1>8 DEF Unlink, Merge, Save, LinkOne, Look, Rate, Fetch, FileMemory, Hold, Toggle, Detach, Data
<1> QED
  BY <1>3, <1>4, <1>5, <1>6, <1>7, <1>8 DEF Step

\* A chat goes on chatting, or is over; no other request becomes one.
LEMMA ChatsStay ==
  ASSUME TypeOK, NEW c \in Call, Fits(c), Step(c), NEW d \in Call, Chats(d)
  PROVE  Chats(d)' /\ call'[d].thread = call[d].thread
<1>1. call \in [Call -> Request] /\ Turns(c) /\ Busy(c) /\ Ordered(call[c].todo)
  BY StepTurns DEF TypeOK, Fits
<1>2. call[c].todo \in Seq(Steps) /\ call[c].todo # <<>>
  BY <1>1 DEF Request, Busy
<1>3. CASE d # c
  <2>1. call'[d] = call[d]
    BY <1>1, <1>3 DEF Turns, Ends, GoesOn, TurnsTo, Others
  <2> QED
    BY <2>1 DEF Chats, Pending
<1>4. CASE d = c
  <2>1. CASE Ends(c)
    <3>1. \A e : ~Has(<<>>, e)
      BY DEF Has
    <3> QED
      BY <1>4, <2>1, <3>1 DEF Ends, Chats, Pending
  <2>2. CASE GoesOn(c, Tail(call[c].todo), call'[c].read)
    <3>1. \A e : Has(Tail(call[c].todo), e) => Has(call[c].todo, e)
      BY <1>1, <1>2, TailOrdered
    <3> QED
      BY <1>4, <2>2, <3>1 DEF GoesOn, Chats, Pending
  <2>3. CASE /\ GoesOn(c, Tail(Tail(call[c].todo)), call[c].read)
             /\ \E step \in Updates : At(c, step)
    <3>1. \A e : Has(Tail(Tail(call[c].todo)), e) => Has(call[c].todo, e)
      BY <1>1, <1>2, <2>3, UpdateThenSave, TailOrdered DEF At
    <3> QED
      BY <1>4, <2>3, <3>1 DEF GoesOn, Chats, Pending
  <2>4. ASSUME NEW step \in {"link", "find", "drop"}, At(c, step) PROVE FALSE
    BY <1>1, <1>4, <2>4, FirstStep DEF Chats, ChatSteps
  <2> QED
    BY <1>1, <2>1, <2>2, <2>3, <2>4 DEF Turns
<1> QED
  BY <1>3, <1>4

LEMMA MessageStep ==
  ASSUME TypeOK, NEW c \in Call, Fits(c), Step(c), MessageInv
  PROVE  MessageInv' /\ \A t : In(t) \subseteq In(t)'
<1>1. call \in [Call -> Request] /\ MessagesMove(c) /\ Ordered(call[c].todo) /\ Busy(c)
  BY StepMovesMessages, StepTurns DEF TypeOK, Fits
<1>2. \A m \in Message : m[1] \in Call
  BY DEF Message
<1>3. ASSUME NEW m \in Message, messages'[m] # "unsent" PROVE Chats(m[1])'
  <2>1. Chats(m[1])
    <3>1. CASE messages[m] # "unsent"
      BY <3>1 DEF MessageInv
    <3>2. CASE Sent(c, m)
      <4>1. PICK step \in {"ask", "reply"} : At(c, step) /\ m[1] = c
        BY <3>2 DEF Sent
      <4>2. \A e : Pending(c, e) => e \in ChatSteps
        BY <1>1, <4>1, NotCreating
      <4> QED
        BY <1>1, <4>1, <4>2 DEF Chats, Fits
    <3>3. CASE Flagged(c, m)
      <4>1. m \in In(call[c].thread)
        BY <1>1, <3>3, FirstStep DEF Flagged, Fits, Target
      <4> QED
        BY <4>1 DEF In, MessageInv
    <3> QED
      BY <1>1, <1>3, <3>1, <3>2, <3>3 DEF MessagesMove, Stored, Flag
  <2> QED
    BY <1>2, <2>1, ChatsStay
<1>4. ASSUME NEW t, NEW m \in In(t) PROVE m \in In(t)'
  <2>1. m \in Message /\ messages[m] # "unsent" /\ call[m[1]].thread = t
    BY <1>4 DEF In
  <2>2. messages'[m] # "unsent"
    BY <1>1, <2>1 DEF MessagesMove, Sent, Flagged, Flag
  <2>3. call'[m[1]].thread = t
    BY <1>2, <2>1, ChatsStay DEF MessageInv
  <2> QED
    BY <2>1, <2>2, <2>3 DEF In
<1> QED
  BY <1>3, <1>4 DEF MessageInv

(***************************************************************************)
(* RequestInv: no step of a request disturbs what it or another one knows. *)
(***************************************************************************)
Grown ==
  /\ \A t \in Thread : thread[t] # Unborn => thread'[t] # Unborn
  /\ \A t : In(t) \subseteq In(t)'
  /\ byHand \subseteq byHand'

\* A request that did not move still fits, if nobody took the thread it creates.
LEMMA StillFits ==
  ASSUME call \in [Call -> Request], NEW d \in Call, Fits(d), call'[d] = call[d], Grown,
         Pending(d, "create") =>
           /\ thread'[call[d].thread] = Unborn
           /\ \A e \in Call : call'[e].thread = call[d].thread => e = d
  PROVE  Fits(d)'
<1>1. call[d].thread \in Thread \cup {None} /\ call[d].left \subseteq Memory \cup Thread
  BY DEF Request
<1>2. \A step : Pending(d, step)' <=> Pending(d, step)
  BY DEF Pending
<1>3. (Busy(d)' <=> Busy(d)) /\ (At(d, "toggle")' <=> At(d, "toggle"))
  BY DEF Busy, At
<1>4. (Pending(d, "find") \/ Pending(d, "clear") \/ Pending(d, "drop")) =>
        \A u \in call[d].left : u \in Thread /\ thread'[u] # Unborn
  BY DEF Fits, Grown
<1>5. call[d].thread # None /\ ~Pending(d, "create") => thread'[call[d].thread] # Unborn
  BY <1>1 DEF Fits, Grown
<1>6. \A step \in {"look", "rate", "fetch", "flag"} :
        Pending(d, step) => call[d].arg \in [of : Message, on : BOOLEAN] /\ call[d].arg.of \in In(call[d].thread)'
  BY DEF Fits, Grown
<1>7. \A step \in {"hold", "toggle", "detach"} :
        Pending(d, step) => call[d].arg \in [of : Memory, on : BOOLEAN] /\ <<call[d].thread, call[d].arg.of>> \in byHand'
  BY DEF Fits, Grown
<1>8. \A t : In(t)' = {m \in Message : messages'[m] # "unsent" /\ call'[m[1]].thread = t}
  BY DEF In
<1> QED
  BY <1>2, <1>3, <1>4, <1>5, <1>6, <1>7 DEF Fits

\* A thread is born when its request takes its first step.
LEMMA BornAtCreate ==
  ASSUME TypeOK, NEW c \in Call, Fits(c), Step(c), Pending(c, "create")
  PROVE  thread'[call[c].thread] # Unborn
<1>1. /\ call \in [Call -> Request] /\ Busy(c) /\ call[c].todo \in Seq(Steps)
      /\ thread \in [Thread -> Row \cup {Unborn, Gone}] /\ call[c].thread \in Thread
      /\ Unborn # Gone /\ Unborn \notin Row /\ call[c].arg \in Agent /\ thread[call[c].thread] = Unborn
  BY StepTurns, TypedThreads DEF Fits, Request
<1>2. At(c, "create")
  <2>1. PICK i \in 1..Len(call[c].todo) : call[c].todo[i] = "create"
    BY DEF Pending, Has
  <2>2. i = 1
    BY <2>1 DEF Fits, Ordered
  <2> QED
    BY <1>1, <2>1, <2>2 DEF At, Busy
<1>3. Create(c)
  BY <1>2 DEF Step, At, Create, Unlink, Merge, Save, LinkOne, Ask, Reply, Find, Clear, DropThread,
              Look, Rate, Fetch, SetFlag, FileMemory, Hold, Toggle, Detach
<1>4. Fresh(call[c].arg) \in Row
  BY <1>1 DEF Fresh, Row
<1>5. CASE call[c].thread \in InMemory
  <2>1. \E out : Evicted(call[c].thread, call[c].arg, out)
    BY <1>1, <1>3, <1>5, EvictFacts DEF Create
  <2> QED
    BY <1>1, <1>4, <2>1 DEF Evicted
<1>6. CASE call[c].thread \notin InMemory
  BY <1>1, <1>3, <1>4, <1>6 DEF Create
<1> QED
  BY <1>5, <1>6

LEMMA StepGrows ==
  ASSUME TypeOK, NEW c \in Call, Fits(c), Step(c), MessageInv
  PROVE  Grown
<1>1. \A t \in Thread : thread[t] # Unborn => thread'[t] # Unborn
  <2>1. ThreadsMove(c) /\ Unborn # Gone /\ Unborn \notin Row
    BY StepMovesThreads, TypedThreads
  <2>2. ASSUME NEW t \in Thread, thread[t] # Unborn, Created(c, t) PROVE thread'[t] # Unborn
    <3>1. call \in [Call -> Request] /\ At(c, "create")
      BY <2>2, TypedThreads DEF Created
    <3>2. Pending(c, "create")
      BY <3>1, FirstStep
    <3> QED
      BY <2>2, <3>2, BornAtCreate DEF Created
  <2> QED
    BY <2>1, <2>2 DEF ThreadsMove, Removed, Updated
<1>2. byHand' = byHand
  BY DEF Step, History, Create, Unlink, Merge, Save, LinkOne, Ask, Reply, Find, Clear, DropThread,
         Look, Rate, Fetch, SetFlag, FileMemory, Hold, Toggle, Detach
<1> QED
  BY <1>1, <1>2, MessageStep DEF Grown

LEMMA OthersFit ==
  ASSUME TypeOK, NEW c \in Call, RequestInv, Step(c), MessageInv, NEW d \in Call, d # c
  PROVE  Fits(d)'
<1>1. /\ Fits(c) /\ Fits(d) /\ Turns(c) /\ Grown /\ call \in [Call -> Request] /\ ThreadsMove(c)
      /\ Unborn # Gone /\ Unborn \notin Row /\ Busy(c)
  BY StepTurns, StepGrows, StepMovesThreads, TypedThreads DEF RequestInv
<1>2. Others(c)
  BY <1>1 DEF Turns, Ends, GoesOn, TurnsTo
<1>3. ASSUME Pending(d, "create")
      PROVE  /\ thread'[call[d].thread] = Unborn
             /\ \A e \in Call : call'[e].thread = call[d].thread => e = d
  <2> DEFINE t == call[d].thread
  <2>1. thread[t] = Unborn /\ \A e \in Call : call[e].thread = t => e = d
    BY <1>1, <1>3 DEF Fits
  <2>2. t \in Thread
    <3>1. call[d].todo # <<>>
      BY <1>1, <1>3 DEF Pending, Has, Request
    <3> QED
      BY <1>1, <3>1 DEF Fits, Busy
  <2>3. thread'[t] = thread[t]
    BY <1>1, <2>1, <2>2 DEF ThreadsMove, Created, Removed, Updated, Live
  <2>4. call'[c].thread # t
    <3>1. CASE call'[c].thread = call[c].thread
      BY <2>1, <3>1
    <3>2. CASE \E u \in call[c].left : TurnsTo(c, u) /\ (At(c, "find") \/ At(c, "drop"))
      BY <1>1, <2>1, <3>2, FirstStep DEF TurnsTo, Fits
    <3> QED
      BY <1>1, <3>1, <3>2 DEF Turns, Ends, GoesOn, Request
  <2> QED
    BY <1>2, <2>1, <2>3, <2>4 DEF Others
<1> QED
  BY <1>1, <1>2, <1>3, StillFits DEF Others

\* The request that moved: what it still has to do it had to do before, with
\* the same arguments, on the same thread.
Shrinks(c) ==
  /\ call'[c].thread = call[c].thread /\ call'[c].arg = call[c].arg /\ call'[c].left \subseteq call[c].left
  /\ \A e : Pending(c, e)' => Pending(c, e)
  /\ ~Pending(c, "create")' /\ Ordered(call'[c].todo)
  /\ Pending(c, "reassign")' => call'[c].left = call[c].left
  /\ Pending(c, "save")' => call'[c].read \in Row
  /\ At(c, "toggle")' => call'[c].read \in Link

LEMMA ShrinkingFits ==
  ASSUME call \in [Call -> Request], NEW c \in Call, Fits(c), Busy(c), Shrinks(c), Grown,
         thread'[call[c].thread] # Unborn
  PROVE  Fits(c)'
<1> DEFINE t == call[c].thread
<1>1. t \in Thread
  BY DEF Fits
<1>2. Pending(c, "reassign")' => call'[c].arg \in Agent /\ call'[c].left = MemoriesOf[call'[c].arg]
  BY DEF Fits, Shrinks
<1>3. Pending(c, "link")' => call'[c].left \subseteq Memory
  BY DEF Fits, Shrinks
<1>4. \A step \in {"find", "clear", "drop"} :
        Pending(c, step)' => \A u \in call'[c].left : u \in Thread /\ thread'[u] # Unborn
  BY DEF Fits, Shrinks, Grown
<1>5. \A step \in {"look", "rate", "fetch", "flag"} :
        Pending(c, step)' => call'[c].arg \in [of : Message, on : BOOLEAN] /\ call'[c].arg.of \in In(t)'
  BY DEF Fits, Shrinks, Grown
<1>6. \A step \in {"lock", "hold", "toggle", "detach"} : Pending(c, step)' => t \notin InMemory
  BY DEF Fits, Shrinks
<1>7. \A step \in {"hold", "toggle", "detach"} :
        Pending(c, step)' => call'[c].arg \in [of : Memory, on : BOOLEAN] /\ <<t, call'[c].arg.of>> \in byHand'
  BY DEF Fits, Shrinks, Grown
<1>8. call'[c].thread = t /\ ~Pending(c, "create")' /\ Ordered(call'[c].todo)
  BY DEF Shrinks
<1>9. In(t)' = {m \in Message : messages'[m] # "unsent" /\ call'[m[1]].thread = t}
  BY <1>8 DEF In
<1> QED
  BY <1>1, <1>2, <1>3, <1>4, <1>5, <1>6, <1>7, <1>8, <1>9 DEF Fits, Shrinks

LEMMA OwnFits ==
  ASSUME TypeOK, NEW c \in Call, Fits(c), Step(c), MessageInv
  PROVE  Fits(c)'
<1> DEFINE s == call[c].todo
<1>1. /\ call \in [Call -> Request] /\ Busy(c) /\ Turns(c) /\ Grown /\ Ordered(s)
      /\ s \in Seq(Steps) /\ s # <<>> /\ call[c].thread \in Thread
      /\ Unborn # Gone /\ Unborn \notin Row
  BY StepTurns, StepGrows, TypedThreads DEF Fits, Request, Busy
<1>2. thread'[call[c].thread] # Unborn
  <2>1. CASE Pending(c, "create")
    BY <2>1, BornAtCreate
  <2>2. CASE ~Pending(c, "create")
    BY <1>1, <2>2, ThreadAssumption DEF Fits, Grown
  <2> QED
    BY <2>1, <2>2
<1>3. At(c, Head(s)) /\ s[1] = Head(s)
  BY <1>1 DEF At
<1>4. /\ ~Has(Tail(s), "create")
      /\ At(c, "link") => ~Pending(c, "reassign") /\ ~Pending(c, "create")
      /\ At(c, "look") \/ At(c, "hold") => ~Pending(c, "save")
  BY <1>1, <1>3, NotCreating
<1>5. CASE Ends(c)
  <2>1. Ordered(<<>>) /\ (\A e : ~Has(<<>>, e)) /\ <<>> = call'[c].todo
    BY <1>5 DEF Ordered, Has, Ends
  <2> QED
    BY <1>2, <1>5, <2>1 DEF Ends, Fits, Pending, Busy, At
<1>6. CASE /\ GoesOn(c, Tail(s), call'[c].read)
           /\ At(c, "hold") => call'[c].read \in Link
           /\ \/ call'[c].read = call[c].read
              \/ call'[c].read \in Row
              \/ At(c, "look") \/ At(c, "hold")
  <2>1. /\ Ordered(Tail(s)) /\ \A e : Has(Tail(s), e) => Has(s, e)
        /\ Len(s) \in Nat /\ Len(Tail(s)) = Len(s) - 1 /\ Tail(s) \in Seq(Steps)
        /\ \A i \in 1..Len(s)-1 : Tail(s)[i] = s[i+1] /\ i + 1 \in 1..Len(s)
    BY <1>1, TailOrdered
  <2>2. call'[c].todo = Tail(s)
    BY <1>6 DEF GoesOn
  <2>3. Pending(c, "save")' => call'[c].read \in Row
    <3>1. ASSUME Has(Tail(s), "save") PROVE call'[c].read \in Row
      <4>1. Pending(c, "save")
        BY <2>1, <3>1 DEF Pending
      <4> QED
        BY <1>4, <1>6, <4>1 DEF Fits
    <3> QED
      BY <2>2, <3>1 DEF Pending
  <2>4. At(c, "toggle")' => call'[c].read \in Link
    <3>1. ASSUME Tail(s) # <<>>, Head(Tail(s)) = "toggle" PROVE At(c, "hold")
      <4>1. PICK r : r = Tail(s)
        OBVIOUS
      <4>2. r \in Seq(Steps) /\ r # <<>> /\ Len(r) = Len(s) - 1 /\ Head(r) = "toggle"
        BY <2>1, <3>1, <4>1
      <4>3. Len(r) >= 1 /\ r[1] = "toggle"
        BY <4>2
      <4>4. 2 \in 1..Len(s) /\ s[2] = "toggle"
        BY <2>1, <4>1, <4>2, <4>3
      <4>5. s[1] = "hold"
        BY <1>1, <4>4 DEF Ordered
      <4> QED
        BY <1>3, <4>5
    <3> QED
      BY <1>6, <2>2, <3>1 DEF At, Busy
  <2>5. Shrinks(c)
    BY <1>4, <1>6, <2>1, <2>2, <2>3, <2>4 DEF Shrinks, GoesOn, Pending
  <2> QED
    BY <1>1, <1>2, <2>5, ShrinkingFits
<1>7. CASE /\ \E step \in Updates : At(c, step)
           /\ Tail(Tail(s)) # <<>> /\ GoesOn(c, Tail(Tail(s)), call[c].read)
  <2>1. Head(s) \in Updates
    BY <1>7 DEF At
  <2>2. /\ Ordered(Tail(Tail(s))) /\ Len(s) \in Nat
        /\ \A e : Has(Tail(Tail(s)), e) => Has(Tail(s), e)
        /\ \A e : Has(Tail(s), e) => Has(s, e)
        /\ Head(Tail(Tail(s))) = s[3] /\ 3 \in 1..Len(s)
    BY <1>1, <1>7, <2>1, UpdateThenSave, TailOrdered
  <2>3. s[2] = "save" /\ s[3] # "toggle"
    <3>1. 1 \in 1..Len(s) /\ s[1] \in Updates
      BY <1>3, <2>1, <2>2
    <3>2. s[2] = "save"
      BY <1>1, <3>1 DEF Ordered
    <3>3. s[3] = "toggle" => s[2] = "hold"
      BY <1>1, <2>2 DEF Ordered
    <3> QED
      BY <3>2, <3>3
  <2>4. call'[c].todo = Tail(Tail(s)) /\ call'[c].read = call[c].read
    BY <1>7 DEF GoesOn
  <2>5. Pending(c, "save")' => call'[c].read \in Row
    BY <2>2, <2>4 DEF Fits, Pending
  <2>6. ~At(c, "toggle")'
    BY <2>2, <2>3, <2>4 DEF At
  <2>7. Shrinks(c)
    BY <1>4, <1>7, <2>2, <2>4, <2>5, <2>6 DEF Shrinks, GoesOn, Pending
  <2> QED
    BY <1>1, <1>2, <2>7, ShrinkingFits
<1>8. CASE At(c, "link") /\ \E m \in call[c].left : call'[c] = [call[c] EXCEPT !.left = @ \ {m}]
  <2>1. /\ call'[c].todo = s /\ call'[c].thread = call[c].thread /\ call'[c].arg = call[c].arg
        /\ call'[c].read = call[c].read /\ call'[c].left \subseteq call[c].left
    BY <1>1, <1>8 DEF Request
  <2>2. ~Pending(c, "reassign") /\ ~Pending(c, "create") /\ Head(s) # "toggle"
    BY <1>4, <1>8 DEF At
  <2>3. Shrinks(c)
    BY <1>1, <2>1, <2>2 DEF Shrinks, Pending, Fits, At
  <2> QED
    BY <1>1, <1>2, <2>3, ShrinkingFits
<1>9. CASE \E u \in call[c].left : TurnsTo(c, u) /\ (At(c, "find") \/ At(c, "drop"))
  <2>1. PICK u \in call[c].left : TurnsTo(c, u) /\ (At(c, "find") \/ At(c, "drop"))
    BY <1>9
  <2>2. Pending(c, "find") \/ Pending(c, "drop")
    BY <1>1, <2>1, FirstStep
  <2>3. \A v \in call[c].left : v \in Thread /\ thread'[v] # Unborn
    BY <1>1, <2>2 DEF Fits, Grown
  <2>4. /\ call'[c].todo = DeleteSteps /\ call'[c].thread = u /\ call'[c].left \subseteq call[c].left
    BY <2>1 DEF TurnsTo
  <2>5. \A e : Pending(c, e)' <=> e \in {"find", "clear", "drop"}
    BY <2>4, DeletePlan DEF Pending
  <2>6. Ordered(call'[c].todo) /\ ~At(c, "toggle")'
    BY <2>4, DeletePlan DEF At
  <2> QED
    BY <2>1, <2>3, <2>4, <2>5, <2>6 DEF Fits
<1> QED
  BY <1>1, <1>5, <1>6, <1>7, <1>8, <1>9 DEF Turns

(***************************************************************************)
(* A request that begins.                                                  *)
(***************************************************************************)
LEMMA StartFacts ==
  ASSUME TypeOK, NEW c \in Call, NEW t \in Thread, NEW steps, NEW arg, NEW left,
         Starts(c, t, steps, arg, left)
  PROVE  /\ steps \in Seq(Steps) /\ steps # <<>> /\ Ordered(steps)
         /\ Head(steps) \notin {"create", "link", "reassign", "save"}
            \/ (OnALink(t, steps, arg, left) /\ byHand' = byHand \cup {<<t, arg.of>>})
            \/ NewThread(t, steps, arg, left) \/ steps = <<"retitle", "save">>
         /\ arg \in Agent \cup [of : Message \cup Memory, on : BOOLEAN] \cup {None}
         /\ left \subseteq Memory \cup Thread
         /\ call' = [call EXCEPT ![c] = [todo |-> steps, thread |-> t, read |-> thread[t],
                                         arg |-> arg, left |-> left]]
         /\ call[c].thread = None
<1>1. /\ call[c].thread = None
      /\ call' = [call EXCEPT ![c] = [todo |-> steps, thread |-> t, read |-> thread[t],
                                      arg |-> arg, left |-> left]]
  BY DEF Starts, Begin, Unused
<1>2. \A a \in Agent : MemoriesOf[a] \subseteq Memory
  BY DEF Memory
<1>3. In(t) \subseteq Message
  BY DEF In
<1>4. CASE NewThread(t, steps, arg, left)
  <2>1. <<"create", "link">> \in Seq(Steps) /\ Ordered(<<"create", "link">>) /\ <<"create", "link">> # <<>>
    BY DEF Steps, Ordered, Updates, ChatSteps
  <2> QED
    BY <1>1, <1>2, <1>4, <2>1 DEF NewThread
<1>5. CASE OnALink(t, steps, arg, left) /\ byHand' = byHand \cup {<<t, arg.of>>}
  <2>1. <<"link">> \in Seq(Steps) /\ Ordered(<<"link">>) /\ <<"link">> # <<>>
    BY DEF Steps, Ordered, Updates, ChatSteps
  <2>2. <<"hold", "detach">> \in Seq(Steps) /\ Ordered(<<"hold", "detach">>) /\ <<"hold", "detach">> # <<>>
    BY DEF Steps, Ordered, Updates, ChatSteps
  <2>3. <<"hold", "toggle">> \in Seq(Steps) /\ Ordered(<<"hold", "toggle">>) /\ <<"hold", "toggle">> # <<>>
    BY DEF Steps, Ordered, Updates, ChatSteps
  <2> QED
    BY <1>1, <1>5, <2>1, <2>2, <2>3 DEF OnALink
<1>6. CASE OnLive(t, steps, arg, left)
  <2>1. \A s \in {<<"retitle", "save">>, <<"ask", "reply">>, <<"look", "rate">>, <<"fetch", "flag">>, <<"lock">>} :
          s \in Seq(Steps) /\ Ordered(s) /\ s # <<>>
    <3>1. <<"retitle", "save">> \in Seq(Steps) /\ Ordered(<<"retitle", "save">>) /\ <<"retitle", "save">> # <<>>
      BY DEF Steps, Ordered, Updates, ChatSteps
    <3>2. <<"ask", "reply">> \in Seq(Steps) /\ Ordered(<<"ask", "reply">>) /\ <<"ask", "reply">> # <<>>
      BY DEF Steps, Ordered, Updates, ChatSteps
    <3>3. <<"look", "rate">> \in Seq(Steps) /\ Ordered(<<"look", "rate">>) /\ <<"look", "rate">> # <<>>
      BY DEF Steps, Ordered, Updates, ChatSteps
    <3>4. <<"fetch", "flag">> \in Seq(Steps) /\ Ordered(<<"fetch", "flag">>) /\ <<"fetch", "flag">> # <<>>
      BY DEF Steps, Ordered, Updates, ChatSteps
    <3>5. <<"lock">> \in Seq(Steps) /\ Ordered(<<"lock">>) /\ <<"lock">> # <<>>
      BY DEF Steps, Ordered, Updates, ChatSteps
    <3> QED
      BY <3>1, <3>2, <3>3, <3>4, <3>5
  <2>2. /\ Head(<<"ask", "reply">>) = "ask" /\ Head(<<"look", "rate">>) = "look"
        /\ Head(<<"fetch", "flag">>) = "fetch" /\ Head(<<"lock">>) = "lock"
    OBVIOUS
  <2>3. Switch # <<>> /\ SwitchAndRename # <<>> /\ DeleteSteps # <<>>
        /\ <<"ask", "entitle", "save", "reply">> # <<>>
    BY DEF Switch, SwitchAndRename, DeleteSteps
  <2>4. steps \in Seq(Steps) /\ Ordered(steps) /\ steps # <<>>
    BY <1>6, <2>1, <2>3, SwitchPlan, SwitchAndRenamePlan, ChatPlans, DeletePlan DEF OnLive
  <2>5. Head(steps) \notin {"create", "link", "reassign", "save"} \/ steps = <<"retitle", "save">>
    BY <1>6, <2>2, SwitchPlan, SwitchAndRenamePlan, ChatPlans, DeletePlan DEF OnLive
  <2>6. /\ arg \in Agent \cup [of : Message \cup Memory, on : BOOLEAN] \cup {None}
        /\ left \subseteq Memory \cup Thread
    BY <1>2, <1>3, <1>6 DEF OnLive
  <2> QED
    BY <1>1, <2>4, <2>5, <2>6
<1> QED
  BY <1>4, <1>5, <1>6 DEF Starts

LEMMA StartGrows ==
  ASSUME TypeOK, NEW c \in Call, Start(c), MessageInv
  PROVE  Grown /\ MessageInv'
<1>1. UNCHANGED Data /\ \E t \in Thread : \E steps, arg, left : Starts(c, t, steps, arg, left)
  BY StartsAre
<1>2. PICK t \in Thread : \E steps, arg, left : Starts(c, t, steps, arg, left)
  BY <1>1
<1>3. PICK steps, arg, left : Starts(c, t, steps, arg, left)
  BY <1>2
<1>4. /\ call[c].thread = None
      /\ \A d \in Call : d # c => call'[d] = call[d]
  BY <1>3, StartFacts DEF TypeOK
<1>5. byHand \subseteq byHand' /\ thread' = thread /\ messages' = messages
  BY <1>1, <1>3 DEF Starts, Data
<1>6. ASSUME NEW m \in Message, messages[m] # "unsent" PROVE m[1] \in Call /\ m[1] # c /\ call'[m[1]] = call[m[1]]
  <2>1. Chats(m[1]) /\ m[1] \in Call
    BY <1>6 DEF MessageInv, Message
  <2> QED
    BY <1>4, <2>1, ThreadAssumption DEF Chats
<1>7. \A u : In(u) \subseteq In(u)'
  BY <1>5, <1>6 DEF In
<1>8. MessageInv'
  BY <1>5, <1>6 DEF MessageInv, Chats, Pending
<1> QED
  BY <1>5, <1>7, <1>8 DEF Grown

LEMMA MessagePlans ==
  /\ Head(<<"look", "rate">>) = "look" /\ Head(<<"fetch", "flag">>) = "fetch"
  /\ \A e : Has(<<"look", "rate">>, e) => e \in {"look", "rate"}
  /\ \A e : Has(<<"fetch", "flag">>, e) => e \in {"fetch", "flag"}
  /\ Head(<<"ask", "reply">>) = "ask" /\ \A e : Has(<<"ask", "reply">>, e) => e \in {"ask", "reply"}
<1>1. /\ "look" \in Steps /\ "rate" \in Steps /\ "fetch" \in Steps /\ "flag" \in Steps
      /\ "ask" \in Steps /\ "reply" \in Steps
  BY DEF Steps
<1> QED
  BY <1>1, Pairs

LEMMA StartFits ==
  ASSUME TypeOK, NEW c \in Call, RequestInv, Start(c), MessageInv
  PROVE  RequestInv' /\ call' \in [Call -> Request] /\ UNCHANGED Data
<1>1. UNCHANGED Data /\ \E t \in Thread : \E steps, arg, left : Starts(c, t, steps, arg, left)
  BY StartsAre
<1>2. PICK t \in Thread : \E steps, arg, left : Starts(c, t, steps, arg, left)
  BY <1>1
<1>3. PICK steps, arg, left : Starts(c, t, steps, arg, left)
  BY <1>2
<1>4. /\ steps \in Seq(Steps) /\ steps # <<>> /\ Ordered(steps)
      /\ arg \in Agent \cup [of : Message \cup Memory, on : BOOLEAN] \cup {None}
      /\ left \subseteq Memory \cup Thread /\ call[c].thread = None
  BY <1>3, StartFacts
<1>5. PICK r : r = [todo |-> steps, thread |-> t, read |-> thread[t], arg |-> arg, left |-> left]
  OBVIOUS
<1>6. r.todo = steps /\ r.thread = t /\ r.read = thread[t] /\ r.arg = arg /\ r.left = left
  BY <1>5
<1>7. /\ call \in [Call -> Request] /\ thread[t] \in Row \cup {Unborn, Gone}
      /\ (Live(t) => thread[t] \in Row)
  BY TypedThreads
<1>8. r \in Request /\ call' = [call EXCEPT ![c] = r]
  BY <1>3, <1>4, <1>5, <1>7, StartFacts DEF Request
<1>9. call' \in [Call -> Request] /\ call'[c] = r /\ \A d \in Call : d # c => call'[d] = call[d]
  BY <1>7, <1>8
<1>10. Grown /\ thread' = thread
  BY <1>1, StartGrows DEF Data
<1>11. ASSUME NEW d \in Call, d # c PROVE Fits(d)'
  <2>1. Fits(d)
    BY DEF RequestInv
  <2>2. ASSUME Pending(d, "create")
        PROVE  /\ thread'[call[d].thread] = Unborn
               /\ \A e \in Call : call'[e].thread = call[d].thread => e = d
    <3>1. /\ thread[call[d].thread] = Unborn
          /\ \A e \in Call : call[e].thread = call[d].thread => e = d
      BY <2>1, <2>2 DEF Fits
    <3>2. call[d].thread # t
      BY <1>3, <1>11, <3>1 DEF Starts, OnLive, OnALink, NewThread, Live
    <3> QED
      BY <1>6, <1>9, <1>10, <3>1, <3>2
  <2> QED
    BY <1>7, <1>9, <1>10, <1>11, <2>1, <2>2, StillFits
<1>12. Fits(c)'
  <2>1. /\ call'[c].todo = steps /\ call'[c].thread = t /\ call'[c].read = thread[t]
        /\ call'[c].arg = arg /\ call'[c].left = left /\ thread'[t] = thread[t] /\ t # None
        /\ In(t) \subseteq In(t)'
    BY <1>6, <1>9, <1>10, ThreadAssumption DEF Grown
  <2>2. \A a \in Agent : MemoriesOf[a] \subseteq Memory
    BY DEF Memory
  <2>3. ASSUME Head(steps) # "toggle" PROVE ~At(c, "toggle")'
    BY <2>1, <2>3 DEF At
  <2>4. CASE NewThread(t, steps, arg, left)
    <3>1. (\A e : Has(steps, e) <=> e \in {"create", "link"}) /\ Head(steps) = "create"
      BY <2>4, Pairs DEF NewThread, Steps
    <3>2. \A d \in Call : call'[d].thread = t => d = c
      BY <1>9, <2>4 DEF NewThread
    <3> QED
      BY <1>4, <2>1, <2>2, <2>3, <2>4, <3>1, <3>2 DEF Fits, Pending, NewThread
  <2>5. CASE OnALink(t, steps, arg, left) /\ byHand' = byHand \cup {<<t, arg.of>>}
    <3>1. thread[t] # Unborn /\ <<t, arg.of>> \in byHand' /\ left \subseteq Memory
      BY <2>5 DEF OnALink, Live
    <3>2. \/ (\A e : Has(steps, e) <=> e = "link") /\ Head(steps) = "link"
          \/ (\A e : Has(steps, e) <=> e \in {"hold", "detach"}) /\ Head(steps) = "hold"
          \/ (\A e : Has(steps, e) <=> e \in {"hold", "toggle"}) /\ Head(steps) = "hold"
      <4>1. CASE steps = <<"link">>
        BY <4>1, Singles DEF Steps
      <4>2. CASE steps = <<"hold", "detach">>
        BY <4>2, Pairs DEF Steps
      <4>3. CASE steps = <<"hold", "toggle">>
        BY <4>3, Pairs DEF Steps
      <4> QED
        BY <2>5, <4>1, <4>2, <4>3 DEF OnALink
    <3>3. ~At(c, "toggle")'
      BY <2>3, <3>2
    <3> QED
      BY <1>4, <2>1, <2>5, <3>1, <3>2, <3>3 DEF Fits, Pending, OnALink
  <2>6. CASE OnLive(t, steps, arg, left)
    <3>1. thread[t] # Unborn /\ thread[t] \in Row
      BY <1>7, <2>6 DEF OnLive, Live
    <3>2. CASE steps \in {Switch, SwitchAndRename}
      <4>1. /\ \A e : Has(steps, e) => e \in {"unlink", "reassign", "save", "link", "retitle"}
            /\ Head(steps) = "unlink"
        BY <3>2, SwitchPlan, SwitchAndRenamePlan
      <4>2. arg \in Agent /\ left = MemoriesOf[arg]
        <5>1. steps # <<"retitle", "save">> /\ steps # <<"lock">> /\ steps # <<"ask", "reply">>
              /\ steps # <<"look", "rate">> /\ steps # <<"fetch", "flag">>
              /\ steps # <<"ask", "entitle", "save", "reply">> /\ steps # DeleteSteps
          <6>1. /\ Head(<<"retitle", "save">>) = "retitle" /\ Head(<<"ask", "reply">>) = "ask"
                /\ Head(<<"look", "rate">>) = "look" /\ Head(<<"fetch", "flag">>) = "fetch"
                /\ Head(<<"lock">>) = "lock" /\ Head(<<"ask", "entitle", "save", "reply">>) = "ask"
            OBVIOUS
          <6> QED
            BY <4>1, <6>1, DeletePlan
        <5> QED
          BY <2>6, <5>1 DEF OnLive
      <4>3. ~At(c, "toggle")'
        BY <2>3, <4>1
      <4> QED
        BY <1>4, <2>1, <2>2, <3>1, <4>1, <4>2, <4>3 DEF Fits, Pending
    <3>3. CASE steps = <<"retitle", "save">> /\ left = {}
      <4>1. (\A e : Has(steps, e) <=> e \in {"retitle", "save"}) /\ Head(steps) = "retitle"
        BY <3>3, Pairs DEF Steps
      <4> QED
        BY <1>4, <2>1, <2>3, <3>1, <4>1 DEF Fits, Pending
    <3>4. CASE steps \in {<<"ask", "entitle", "save", "reply">>, <<"ask", "reply">>} /\ left = {}
      <4>1. (\A e : Has(steps, e) => e \in ChatSteps) /\ Head(steps) = "ask"
        <5>1. CASE steps = <<"ask", "reply">>
          BY <5>1, MessagePlans DEF ChatSteps
        <5>2. CASE steps = <<"ask", "entitle", "save", "reply">>
          BY <5>2, ChatPlans DEF ChatSteps
        <5> QED
          BY <3>4, <5>1, <5>2
      <4> QED
        BY <1>4, <2>1, <2>3, <3>1, <4>1 DEF Fits, Pending, ChatSteps
    <3>5. CASE /\ steps \in {<<"look", "rate">>, <<"fetch", "flag">>} /\ left = {}
               /\ arg \in [of : Message, on : BOOLEAN] /\ arg.of \in In(t)
      <4>1. /\ \A e : Has(steps, e) => e \in {"look", "rate", "fetch", "flag"}
            /\ Head(steps) \in {"look", "fetch"}
        <5>1. CASE steps = <<"look", "rate">>
          BY <5>1, MessagePlans
        <5>2. CASE steps = <<"fetch", "flag">>
          BY <5>2, MessagePlans
        <5> QED
          BY <3>5, <5>1, <5>2
      <4>2. arg.of \in In(t)'
        BY <2>1, <3>5
      <4> QED
        BY <1>4, <2>1, <2>3, <3>1, <3>5, <4>1, <4>2 DEF Fits, Pending
    <3>6. CASE steps = <<"lock">> /\ t \notin InMemory /\ left = {}
      <4>1. (\A e : Has(steps, e) <=> e = "lock") /\ Head(steps) = "lock"
        BY <3>6, Singles DEF Steps
      <4> QED
        BY <1>4, <2>1, <2>3, <3>1, <3>6, <4>1 DEF Fits, Pending
    <3>7. CASE steps = DeleteSteps /\ left \subseteq {u \in Thread : Live(u)}
      <4>1. (\A e : Has(steps, e) <=> e \in {"find", "clear", "drop"}) /\ Head(steps) = "find"
        BY <3>7, DeletePlan
      <4>2. \A u \in left : u \in Thread /\ thread'[u] # Unborn
        BY <1>10, <3>7 DEF Live
      <4> QED
        BY <1>4, <2>1, <2>3, <3>1, <3>7, <4>1, <4>2 DEF Fits, Pending
    <3> QED
      BY <2>6, <3>2, <3>3, <3>4, <3>5, <3>6, <3>7 DEF OnLive
  <2> QED
    BY <1>3, <2>4, <2>5, <2>6 DEF Starts
<1>13. RequestInv'
  BY <1>11, <1>12 DEF RequestInv
<1> QED
  BY <1>1, <1>9, <1>13

(***************************************************************************)
(* Links, ratings and file memories.                                       *)
(***************************************************************************)
LinksMove ==
  /\ links' \in [Thread -> [Memory -> Link \cup {None}]]
  /\ \A t \in Thread : \A m \in Memory :
       \/ links'[t][m] = links[t][m]
       \/ links'[t][m] = None
       \/ Live(t) /\ Live(t)' /\ t \notin InMemory

LEMMA StepMovesLinks ==
  ASSUME TypeOK, NEW c \in Call, Fits(c), Step(c)
  PROVE  LinksMove
<1> DEFINE t == call[c].thread
<1>0. /\ links \in [Thread -> [Memory -> Link \cup {None}]] /\ t \in Thread
      /\ call \in [Call -> Request] /\ call[c] \in Request
      /\ thread \in [Thread -> Row \cup {Unborn, Gone}]
  BY StepTurns DEF Fits, TypeOK
<1>1. ASSUME links' = links PROVE LinksMove
  BY <1>0, <1>1 DEF LinksMove
<1>2. ASSUME NEW row \in [Memory -> Link \cup {None}], links' = [links EXCEPT ![t] = row],
             \A m \in Memory : row[m] = links[t][m] \/ row[m] = None
      PROVE  LinksMove
  BY <1>0, <1>2 DEF LinksMove
<1>3. ASSUME NEW m \in Memory, NEW link \in Link, links' = [links EXCEPT ![t][m] = link],
             Live(t), thread' = thread, t \notin InMemory
      PROVE  LinksMove
  <2>2. \A u \in Thread : \A n \in Memory : links'[u][n] = IF u = t /\ n = m THEN link ELSE links[u][n]
    BY <1>0, <1>3
  <2>3. links' \in [Thread -> [Memory -> Link \cup {None}]]
    BY <1>0, <1>3
  <2>4. \A u : Live(u)' <=> Live(u)
    BY <1>3 DEF Live
  <2> QED
    BY <1>3, <2>2, <2>3, <2>4 DEF LinksMove
<1>4. CASE Unlink(c)
  <2> DEFINE row == [m \in Memory |-> IF m \in MemoriesOf[call[c].read.agent] THEN None ELSE links[t][m]]
  <2>1. links' = [links EXCEPT ![t] = row]
    BY <1>4 DEF Unlink
  <2> QED
    BY <1>0, <1>2, <2>1
<1>5. CASE LinkOne(c)
  <2>1. CASE links' = links
    BY <1>1, <2>1
  <2>2. CASE links' # links
    <3>1. PICK m \in call[c].left :
            /\ t \notin InMemory /\ Live(t)
            /\ links' = [links EXCEPT ![t][m] = IF @ = None THEN [by |-> c, on |-> TRUE] ELSE @]
      BY <1>5, <2>2 DEF LinkOne
    <3>2. m \in Memory
      BY <1>0, <1>5, <3>1, FirstStep DEF LinkOne, Fits
    <3> DEFINE link == IF links[t][m] = None THEN [by |-> c, on |-> TRUE] ELSE links[t][m]
    <3>3. link \in Link /\ links' = [links EXCEPT ![t][m] = link]
      BY <1>0, <3>1, <3>2 DEF Link
    <3>4. thread' = thread
      BY <1>5 DEF LinkOne
    <3> QED
      BY <1>3, <3>1, <3>2, <3>3, <3>4
  <2> QED
    BY <2>1, <2>2
<1>6. CASE DropThread(c)
  <2> DEFINE row == [m \in Memory |-> None]
  <2>1. links' = [links EXCEPT ![t] = row]
    BY <1>6 DEF DropThread, Cascade
  <2>2. row \in [Memory -> Link \cup {None}] /\ \A m \in Memory : row[m] = None
    OBVIOUS
  <2> HIDE DEF row
  <2> QED
    BY <1>2, <2>1, <2>2
<1>7. CASE FileMemory(c)
  <2>1. CASE Recheck(t, call[c].read)
    <3>1. t \notin InMemory /\ Live(t)
      BY <1>0, <1>7, <2>1, FirstStep DEF FileMemory, Fits, Recheck
    <3>2. /\ links' = [links EXCEPT ![t][Files] = [by |-> c, on |-> TRUE]]
          /\ thread' = [thread EXCEPT ![t].files = TRUE]
      BY <1>7, <2>1 DEF FileMemory
    <3>3. Files \in Memory /\ [by |-> c, on |-> TRUE] \in Link
      <4>1. Files \in Memory
        BY DEF Memory
      <4>2. [by |-> c, on |-> TRUE] \in Link
        BY DEF Link
      <4> QED
        BY <4>1, <4>2
    <3>4. thread[t] \in Row
      BY <1>0, <3>1, TypedThreads
    <3>5. \A u \in Thread : Live(u) => Live(u)'
      <4>1. thread'[t] = [thread[t] EXCEPT !.files = TRUE] /\ \A u \in Thread : u # t => thread'[u] = thread[u]
        BY <1>0, <3>2
      <4>2. [thread[t] EXCEPT !.files = TRUE] \in Row
        BY <3>4 DEF Row
      <4>3. Unborn \notin Row /\ Gone \notin Row
        BY TypedThreads
      <4>4. thread'[t] \in Row
        BY <4>1, <4>2
      <4> HIDE DEF t
      <4>5. \A u \in Thread : u # t => (Live(u) => thread'[u] \notin {Unborn, Gone})
        BY <4>1 DEF Live
      <4> QED
        BY <4>3, <4>4, <4>5 DEF Live
    <3>6. \A u \in Thread : \A n \in Memory :
            links'[u][n] = IF u = t /\ n = Files THEN [by |-> c, on |-> TRUE] ELSE links[u][n]
      BY <1>0, <3>2, <3>3
    <3>7. links' \in [Thread -> [Memory -> Link \cup {None}]]
      BY <1>0, <3>2, <3>3
    <3> QED
      BY <3>1, <3>5, <3>6, <3>7 DEF LinksMove
  <2>2. CASE ~Recheck(t, call[c].read)
    BY <1>1, <1>7, <2>2 DEF FileMemory
  <2> QED
    BY <2>1, <2>2
<1>8. CASE Toggle(c)
  <2>1. CASE Live(t) /\ SameLink(c)
    <3>1. At(c, "toggle") /\ Pending(c, "toggle")
      BY <1>0, <1>8, FirstStep DEF Toggle
    <3>2. /\ t \notin InMemory /\ Target(c) \in Memory /\ call[c].read \in Link
          /\ call[c].arg.on \in BOOLEAN
      BY <3>1 DEF Fits, Target
    <3> DEFINE link == [by |-> call[c].read.by, on |-> call[c].arg.on]
    <3>3. link \in Link
      BY <3>2 DEF Link
    <3>4. links' = [links EXCEPT ![t][Target(c)] = link] /\ thread' = thread
      BY <1>8, <2>1 DEF Toggle
    <3> HIDE DEF link
    <3> QED
      BY <1>3, <2>1, <3>2, <3>3, <3>4
  <2>2. CASE ~(Live(t) /\ SameLink(c))
    BY <1>1, <1>8, <2>2 DEF Toggle
  <2> QED
    BY <2>1, <2>2
<1>9. CASE Detach(c)
  <2>1. CASE SameLink(c)
    <3>1. Target(c) \in Memory
      BY <1>0, <1>9, FirstStep DEF Detach, Fits, Target
    <3> DEFINE row == [links[t] EXCEPT ![Target(c)] = None]
    <3>2. links' = [links EXCEPT ![t] = row]
      BY <1>9, <2>1 DEF Detach
    <3>3. row \in [Memory -> Link \cup {None}] /\ \A m \in Memory : row[m] = links[t][m] \/ row[m] = None
      BY <1>0, <3>1
    <3> HIDE DEF row
    <3> QED
      BY <1>2, <3>2, <3>3
  <2>2. CASE ~SameLink(c)
    BY <1>1, <1>9, <2>2 DEF Detach
  <2> QED
    BY <2>1, <2>2
<1>10. CASE Create(c) \/ Merge(c) \/ Save(c) \/ Ask(c) \/ Reply(c) \/ Find(c) \/ Clear(c) \/ Look(c)
            \/ Rate(c) \/ Fetch(c) \/ SetFlag(c) \/ Hold(c)
  BY <1>1, <1>10 DEF Create, Merge, Save, Ask, Reply, Find, Clear, Look, Rate, Fetch, SetFlag, Hold, Data
<1> QED
  BY <1>4, <1>5, <1>6, <1>7, <1>8, <1>9, <1>10 DEF Step

\* No rating without its message, and never two.
RatingsFit == \A m \in Message : feedback[m] <= 1 /\ (feedback[m] > 0 => Stored(m))

LEMMA StepMovesRatings ==
  ASSUME TypeOK, NEW c \in Call, Fits(c), Step(c)
  PROVE  feedback' \in [Message -> Nat] /\ (RatingsFit => RatingsFit')
<1>0. /\ messages \in [Message -> Flag \cup {"unsent", "gone"}] /\ feedback \in [Message -> Nat]
      /\ call \in [Call -> Request] /\ MessagesMove(c)
  BY StepMovesMessages DEF TypeOK
<1>1. ASSUME feedback' = feedback, \A m \in Message : Stored(m) => messages'[m] \in Flag
      PROVE  feedback' \in [Message -> Nat] /\ (RatingsFit => RatingsFit')
  BY <1>0, <1>1 DEF RatingsFit, Stored
<1>2. ASSUME NEW ms, Wipe(ms)
      PROVE  feedback' \in [Message -> Nat] /\ (RatingsFit => RatingsFit')
  BY <1>0, <1>2, WipeFacts DEF RatingsFit, Stored
<1>3. CASE Create(c)
  <2>1. PICK ms : UNCHANGED <<messages, feedback>> \/ Wipe(ms)
    BY <1>3 DEF Create, Evict, Keeping
  <2> QED
    BY <1>1, <1>2, <2>1 DEF Stored
<1>4. CASE Find(c) \/ Clear(c) \/ DropThread(c)
  BY <1>1, <1>2, <1>4 DEF Find, Clear, DropThread, Cascade, Stored
<1>5. CASE Ask(c) \/ Reply(c) \/ SetFlag(c)
  <2>1. feedback' = feedback /\ (At(c, "ask") \/ At(c, "reply") \/ At(c, "flag"))
    BY <1>5 DEF Ask, Reply, SetFlag
  <2>2. \A m \in Message : Stored(m) => messages'[m] \in Flag
    <3>1. CASE Ask(c)
      BY <1>0, <3>1 DEF Ask, Stored, Flag
    <3>2. CASE Reply(c)
      BY <1>0, <3>2 DEF Reply, Stored, Flag
    <3>3. CASE SetFlag(c)
      BY <1>0, <3>3 DEF SetFlag, Stored, Flag
    <3> QED
      BY <1>5, <3>1, <3>2, <3>3
  <2> QED
    BY <1>1, <2>1, <2>2
<1>6. CASE Rate(c)
  <2>1. At(c, "rate") /\ Target(c) \in Message /\ messages' = messages
    BY <1>0, <1>6, FirstStep DEF Rate, Fits, Target
  <2>2. /\ \A m \in Message : m # Target(c) => feedback'[m] = feedback[m]
        /\ \/ feedback'[Target(c)] = 0
           \/ Stored(Target(c)) /\ feedback'[Target(c)] \in {1, feedback[Target(c)]}
    BY <1>0, <1>6, <2>1 DEF Rate, InsertUnique
  <2>3. feedback' \in [Message -> Nat]
    <3>1. PICK n : feedback' = [feedback EXCEPT ![Target(c)] = n]
      BY <1>6 DEF Rate
    <3>2. feedback'[Target(c)] = n /\ n \in Nat
      BY <1>0, <2>1, <2>2, <3>1
    <3> QED
      BY <1>0, <3>1, <3>2
  <2>4. \A m \in Message : messages'[m] = messages[m]
    BY <2>1
  <2> QED
    BY <1>0, <2>1, <2>2, <2>3, <2>4 DEF RatingsFit, Stored
<1>7. CASE Unlink(c) \/ Merge(c) \/ Save(c) \/ LinkOne(c) \/ Look(c) \/ Fetch(c)
           \/ FileMemory(c) \/ Hold(c) \/ Toggle(c) \/ Detach(c)
  BY <1>1, <1>7 DEF Unlink, Merge, Save, LinkOne, Look, Fetch, FileMemory, Hold, Toggle, Detach, Data, Stored
<1> QED
  BY <1>3, <1>4, <1>5, <1>6, <1>7 DEF Step

\* The file memories are counted by the rows.
FilesFit ==
  \A t \in Thread : /\ files[t] \in {0, 1}
                    /\ thread[t] = Unborn => files[t] = 0
                    /\ thread[t] \in Row => (files[t] = 1 <=> thread[t].files)

LEMMA FilesCounted ==
  ASSUME TypeOK, FilesFit
  PROVE  OneFileMemory
<1>1. ASSUME NEW t \in Thread PROVE files[t] <= 1 /\ (Live(t) => ((files[t] = 1) = thread[t].files))
  <2>1. files[t] \in {0, 1} /\ (thread[t] \in Row => (files[t] = 1 <=> thread[t].files))
    BY DEF FilesFit
  <2>2. Live(t) => thread[t] \in Row
    BY TypedThreads
  <2>3. thread[t] \in Row => thread[t].files \in BOOLEAN
    BY DEF Row
  <2>4. files[t] <= 1
    BY <2>1
  <2>5. Live(t) => ((files[t] = 1) = thread[t].files)
    BY <2>1, <2>2, <2>3, Zenon
  <2> QED
    BY <2>4, <2>5
<1> QED
  BY <1>1 DEF OneFileMemory

LEMMA StepMovesFiles ==
  ASSUME TypeOK, NEW c \in Call, Fits(c), Step(c)
  PROVE  files' \in [Thread -> Nat] /\ (FilesFit => FilesFit')
<1> DEFINE t == call[c].thread
<1>0. /\ files \in [Thread -> Nat] /\ ThreadsMove(c) /\ t \in Thread
      /\ thread \in [Thread -> Row \cup {Unborn, Gone}]
      /\ Unborn # Gone /\ Unborn \notin Row /\ Gone \notin Row
      /\ \A u \in Thread : Live(u) => thread[u] \in Row
  BY StepMovesThreads, StepTurns, TypedThreads DEF TypeOK, Fits
<1>1. CASE FileMemory(c) /\ Recheck(t, call[c].read)
  <2>1. /\ thread' = [thread EXCEPT ![t].files = TRUE] /\ files' = [files EXCEPT ![t] = @ + 1]
        /\ Live(t) /\ ~thread[t].files
    BY <1>1 DEF FileMemory, Recheck
  <2>2. PICK row \in Row : thread' = [thread EXCEPT ![t] = row] /\ row.files = TRUE
    <3>1. thread[t] \in Row
      BY <1>0, <2>1
    <3>2. [thread[t] EXCEPT !.files = TRUE] \in Row /\ [thread[t] EXCEPT !.files = TRUE].files = TRUE
      BY <3>1 DEF Row
    <3> QED
      BY <2>1, <3>2
  <2>3. /\ thread'[t] = row /\ \A u \in Thread : u # t => thread'[u] = thread[u]
        /\ files'[t] = files[t] + 1 /\ \A u \in Thread : u # t => files'[u] = files[u]
        /\ files' \in [Thread -> Nat]
    BY <1>0, <2>1, <2>2
  <2>4. thread' \in [Thread -> Row \cup {Unborn, Gone}] /\ thread[t] \in Row
    BY <1>0, <2>1 DEF ThreadsMove
  <2> HIDE DEF t
  <2>5. ASSUME FilesFit PROVE FilesFit'
    <3>1. files[t] = 0
      BY <1>0, <2>1, <2>4, <2>5 DEF FilesFit
    <3>2. \A u \in Thread : /\ files'[u] \in {0, 1}
                            /\ thread'[u] = Unborn => files'[u] = 0
                            /\ thread'[u] \in Row => (files'[u] = 1 <=> thread'[u].files)
      BY <1>0, <2>2, <2>3, <2>5, <3>1 DEF FilesFit
    <3> QED
      BY <3>2 DEF FilesFit
  <2> QED
    BY <2>3, <2>5
<1>2. CASE ~(FileMemory(c) /\ Recheck(t, call[c].read))
  <2>1. files' = files
    BY <1>2 DEF Step, Create, Unlink, Merge, Save, LinkOne, Ask, Reply, Find, Clear, DropThread, Look, Rate,
                Fetch, SetFlag, FileMemory, Hold, Toggle, Detach, Data
  <2>2. At(c, "lock") => thread' = thread
    BY <1>2 DEF Step, At, Create, Unlink, Merge, Save, LinkOne, Ask, Reply, Find, Clear, DropThread, Look,
                Rate, Fetch, SetFlag, FileMemory, Hold, Toggle, Detach, Data
  <2>3. ASSUME NEW u \in Thread
        PROVE  \/ thread'[u] = thread[u]
               \/ Live(u) /\ thread'[u] \in Row /\ thread'[u].files = thread[u].files
               \/ thread[u] = Unborn /\ thread'[u] \in Row /\ thread'[u].files = FALSE
               \/ thread[u] # Unborn /\ thread'[u] = Gone
    <3>1. CASE Created(c, u)
      <4>1. /\ call \in [Call -> Request] /\ Pending(c, "create")
        BY <3>1, FirstStep DEF Created, TypeOK
      <4>2. u = call[c].thread /\ call[c].arg \in Agent /\ thread[u] = Unborn
        BY <3>1, <4>1 DEF Created, Fits
      <4>3. Fresh(call[c].arg) \in Row /\ Fresh(call[c].arg).files = FALSE
        BY <4>2 DEF Fresh, Row
      <4> QED
        BY <3>1, <4>2, <4>3 DEF Created
    <3>2. CASE Updated(c, u)
      BY <2>2, <3>2 DEF Updated
    <3> QED
      BY <1>0, <3>1, <3>2 DEF ThreadsMove, Removed
  <2>4. thread' \in [Thread -> Row \cup {Unborn, Gone}] /\ files' \in [Thread -> Nat]
    BY <1>0, <2>1 DEF ThreadsMove
  <2>5. ASSUME FilesFit PROVE FilesFit'
    <3>1. ASSUME NEW u \in Thread
          PROVE  /\ files'[u] \in {0, 1}
                 /\ thread'[u] = Unborn => files'[u] = 0
                 /\ thread'[u] \in Row => (files'[u] = 1 <=> thread'[u].files)
      <4>1. /\ files[u] \in {0, 1}
            /\ thread[u] = Unborn => files[u] = 0
            /\ thread[u] \in Row => (files[u] = 1 <=> thread[u].files)
            /\ Live(u) => thread[u] \in Row
        BY <1>0, <2>5 DEF FilesFit
      <4>2. files'[u] = files[u]
        BY <2>1
      <4>3. CASE thread'[u] = thread[u]
        BY <4>1, <4>2, <4>3
      <4>4. CASE Live(u) /\ thread'[u] \in Row /\ thread'[u].files = thread[u].files
        BY <1>0, <4>1, <4>2, <4>4
      <4>5. CASE thread[u] = Unborn /\ thread'[u] \in Row /\ thread'[u].files = FALSE
        BY <1>0, <4>1, <4>2, <4>5
      <4>6. CASE thread[u] # Unborn /\ thread'[u] = Gone
        BY <1>0, <4>1, <4>2, <4>6
      <4> QED
        BY <2>3, <4>3, <4>4, <4>5, <4>6
    <3> QED
      BY <3>1 DEF FilesFit
  <2> QED
    BY <2>4, <2>5
<1> QED
  BY <1>1, <1>2

(***************************************************************************)
(* What holds of every state, however the requests overlap.                *)
(***************************************************************************)
Sound == TypeOK /\ RequestInv /\ MessageInv /\ FilesFit /\ RatingsFit

LEMMA InitSound ==
  ASSUME Init
  PROVE  Sound
<1>1. PICK stored \in SUBSET (Thread \ InMemory), a \in Agent \ Transient :
         /\ thread = [t \in Thread |-> IF t \in stored THEN Fresh(a) ELSE Unborn]
         /\ links = [t \in Thread |->
                       IF t \in stored THEN Configured(a) ELSE [m \in Memory |-> None]]
  BY DEF Init
<1>2. /\ order = <<>> /\ messages = [m \in Message |-> "unsent"] /\ feedback = [m \in Message |-> 0]
      /\ files = [t \in Thread |-> 0]
      /\ call = [c \in Call |-> [todo |-> <<>>, thread |-> None, read |-> None, arg |-> None, left |-> {}]]
      /\ raced = FALSE /\ byHand = {}
  BY DEF Init
<1>3. Fresh(a) \in Row /\ Fresh(a).files = FALSE
  BY DEF Fresh, Row
<1>4. thread \in [Thread -> Row \cup {Unborn, Gone}]
  BY <1>1, <1>3
<1>5. [m \in Memory |-> None] \in [Memory -> Link \cup {None}] /\ Configured(a) \in [Memory -> Link \cup {None}]
  BY DEF Configured, Link
<1>6. links \in [Thread -> [Memory -> Link \cup {None}]]
  BY <1>1, <1>5
<1>7. call \in [Call -> Request]
  <2>1. [todo |-> <<>>, thread |-> None, read |-> None, arg |-> None, left |-> {}] \in Request
    BY DEF Request
  <2> QED
    BY <1>2, <2>1
<1>8. \A t \in InMemory : t \in Thread /\ thread[t] = Unborn /\ ~Live(t) /\ Linked(t) = {}
  BY <1>1, ThreadAssumption DEF Linked, Live
<1>9. TypeOK
  <2>1. order \in Seq(InMemory) /\ Len(order) = 0
    BY <1>2
  <2>2. messages \in [Message -> Flag \cup {"unsent", "gone"}] /\ feedback \in [Message -> Nat] /\ files \in [Thread -> Nat]
    BY <1>2
  <2>3. raced \in BOOLEAN /\ byHand \subseteq Thread \X Memory
    BY <1>2
  <2>4. /\ \A i, j \in 1..Len(order) : order[i] = order[j] => i = j
        /\ \A t \in InMemory : Live(t) <=> \E i \in 1..Len(order) : order[i] = t
    BY <1>8, <2>1
  <2> QED
    BY <1>4, <1>6, <1>7, <1>8, <2>1, <2>2, <2>3, <2>4 DEF TypeOK
<1>10. ASSUME NEW c \in Call PROVE Fits(c)
  <2>1. call[c].todo = <<>> /\ call[c].thread = None
    BY <1>2
  <2>2. Ordered(<<>>) /\ \A e : ~Has(<<>>, e)
    BY DEF Ordered, Has
  <2> QED
    BY <2>1, <2>2 DEF Fits, Pending, Busy, At
<1>11. MessageInv /\ RatingsFit
  BY <1>2 DEF MessageInv, RatingsFit
<1>12. FilesFit
  BY <1>1, <1>2, <1>3, ThreadAssumption DEF FilesFit
<1> QED
  BY <1>9, <1>10, <1>11, <1>12 DEF Sound, RequestInv

LEMMA TypeKept ==
  ASSUME TypeOK, NEW c \in Call, Fits(c), Step(c)
  PROVE  TypeOK' /\ UNCHANGED History
<1>1. /\ ThreadsMove(c) /\ MessagesMove(c) /\ LinksMove /\ call' \in [Call -> Request]
      /\ feedback' \in [Message -> Nat] /\ files' \in [Thread -> Nat]
  BY StepMovesThreads, StepMovesMessages, StepMovesLinks, StepTurns, StepMovesRatings, StepMovesFiles
<1>2. UNCHANGED History
  BY DEF Step, Create, Unlink, Merge, Save, LinkOne, Ask, Reply, Find, Clear, DropThread, Look, Rate,
         Fetch, SetFlag, FileMemory, Hold, Toggle, Detach
<1>3. \A t \in InMemory : Linked(t)' = {}
  BY <1>1, ThreadAssumption DEF TypeOK, LinksMove, Linked
<1>4. /\ raced \in BOOLEAN /\ byHand \subseteq Thread \X Memory /\ raced' = raced /\ byHand' = byHand
  BY <1>2 DEF TypeOK, History
<1>5. /\ \A i, j \in 1..Len(order') : order'[i] = order'[j] => i = j
      /\ \A t \in InMemory : Live(t)' <=> \E i \in 1..Len(order') : order'[i] = t
      /\ order' \in Seq(InMemory) /\ thread' \in [Thread -> Row \cup {Unborn, Gone}]
  BY <1>1 DEF ThreadsMove, Injective, Has
<1>6. /\ messages' \in [Message -> Flag \cup {"unsent", "gone"}]
      /\ links' \in [Thread -> [Memory -> Link \cup {None}]]
  BY <1>1 DEF MessagesMove, LinksMove
<1> QED
  BY <1>1, <1>2, <1>3, <1>4, <1>5, <1>6 DEF TypeOK

LEMMA StepSound ==
  ASSUME Sound, NEW c \in Call, Step(c)
  PROVE  Sound'
<1>1. TypeOK /\ RequestInv /\ Fits(c) /\ MessageInv /\ FilesFit /\ RatingsFit
  BY DEF Sound, RequestInv
<1>2. TypeOK' /\ MessageInv' /\ FilesFit' /\ RatingsFit'
  BY <1>1, TypeKept, MessageStep, StepMovesFiles, StepMovesRatings
<1>3. \A d \in Call : Fits(d)'
  BY <1>1, OwnFits, OthersFit
<1> QED
  BY <1>2, <1>3 DEF Sound, RequestInv

LEMMA StartSound ==
  ASSUME Sound, NEW c \in Call, Start(c)
  PROVE  Sound'
<1>1. TypeOK /\ RequestInv /\ MessageInv /\ FilesFit /\ RatingsFit
  BY DEF Sound
<1>2. /\ RequestInv' /\ call' \in [Call -> Request] /\ MessageInv'
      /\ thread' = thread /\ order' = order /\ messages' = messages /\ feedback' = feedback
      /\ links' = links /\ files' = files
  BY <1>1, StartFits, StartGrows DEF Data
<1>3. raced' \in BOOLEAN /\ byHand' \subseteq Thread \X Memory
  <2>1. PICK t \in Thread : \E steps, arg, left : Starts(c, t, steps, arg, left)
    BY StartsAre
  <2>2. PICK steps, arg, left : Starts(c, t, steps, arg, left)
    BY <2>1
  <2>3. raced' \in BOOLEAN
    <3>1. raced \in BOOLEAN /\ raced' = (raced \/ \E d \in Call : Busy(d))
      BY <1>1, <2>2 DEF TypeOK, Starts, Begin
    <3> QED
      BY <3>1
  <2>4. byHand' \subseteq Thread \X Memory
    BY <1>1, <2>2 DEF TypeOK, Starts, OnALink
  <2> QED
    BY <2>3, <2>4
<1>4. TypeOK'
  BY <1>1, <1>2, <1>3 DEF TypeOK, Live, Linked
<1>5. FilesFit' /\ RatingsFit'
  BY <1>1, <1>2 DEF FilesFit, RatingsFit, Stored
<1> QED
  BY <1>2, <1>4, <1>5 DEF Sound

LEMMA RestSound ==
  ASSUME Sound, UNCHANGED vars
  PROVE  Sound'
<1>1. /\ thread' = thread /\ order' = order /\ messages' = messages /\ feedback' = feedback
      /\ links' = links /\ files' = files /\ call' = call /\ raced' = raced /\ byHand' = byHand
  BY DEF vars
<1>2. TypeOK'
  BY <1>1 DEF Sound, TypeOK, Live, Linked
<1>3. MessageInv' /\ FilesFit' /\ RatingsFit'
  BY <1>1 DEF Sound, MessageInv, FilesFit, RatingsFit, Stored, Chats, Pending
<1>4. ASSUME NEW d \in Call PROVE Fits(d)'
  <2>1. Fits(d)
    BY DEF Sound, RequestInv
  <2> QED
    BY <1>1, <2>1 DEF Fits, Pending, At, Busy, In
<1> QED
  BY <1>2, <1>3, <1>4 DEF Sound, RequestInv

LEMMA AlwaysSound == Spec => []Sound
<1>1. Init => Sound
  BY InitSound
<1>2. Sound /\ [Next]_vars => Sound'
  BY StepSound, StartSound, RestSound DEF Next
<1> QED
  BY <1>1, <1>2, PTL DEF Spec

\* Threads, links, requests and the places of the memory storage are always
\* what the code takes them for: the storage holds each of its threads once,
\* and only those that are there.
THEOREM TypeCorrect == Spec => []TypeOK
<1>1. Sound => TypeOK
  BY DEF Sound
<1> QED
  BY <1>1, AlwaysSound, PTL

\* However many uploads and ratings arrive together, a thread is given one
\* file memory, its row says whether it has one, and a message is rated once.
THEOREM FilesAndRatingsAreMadeOnce == Spec => []MadeOnce
<1>1. Sound => MadeOnce
  BY FilesCounted DEF Sound, MadeOnce, RatingsFit, OneRating
<1> QED
  BY <1>1, AlwaysSound, PTL

\* A thread that is gone stays gone, whatever was in progress on it, and no
\* update of a row takes its file memory away.
THEOREM UpdatesAlwaysKeepTheRest == Spec => UpdatesKeepTheRest
<1> DEFINE Kept(t) == /\ thread[t] = Gone => thread'[t] = Gone
                      /\ Live(t) /\ thread[t].files => thread'[t] = Gone \/ thread'[t].files
<1>1. ASSUME Sound, Next PROVE \A t \in Thread : Kept(t)
  <2>0. TypeOK /\ RequestInv /\ MessageInv
    BY <1>1 DEF Sound
  <2>1. ASSUME thread' = thread PROVE \A t \in Thread : Kept(t)
    BY <2>1
  <2>2. ASSUME NEW c \in Call, Start(c) PROVE thread' = thread
    BY <2>2, StartsAre DEF Data
  <2>3. ASSUME NEW c \in Call, Step(c) PROVE \A t \in Thread : Kept(t)
    <3>1. Fits(c) /\ ThreadsMove(c) /\ call \in [Call -> Request] /\ Unborn # Gone
      BY <2>0, <2>3, StepMovesThreads, TypedThreads DEF RequestInv
    <3>2. ASSUME NEW t \in Thread, Created(c, t) PROVE thread[t] = Unborn
      BY <3>1, <3>2, FirstStep DEF Created, Fits
    <3> QED
      BY <3>1, <3>2 DEF ThreadsMove, Removed, Updated, Live
  <2> QED
    BY <1>1, <2>1, <2>2, <2>3 DEF Next, vars
<1>2. Sound /\ [Next]_vars => [\A t \in Thread : Kept(t)]_vars
  BY <1>1
<1> QED
  BY <1>2, AlwaysSound, PTL DEF Spec, UpdatesKeepTheRest

\* A thread in memory makes room for a newer one only at the cap, and only
\* after every older one.
THEOREM TheOldestGoAtTheCap == Spec => EvictsOldestAtCap
<1> DEFINE InTurn(t) ==
             /\ thread[t] # Gone /\ thread'[t] = Gone
             /\ \E u \in InMemory : thread[u] = Unborn /\ thread'[u] # Unborn
             => /\ Len(order') = MaxThreads
                /\ \A i, j \in DOMAIN order :
                     order[j] = t /\ i < j => thread'[order[i]] = Gone
<1>1. ASSUME Sound, Next PROVE \A t \in InMemory : InTurn(t)
  <2>0. TypeOK /\ RequestInv /\ MessageInv /\ InMemory \subseteq Thread
    BY <1>1, ThreadAssumption DEF Sound
  <2>1. ASSUME thread' = thread PROVE \A t \in InMemory : InTurn(t)
    BY <2>1
  <2>2. ASSUME NEW c \in Call, Start(c) PROVE thread' = thread
    BY <2>2, StartsAre DEF Data
  <2>3. ASSUME NEW c \in Call, Step(c), NEW t \in InMemory, thread[t] # Gone, thread'[t] = Gone,
               NEW u \in InMemory, thread[u] = Unborn, thread'[u] # Unborn
        PROVE  /\ Len(order') = MaxThreads
               /\ \A i, j \in DOMAIN order : order[j] = t /\ i < j => thread'[order[i]] = Gone
    <3>1. /\ Fits(c) /\ ThreadsMove(c) /\ call \in [Call -> Request] /\ Unborn # Gone
          /\ order \in Seq(InMemory) /\ Gone \notin Row
      BY <2>0, <2>3, StepMovesThreads, TypedThreads DEF RequestInv
    <3>2. Created(c, u)
      BY <2>0, <2>3, <3>1 DEF ThreadsMove, Removed, Updated, Live
    <3>3. Create(c) /\ u = call[c].thread /\ call[c].arg \in Agent
      <4>1. At(c, "create")
        BY <3>2 DEF Created
      <4>2. Create(c)
        BY <2>3, <4>1 DEF Step, At, Create, Unlink, Merge, Save, LinkOne, Ask, Reply, Find, Clear, DropThread,
                          Look, Rate, Fetch, SetFlag, FileMemory, Hold, Toggle, Detach
      <4> QED
        BY <3>1, <3>2, <4>1, <4>2, FirstStep DEF Created, Fits
    <3>4. PICK out : Evicted(u, call[c].arg, out)
      BY <2>0, <2>3, <3>3, EvictFacts DEF Create
    <3>5. \A w \in Thread : thread'[w] = IF w \in out THEN Gone
                                          ELSE IF w = u THEN Fresh(call[c].arg) ELSE thread[w]
      BY <3>4 DEF Evicted
    <3>6. t \in out
      <4>1. Fresh(call[c].arg) \in Row
        BY <3>3 DEF Fresh, Row
      <4> QED
        BY <2>0, <2>3, <3>1, <3>5, <4>1
    <3>7. ASSUME NEW i \in DOMAIN order, NEW j \in DOMAIN order, order[j] = t, i < j
          PROVE  thread'[order[i]] = Gone
      <4>1. i \in 1..Len(order) /\ j \in 1..Len(order) /\ order[i] \in Thread
        BY <2>0, <3>1, <3>7
      <4>2. order[i] \in out
        BY <3>4, <3>6, <3>7, <4>1 DEF Evicted
      <4> QED
        BY <3>5, <4>1, <4>2
    <3> QED
      BY <3>4, <3>6, <3>7 DEF Evicted
  <2>4. ASSUME NEW c \in Call, Step(c) PROVE \A t \in InMemory : InTurn(t)
    BY <2>3, <2>4
  <2> QED
    BY <1>1, <2>1, <2>2, <2>4 DEF Next, vars
<1>2. Sound /\ [Next]_vars => [\A t \in InMemory : InTurn(t)]_vars
  BY <1>1
<1> QED
  BY <1>2, AlwaysSound, PTL DEF Spec, EvictsOldestAtCap

(***************************************************************************)
(* NoGhosts: what goes with a thread, and what still comes for it.         *)
(***************************************************************************)
LEMMA RemovedWithAll ==
  ASSUME TypeOK, NEW c \in Call, Fits(c), Step(c), NEW t \in Thread, Live(t), ~Live(t)'
  PROVE  /\ t \notin InMemory => Linked(t)' = {}
         /\ \A m \in In(t) : ~Stored(m)'
         /\ \A m \in Message : messages[m] = "unsent" => messages'[m] = "unsent"
<1> DEFINE Goal == /\ t \notin InMemory => Linked(t)' = {}
                   /\ \A m \in In(t) : ~Stored(m)'
                   /\ \A m \in Message : messages[m] = "unsent" => messages'[m] = "unsent"
<1>0. /\ ThreadsMove(c) /\ call \in [Call -> Request] /\ InMemory \subseteq Thread
      /\ Unborn # Gone /\ Unborn \notin Row /\ Gone \notin Row /\ call[c].thread \in Thread
      /\ thread \in [Thread -> Row \cup {Unborn, Gone}]
      /\ links \in [Thread -> [Memory -> Link \cup {None}]]
  BY StepMovesThreads, TypedThreads, StepTurns DEF TypeOK, Fits
<1>1. PICK step \in {"create", "find", "drop"} : At(c, step)
  <2>1. thread'[t] # thread[t]
    BY DEF Live
  <2>2. ~Created(c, t)
    <3>1. ASSUME Created(c, t) PROVE FALSE
      <4>1. thread[t] = Unborn
        BY <1>0, <3>1, FirstStep DEF Created, Fits
      <4> QED
        BY <4>1 DEF Live
    <3> QED
      BY <3>1
  <2>3. ~Updated(c, t)
    BY <1>0 DEF Updated, Live
  <2> QED
    BY <1>0, <2>1, <2>2, <2>3 DEF ThreadsMove, Removed
<1>2. ASSUME NEW ms, Wipe(ms), In(t) \subseteq ms
      PROVE  /\ \A m \in In(t) : ~Stored(m)'
             /\ \A m \in Message : messages[m] = "unsent" => messages'[m] = "unsent"
  BY <1>2, WipeFacts DEF In, Stored, Flag
<1>3. CASE Create(c)
  <2>1. /\ thread[call[c].thread] = Unborn /\ call[c].arg \in Agent
        /\ (call[c].thread \in InMemory => Evict(call[c].thread, call[c].arg))
        /\ (call[c].thread \notin InMemory => thread' = [thread EXCEPT ![call[c].thread] = Fresh(call[c].arg)])
    BY <1>0, <1>3, FirstStep DEF Create, Fits
  <2>2. t # call[c].thread
    BY <2>1 DEF Live
  <2>3. call[c].thread \in InMemory
    BY <1>0, <2>1, <2>2 DEF Live
  <2>4. PICK out : Evicted(call[c].thread, call[c].arg, out)
    BY <2>1, <2>3, EvictFacts
  <2>5. t \in out /\ out \subseteq InMemory
    BY <2>2, <2>4 DEF Evicted, Live
  <2>6. Wipe(UNION {In(u) : u \in out}) /\ In(t) \subseteq UNION {In(u) : u \in out}
    BY <2>4, <2>5 DEF Evicted
  <2> QED
    BY <1>2, <2>5, <2>6
<1>4. CASE Find(c)
  <2>1. CASE Live(call[c].thread) /\ call[c].thread \in InMemory
    <3>1. Drop(call[c].thread) /\ Wipe(In(call[c].thread))
      BY <1>4, <2>1 DEF Find
    <3>2. thread' = [thread EXCEPT ![call[c].thread] = Gone]
      BY <3>1 DEF Drop
    <3>3. t = call[c].thread
      BY <1>0, <3>2 DEF Live
    <3> QED
      BY <1>2, <2>1, <3>1, <3>3
  <2>2. CASE ~(Live(call[c].thread) /\ call[c].thread \in InMemory)
    BY <1>4, <2>2 DEF Find, Live
  <2> QED
    BY <2>1, <2>2
<1>5. CASE DropThread(c)
  <2>1. /\ thread' = [thread EXCEPT ![call[c].thread] = Gone]
        /\ links' = [links EXCEPT ![call[c].thread] = [m \in Memory |-> None]]
        /\ Wipe(In(call[c].thread))
    BY <1>5 DEF DropThread, Drop, Cascade
  <2>2. t = call[c].thread
    BY <1>0, <2>1 DEF Live
  <2>3. \A m \in Memory : links'[t][m] = None
    BY <1>0, <2>1, <2>2
  <2> QED
    BY <1>2, <2>1, <2>2, <2>3 DEF Linked
<1> QED
  BY <1>1, <1>3, <1>4, <1>5 DEF Step, At, Create, Unlink, Merge, Save, LinkOne, Ask, Reply, Find, Clear,
                                DropThread, Look, Rate, Fetch, SetFlag, FileMemory, Hold, Toggle, Detach

\* No message of a thread that is gone, but late replies in memory.
Ghostless ==
  \A t \in Thread : ~Live(t) =>
    /\ Linked(t) = {}
    /\ \A m \in In(t) : Stored(m) => t \in InMemory /\ m[2] = "reply"

LEMMA StepGhostless ==
  ASSUME TypeOK, NEW c \in Call, Fits(c), Step(c), MessageInv, Ghostless
  PROVE  Ghostless'
<1>0. /\ ThreadsMove(c) /\ MessagesMove(c) /\ LinksMove /\ TypeOK'
      /\ call \in [Call -> Request] /\ Fits(c) /\ Unborn # Gone /\ InMemory \subseteq Thread
  BY StepMovesThreads, StepMovesMessages, StepMovesLinks, TypeKept, TypedThreads
<1>1. SUFFICES ASSUME NEW t \in Thread, ~Live(t)'
               PROVE  /\ Linked(t)' = {}
                      /\ \A m \in In(t)' : Stored(m)' => t \in InMemory /\ m[2] = "reply"
  BY DEF Ghostless
\* A message of the thread after the step was one before, or is sent now.
<1>2. ASSUME NEW m \in In(t)'
      PROVE  m \in Message /\ (m \in In(t) \/ (messages[m] = "unsent" /\ Sent(c, m)))
  <2>1. m \in Message /\ messages'[m] # "unsent" /\ call'[m[1]].thread = t /\ m[1] \in Call
    BY <1>2 DEF In, Message
  <2>2. CASE messages[m] = "unsent"
    <3>1. ~Flagged(c, m)
      <4>1. ASSUME Flagged(c, m) PROVE m \in In(call[c].thread)
        BY <1>0, <4>1, FirstStep DEF Flagged, Fits, Target
      <4> QED
        BY <2>2, <4>1 DEF In
    <3> QED
      BY <1>0, <2>1, <2>2, <3>1 DEF MessagesMove, Stored, Flag
  <2>3. CASE messages[m] # "unsent"
    <3>1. call'[m[1]].thread = call[m[1]].thread
      BY <2>1, <2>3, ChatsStay DEF MessageInv
    <3> QED
      BY <2>1, <2>3, <3>1 DEF In
  <2> QED
    BY <2>2, <2>3
<1>3. CASE Live(t)
  <2>1. /\ t \notin InMemory => Linked(t)' = {}
        /\ \A m \in In(t) : ~Stored(m)'
        /\ \A m \in Message : messages[m] = "unsent" => messages'[m] = "unsent"
    BY <1>1, <1>3, RemovedWithAll
  <2>2. t \in InMemory => Linked(t)' = {}
    BY <1>0 DEF TypeOK
  <2>3. ASSUME NEW m \in In(t)', Stored(m)' PROVE FALSE
    <3>1. messages'[m] # "unsent"
      BY <2>3 DEF In
    <3> QED
      BY <1>2, <2>1, <2>3, <3>1
  <2> QED
    BY <2>1, <2>2, <2>3
<1>4. CASE ~Live(t)
  <2>1. /\ Linked(t) = {}
        /\ \A m \in In(t) : Stored(m) => t \in InMemory /\ m[2] = "reply"
    BY <1>4 DEF Ghostless
  <2>2. Linked(t)' = {}
    <3>1. \A m \in Memory : links[t][m] = None
      BY <2>1 DEF Linked
    <3>2. \A m \in Memory : links'[t][m] = None
      BY <1>0, <1>4, <3>1 DEF LinksMove
    <3> QED
      BY <3>2 DEF Linked
  <2>3. ASSUME NEW m \in In(t)', Stored(m)' PROVE t \in InMemory /\ m[2] = "reply"
    <3>1. CASE Sent(c, m)
      <4>1. call[c].thread = t
        <5>1. m[1] = c /\ call'[c].thread = t
          BY <2>3, <3>1 DEF Sent, In
        <5>2. Busy(c) /\ Ordered(call[c].todo) /\ \E step \in {"ask", "reply"} : At(c, step)
          BY <1>0, <3>1 DEF Sent, At, Fits
        <5>3. Chats(c)
          BY <1>0, <5>2, NotCreating DEF Chats, Fits
        <5> QED
          BY <5>1, <5>3, ChatsStay
      <4> QED
        BY <1>4, <3>1, <4>1 DEF Sent
    <3>2. CASE ~Sent(c, m)
      <4>1. m \in In(t) /\ m \in Message
        BY <1>2, <2>3, <3>2
      <4>2. ~Flagged(c, m)
        <5>1. ASSUME Flagged(c, m) PROVE FALSE
          <6>1. m \in In(call[c].thread) /\ Live(call[c].thread)
            BY <1>0, <5>1, FirstStep DEF Flagged, Fits, Target
          <6>2. call[c].thread = t
            BY <4>1, <6>1 DEF In
          <6> QED
            BY <1>4, <6>1, <6>2
        <5> QED
          BY <5>1
      <4>3. messages'[m] = messages[m]
        BY <1>0, <2>3, <3>2, <4>1, <4>2 DEF MessagesMove, Stored, Flag
      <4>4. Stored(m)
        BY <2>3, <4>3 DEF Stored
      <4> QED
        BY <2>1, <4>1, <4>4
    <3> QED
      BY <3>1, <3>2
  <2> QED
    BY <2>2, <2>3
<1> QED
  BY <1>3, <1>4

LEMMA StartGhostless ==
  ASSUME TypeOK, NEW c \in Call, Start(c), MessageInv, Ghostless
  PROVE  Ghostless'
<1>1. UNCHANGED Data /\ \E t \in Thread : \E steps, arg, left : Starts(c, t, steps, arg, left)
  BY StartsAre
<1>2. PICK t \in Thread : \E steps, arg, left : Starts(c, t, steps, arg, left)
  BY <1>1
<1>3. PICK steps, arg, left : Starts(c, t, steps, arg, left)
  BY <1>2
<1>4. call[c].thread = None /\ \A d \in Call : d # c => call'[d] = call[d]
  BY <1>3, StartFacts DEF TypeOK
<1>5. ASSUME NEW m \in Message, messages[m] # "unsent" PROVE call'[m[1]] = call[m[1]]
  <2>1. Chats(m[1]) /\ m[1] \in Call
    BY <1>5 DEF MessageInv, Message
  <2> QED
    BY <1>4, <2>1, ThreadAssumption DEF Chats
<1>6. thread' = thread /\ messages' = messages /\ links' = links
  BY <1>1 DEF Data
<1>7. \A u : In(u)' = In(u)
  BY <1>5, <1>6 DEF In
<1> QED
  BY <1>6, <1>7 DEF Ghostless, Live, Linked, Stored

(***************************************************************************)
(* QuietLinks: while no two requests overlap, the one at work knows how    *)
(* far the links of its thread are.                                        *)
(***************************************************************************)
LEMMA NextHead ==
  ASSUME NEW s \in Seq(Steps), s # <<>>, Ordered(s), Tail(s) # <<>>
  PROVE  LET n == Head(Tail(s)) IN
         /\ n # "create" /\ n # "unlink"
         /\ Head(s) = "create" => n = "link"
         /\ Head(s) = "unlink" => n = "reassign"
         /\ Head(s) = "reassign" => Has(Tail(s), "link")
         /\ n = "save" <=> Head(s) \in Updates
         /\ n = "link" => Head(s) \in {"create", "save"}
         /\ n = "reassign" => Head(s) = "unlink"
         /\ Head(s) = "save" /\ Has(s, "link") => n = "link"
         /\ Head(s) \in {"retitle", "entitle"} => ~Has(Tail(s), "link")
<1>1. /\ Tail(s) \in Seq(Steps) /\ Len(s) \in Nat \ {0} /\ Len(Tail(s)) = Len(s) - 1 /\ Head(s) = s[1]
      /\ \A i \in 1..Len(s)-1 : Tail(s)[i] = s[i+1] /\ i + 1 \in 1..Len(s)
      /\ \A e : Has(Tail(s), e) => Has(s, e)
  BY TailOrdered
<1>2. Len(s) >= 2 /\ Head(Tail(s)) = s[2]
  <2>1. PICK r : r = Tail(s)
    OBVIOUS
  <2>2. r \in Seq(Steps) /\ r # <<>> /\ Len(r) = Len(s) - 1
    BY <1>1, <2>1
  <2>3. Len(r) >= 1 /\ Head(r) = r[1]
    BY <2>2
  <2> QED
    BY <1>1, <2>1, <2>2, <2>3
<1>3. 1 \in 1..Len(s) /\ 2 \in 1..Len(s)
  BY <1>1, <1>2
<1>4. s[2] # "create" /\ s[2] # "unlink" /\ (s[1] = "create" => s[2] = "link") /\ (s[1] = "unlink" => s[2] = "reassign")
  BY <1>3 DEF Ordered
<1>5. s[2] = "save" <=> s[1] \in Updates
  BY <1>3 DEF Ordered, Updates
<1>6. s[2] = "link" => s[1] \in {"create", "save"}
  <2>1. s[2] = "link" => s[1] \in {"create", "unlink", "reassign", "save"}
    BY <1>3 DEF Ordered
  <2> QED
    BY <1>4, <1>5, <2>1 DEF Updates
<1>7. s[2] = "reassign" => s[1] = "unlink"
  <2>1. ASSUME s[2] = "reassign" PROVE s[1] = "unlink"
    <3>1. 4 \in 1..Len(s) /\ s[4] = "link"
      BY <1>1, <1>3, <2>1 DEF Ordered
    <3>2. s[1] \in {"create", "unlink", "reassign", "save"} /\ s[1] # "save"
      BY <1>3, <3>1 DEF Ordered
    <3> QED
      BY <1>4, <1>5, <2>1, <3>2 DEF Updates
  <2> QED
    BY <2>1
<1>8. ASSUME s[1] = "save", Has(s, "link") PROVE s[2] = "link"
  <2>1. PICK i \in 1..Len(s) : s[i] = "link"
    BY <1>8 DEF Has
  <2>2. 1 + 1 = i
    BY <1>1, <1>3, <1>8, <2>1 DEF Ordered
  <2> QED
    BY <2>1, <2>2
<1>9. ASSUME s[1] \in {"retitle", "entitle"} PROVE ~Has(s, "link")
  <2>1. ASSUME NEW i \in 1..Len(s), s[i] = "link" PROVE FALSE
    <3>1. s[1] \in {"create", "unlink", "reassign", "save"}
      BY <1>1, <1>3, <1>9, <2>1 DEF Ordered
    <3> QED
      BY <1>9, <3>1
  <2> QED
    BY <2>1 DEF Has
<1>10. ASSUME s[1] = "reassign" PROVE Has(Tail(s), "link")
  <2>1. 3 <= Len(s) /\ s[3] = "link"
    BY <1>3, <1>10 DEF Ordered
  <2>2. 2 \in 1..Len(s)-1 /\ Tail(s)[2] = s[3]
    BY <1>1, <2>1
  <2> QED
    BY <1>1, <2>1, <2>2 DEF Has
<1> QED
  BY <1>1, <1>2, <1>4, <1>5, <1>6, <1>7, <1>8, <1>9, <1>10

Follows(t, m) == m \in Linked(t) <=> m \in MemoriesOf[thread[t].agent]
Working(c, t) == Busy(c) /\ call[c].thread = t
Switching(c) == At(c, "link") \/ At(c, "reassign") \/ (At(c, "save") /\ Pending(c, "link"))

Claim(c, m) ==
  LET t == call[c].thread
      r == call[c]
  IN  /\ At(c, "link") => ((m \in Linked(t) \/ m \in r.left) <=> m \in MemoriesOf[thread[t].agent])
      /\ At(c, "reassign") => m \notin Linked(t)
      /\ At(c, "save") /\ Pending(c, "link") =>
           m \notin Linked(t) /\ r.read.agent = r.arg /\ r.left = MemoriesOf[r.arg]
      /\ (At(c, "save") /\ ~Pending(c, "link")) \/ At(c, "unlink") => r.read.agent = thread[t].agent
      /\ ~Switching(c) => Follows(t, m)

Told(t, m) ==
  \/ <<t, m>> \in byHand
  \/ /\ \A c \in Call : Working(c, t) => Claim(c, m)
     /\ (\A c \in Call : ~Working(c, t)) => Follows(t, m)

QuietInv ==
  ~raced =>
    /\ \A c, d \in Call : Busy(c) /\ Busy(d) => c = d
    /\ \A t \in Thread \ InMemory : Live(t) => \A m \in Memory \ {Files} : Told(t, m)

\* A step leaves the other threads of the database alone.
LEMMA OthersRest ==
  ASSUME TypeOK, NEW c \in Call, Fits(c), Step(c), NEW t \in Thread \ InMemory, t # call[c].thread
  PROVE  thread'[t] = thread[t] /\ links'[t] = links[t]
<1>0. /\ thread \in [Thread -> Row \cup {Unborn, Gone}] /\ call \in [Call -> Request]
      /\ links \in [Thread -> [Memory -> Link \cup {None}]] /\ call[c].thread \in Thread
  BY StepTurns DEF TypeOK, Fits
<1>1. links'[t] = links[t]
  BY <1>0 DEF Step, Create, Unlink, Merge, Save, LinkOne, Ask, Reply, Find, Clear, DropThread, Cascade, Look,
              Rate, Fetch, SetFlag, FileMemory, Hold, Toggle, Detach, Data
<1>2. CASE Create(c)
  <2>1. thread[call[c].thread] = Unborn
    BY <1>0, <1>2, FirstStep DEF Create, Fits
  <2>2. CASE call[c].thread \in InMemory
    <3>1. PICK out : Evicted(call[c].thread, call[c].arg, out)
      BY <1>2, <2>1, <2>2, EvictFacts DEF Create
    <3> QED
      BY <1>1, <3>1 DEF Evicted
  <2>3. CASE call[c].thread \notin InMemory
    BY <1>0, <1>1, <1>2, <2>3 DEF Create
  <2> QED
    BY <2>2, <2>3
<1>3. CASE ~Create(c)
  BY <1>0, <1>1, <1>3 DEF Step, Unlink, Merge, Save, SaveColumns, LinkOne, Ask, Reply, Find, Clear, DropThread,
              Drop, Look, Rate, Fetch, SetFlag, FileMemory, Hold, Toggle, Detach, Data
<1> QED
  BY <1>2, <1>3

Moving == {"create", "unlink", "reassign", "retitle", "entitle", "save", "link"}

\* A step that neither switches, renames nor links does not change what the
\* thread is linked to, but for what a user changed by hand.
LEMMA LinksRest ==
  ASSUME TypeOK, NEW c \in Call, Fits(c), Step(c), NEW t \in Thread \ InMemory, t = call[c].thread,
         Live(t)', NEW m \in Memory \ {Files}, <<t, m>> \notin byHand, Head(call[c].todo) \notin Moving
  PROVE  Live(t) /\ thread'[t].agent = thread[t].agent /\ links'[t][m] = links[t][m]
<1>0. /\ thread \in [Thread -> Row \cup {Unborn, Gone}] /\ call \in [Call -> Request]
      /\ links \in [Thread -> [Memory -> Link \cup {None}]] /\ Files \in Memory
  BY DEF TypeOK, Memory
<1>1. CASE UNCHANGED <<thread, links>>
  BY <1>1 DEF Live
<1>2. CASE FileMemory(c) /\ Recheck(t, call[c].read)
  <2>1. /\ thread' = [thread EXCEPT ![t].files = TRUE] /\ Live(t)
        /\ links' = [links EXCEPT ![t][Files] = [by |-> c, on |-> TRUE]]
    BY <1>2 DEF FileMemory, Recheck
  <2>2. thread[t] \in Row
    BY <2>1, TypedThreads
  <2>3. thread'[t] = [thread[t] EXCEPT !.files = TRUE] /\ links'[t][m] = links[t][m]
    BY <1>0, <2>1
  <2>4. [thread[t] EXCEPT !.files = TRUE].agent = thread[t].agent
    BY <2>2 DEF Row
  <2> QED
    BY <2>1, <2>3, <2>4
<1>3. CASE Toggle(c) \/ Detach(c)
  <2>1. Pending(c, "toggle") \/ Pending(c, "detach")
    BY <1>0, <1>3, FirstStep DEF Toggle, Detach
  <2>2. Target(c) \in Memory /\ m # Target(c)
    BY <2>1 DEF Fits, Target
  <2>3. thread' = thread /\ links'[t][m] = links[t][m]
    BY <1>0, <1>3, <2>2 DEF Toggle, Detach
  <2> QED
    BY <2>3 DEF Live
<1>4. CASE DropThread(c)
  <2>1. thread'[t] = Gone
    BY <1>0, <1>4 DEF DropThread, Drop
  <2> QED
    BY <2>1 DEF Live
<1>5. CASE Find(c)
  BY <1>1, <1>5 DEF Find
<1>6. CASE Ask(c) \/ Reply(c) \/ Clear(c) \/ Look(c) \/ Rate(c) \/ Fetch(c) \/ SetFlag(c) \/ Hold(c)
           \/ (FileMemory(c) /\ ~Recheck(t, call[c].read))
  BY <1>1, <1>6 DEF Ask, Reply, Clear, Look, Rate, Fetch, SetFlag, Hold, FileMemory, Data
<1>7. ~(Create(c) \/ Unlink(c) \/ Merge(c) \/ Save(c) \/ LinkOne(c))
  BY DEF Create, Unlink, Merge, Save, LinkOne, At, Moving
<1> QED
  BY <1>2, <1>3, <1>4, <1>5, <1>6, <1>7 DEF Step

\* What the request that moved knows then.
Knows(c, t, m) == IF Working(c, t) THEN Claim(c, m) ELSE Follows(t, m)

\* A switch or a creation is not over yet.
LEMMA MoreToDo ==
  ASSUME NEW s \in Seq(Steps), s # <<>>, Ordered(s),
         Head(s) \in {"create", "unlink"} \/ (Head(s) = "save" /\ Has(s, "link"))
  PROVE  Tail(s) # <<>>
<1>1. Len(s) \in Nat \ {0} /\ Len(Tail(s)) = Len(s) - 1 /\ Head(s) = s[1] /\ 1 \in 1..Len(s)
  OBVIOUS
<1>2. Len(s) >= 2
  <2>1. CASE s[1] \in {"create", "unlink"}
    BY <1>1, <2>1 DEF Ordered
  <2>2. CASE s[1] = "save" /\ Has(s, "link")
    <3>1. PICK i \in 1..Len(s) : s[i] = "link"
      BY <2>2 DEF Has
    <3> QED
      BY <1>1, <2>2, <3>1
  <2> QED
    BY <1>1, <2>1, <2>2
<1>3. PICK r : r = Tail(s)
  OBVIOUS
<1>4. Len(r) # 0
  BY <1>1, <1>2, <1>3
<1>5. r # <<>>
  BY <1>4
<1> QED
  BY <1>3, <1>5

LEMMA PlainKnows ==
  ASSUME NEW c \in Call, NEW t, NEW m, Follows(t, m)',
         Working(c, t)' => Head(call'[c].todo) \notin {"link", "reassign", "save", "unlink"}
  PROVE  Knows(c, t, m)'
<1>1. CASE ~Working(c, t)'
  BY <1>1 DEF Knows
<1>2. CASE Working(c, t)'
  <2>1. call'[c].thread = t
    BY <1>2 DEF Working
  <2>2. /\ ~At(c, "link")' /\ ~At(c, "reassign")' /\ ~At(c, "save")' /\ ~At(c, "unlink")'
    BY <1>2 DEF At
  <2>3. Claim(c, m)'
    BY <2>1, <2>2 DEF Claim, Switching, Follows, Linked
  <2> QED
    BY <1>2, <2>3 DEF Knows
<1> QED
  BY <1>1, <1>2

LEMMA PlainStep ==
  ASSUME TypeOK, NEW c \in Call, Fits(c), Step(c), NEW t \in Thread \ InMemory, t = call[c].thread,
         Live(t)', NEW m \in Memory \ {Files}, <<t, m>> \notin byHand, Head(call[c].todo) \notin Moving,
         Live(t) => Claim(c, m)
  PROVE  Knows(c, t, m)'
<1> DEFINE s == call[c].todo
<1>1. /\ Live(t) /\ thread'[t].agent = thread[t].agent /\ links'[t][m] = links[t][m]
      /\ Turns(c) /\ s \in Seq(Steps) /\ s # <<>> /\ Ordered(s)
  BY LinksRest, StepTurns DEF TypeOK, Fits, Request, Busy
<1>2. Follows(t, m)'
  <2>1. ~Switching(c)
    BY DEF Switching, At, Moving
  <2>2. Follows(t, m)
    BY <1>1, <2>1 DEF Claim
  <2> QED
    BY <1>1, <2>2 DEF Follows, Linked
<1>3. ~At(c, "link") /\ \A step \in Updates : ~At(c, step)
  BY DEF At, Moving, Updates
<1>4. Working(c, t)' => Head(call'[c].todo) \notin {"link", "reassign", "save", "unlink"}
  <2>1. CASE Ends(c)
    BY <2>1 DEF Ends, Working, Busy
  <2>2. CASE GoesOn(c, Tail(s), call'[c].read)
    <3>1. call'[c].todo = Tail(s)
      BY <2>2 DEF GoesOn
    <3>2. ASSUME Tail(s) # <<>> PROVE Head(Tail(s)) \notin {"link", "reassign", "save", "unlink"}
      BY <1>1, <3>2, NextHead DEF Moving, Updates
    <3> QED
      BY <3>1, <3>2 DEF Working, Busy
  <2>3. CASE \E u \in call[c].left : TurnsTo(c, u)
    BY <2>3, DeletePlan DEF TurnsTo
  <2> QED
    BY <1>1, <1>3, <2>1, <2>2, <2>3 DEF Turns
<1> QED
  BY <1>2, <1>4, PlainKnows

LEMMA MovingStep ==
  ASSUME TypeOK, NEW c \in Call, Fits(c), Step(c), Ghostless, NEW t \in Thread \ InMemory,
         t = call[c].thread, Live(t)', NEW m \in Memory \ {Files}, <<t, m>> \notin byHand,
         Head(call[c].todo) \in Moving, Live(t) => Claim(c, m)
  PROVE  Knows(c, t, m)'
<1> DEFINE s == call[c].todo
<1>1. /\ call \in [Call -> Request] /\ call[c] \in Request /\ s \in Seq(Steps) /\ s # <<>> /\ Ordered(s) /\ Busy(c)
      /\ thread \in [Thread -> Row \cup {Unborn, Gone}] /\ links \in [Thread -> [Memory -> Link \cup {None}]]
      /\ (Live(t) => thread[t] \in Row) /\ Head(s) = s[1] /\ Len(s) \in Nat \ {0}
      /\ Len(Tail(s)) = Len(s) - 1 /\ Tail(s) \in Seq(Steps)
      /\ \A e : Has(Tail(s), e) => Has(s, e)
  BY StepTurns, TypedThreads, TailOrdered DEF TypeOK, Fits, Request, Busy
<1>2. At(c, Head(s)) /\ Pending(c, Head(s))
  BY <1>1, FirstStep DEF At
<1>3. ASSUME Done(c), Tail(s) # <<>> PROVE GoesOn(c, Tail(s), call[c].read)
  BY <1>1, <1>3, GotoFacts DEF Done
<1>4. ASSUME NEW read, GoesOn(c, Tail(s), read), Tail(s) # <<>>
      PROVE  /\ Working(c, t)' /\ \A e : At(c, e)' <=> Head(Tail(s)) = e
             /\ \A e : Pending(c, e)' <=> Has(Tail(s), e)
             /\ call'[c].thread = t /\ call'[c].read = read
             /\ call'[c].arg = call[c].arg /\ call'[c].left = call[c].left
  BY <1>4 DEF GoesOn, Working, Busy, At, Pending
<1>5. CASE Create(c)
  <2>1. /\ thread[t] = Unborn /\ call[c].arg \in Agent /\ call[c].left = MemoriesOf[call[c].arg]
        /\ thread' = [thread EXCEPT ![t] = Fresh(call[c].arg)] /\ links' = links /\ Done(c)
        /\ Head(s) = "create"
    BY <1>1, <1>2, <1>5, FirstStep DEF Create, Fits, At
  <2>2. thread'[t].agent = call[c].arg
    BY <1>1, <2>1 DEF Fresh
  <2>3. m \notin Linked(t)'
    BY <2>1 DEF Ghostless, Live, Linked
  <2>4. Tail(s) # <<>>
    BY <1>1, <2>1, MoreToDo
  <2>5. /\ Working(c, t)' /\ At(c, "link")' /\ ~At(c, "reassign")' /\ ~At(c, "save")' /\ ~At(c, "unlink")'
        /\ call'[c].thread = t /\ call'[c].left = MemoriesOf[call[c].arg]
    BY <1>1, <1>3, <1>4, <2>1, <2>4, NextHead
  <2>6. Claim(c, m)'
    BY <2>2, <2>3, <2>5 DEF Claim, Switching, Linked
  <2> QED
    BY <2>5, <2>6 DEF Knows
<1>6. CASE Unlink(c)
  <2>1. /\ thread' = thread /\ Done(c) /\ Head(s) = "unlink" /\ At(c, "unlink")
        /\ links' = [links EXCEPT ![t] = [n \in Memory |-> IF n \in MemoriesOf[call[c].read.agent]
                                                          THEN None ELSE links[t][n]]]
    BY <1>6 DEF Unlink, At
  <2>2. ~Switching(c) /\ Live(t)
    BY <2>1 DEF Switching, At, Live
  <2>3. Follows(t, m) /\ call[c].read.agent = thread[t].agent
    BY <2>1, <2>2 DEF Claim
  <2>4. links'[t][m] = IF m \in MemoriesOf[thread[t].agent] THEN None ELSE links[t][m]
    BY <1>1, <2>1, <2>3
  <2>5. m \notin Linked(t)'
    BY <2>3, <2>4 DEF Follows, Linked
  <2>6. Tail(s) # <<>>
    BY <1>1, <2>1, MoreToDo
  <2>7. /\ Working(c, t)' /\ At(c, "reassign")' /\ ~At(c, "link")' /\ ~At(c, "save")' /\ ~At(c, "unlink")'
        /\ call'[c].thread = t
    BY <1>1, <1>3, <1>4, <2>1, <2>6, NextHead
  <2>8. Claim(c, m)'
    BY <2>5, <2>7 DEF Claim, Switching, Linked
  <2> QED
    BY <2>7, <2>8 DEF Knows
<1>7. CASE Merge(c)
  <2>1. PICK step \in Updates : At(c, step)
    BY <1>7 DEF Merge, Updates
  <2>2. thread' = thread /\ links' = links /\ Live(t) /\ Keep(c, Merged(c, thread[t]))
    BY <1>7 DEF Merge, Live
  <2>3. thread[t] \in Row /\ Head(s) = step
    BY <1>1, <2>1, <2>2 DEF At
  <2>4. At(c, "reassign") => call[c].arg \in Agent /\ call[c].left = MemoriesOf[call[c].arg]
    BY <1>1, FirstStep DEF Fits
  <2>5. Merged(c, thread[t]) \in Row
    BY <2>3, <2>4 DEF Merged, Row
  <2>6. GoesOn(c, Tail(s), Merged(c, thread[t]))
    BY <1>1, <2>2, <2>5, KeepFacts
  <2>7. Tail(s) # <<>> /\ Head(Tail(s)) = "save"
    BY <1>1, <2>3, UpdateThenSave
  <2>8. /\ Working(c, t)' /\ At(c, "save")' /\ ~At(c, "reassign")' /\ ~At(c, "link")' /\ ~At(c, "unlink")'
        /\ call'[c].thread = t /\ call'[c].read = Merged(c, thread[t])
        /\ call'[c].arg = call[c].arg /\ call'[c].left = call[c].left
        /\ (Pending(c, "link")' <=> Has(Tail(s), "link"))
    BY <1>4, <2>6, <2>7
  <2>9. CASE step = "reassign"
    <3>1. At(c, "reassign") /\ Pending(c, "link")' /\ m \notin Linked(t)
      BY <1>1, <2>1, <2>2, <2>3, <2>7, <2>8, <2>9, NextHead DEF Claim
    <3>2. Merged(c, thread[t]).agent = call[c].arg
      BY <2>3, <2>4, <3>1 DEF Merged, Row
    <3>3. m \notin Linked(t)'
      BY <2>2, <3>1 DEF Linked
    <3>4. Claim(c, m)'
      BY <2>4, <2>8, <3>1, <3>2, <3>3 DEF Claim, Switching, Linked
    <3> QED
      BY <2>8, <3>4 DEF Knows
  <2>10. CASE step \in {"retitle", "entitle"}
    <3>1. ~At(c, "reassign") /\ ~Pending(c, "link")' /\ ~Switching(c)
      BY <1>1, <2>3, <2>7, <2>8, <2>10, NextHead DEF At, Switching
    <3>2. Merged(c, thread[t]).agent = thread[t].agent
      BY <2>3, <3>1 DEF Merged, Row
    <3>3. Follows(t, m)
      BY <2>2, <3>1 DEF Claim
    <3>4. Claim(c, m)'
      BY <2>2, <2>8, <3>1, <3>2, <3>3 DEF Claim, Switching, Linked, Follows
    <3> QED
      BY <2>8, <3>4 DEF Knows
  <2> QED
    BY <2>9, <2>10 DEF Updates
<1>8. CASE Save(c)
  <2>1. /\ Head(s) = "save" /\ At(c, "save") /\ links' = links /\ Pending(c, "save")
        /\ thread' = IF Live(t) THEN [thread EXCEPT ![t].agent = call[c].read.agent,
                                                    ![t].title = call[c].read.title]
                     ELSE thread
        /\ (Live(t) => Done(c))
    BY <1>2, <1>8 DEF Save, SaveColumns, At
  <2>2. Live(t)
    BY <2>1 DEF Live
  <2>3. thread[t] \in Row /\ Done(c)
    BY <1>1, <2>1, <2>2
  <2>4. thread'[t].agent = call[c].read.agent
    <3>1. thread'[t] = [thread[t] EXCEPT !.agent = call[c].read.agent, !.title = call[c].read.title]
      BY <1>1, <2>1, <2>2
    <3> QED
      BY <2>3, <3>1 DEF Row
  <2>5. ~At(c, "link") /\ ~At(c, "reassign") /\ Claim(c, m)
    BY <2>1, <2>2 DEF At
  <2>6. CASE Pending(c, "link")
    <3>1. m \notin Linked(t)' /\ call[c].read.agent = call[c].arg /\ call[c].left = MemoriesOf[call[c].arg]
      BY <2>1, <2>5, <2>6 DEF Claim, Linked
    <3>2. Tail(s) # <<>>
      BY <1>1, <2>1, <2>6, MoreToDo DEF Pending
    <3>3. Head(Tail(s)) = "link"
      BY <1>1, <2>1, <2>6, <3>2, NextHead DEF Pending
    <3>4. /\ Working(c, t)' /\ At(c, "link")' /\ ~At(c, "reassign")' /\ ~At(c, "save")' /\ ~At(c, "unlink")'
          /\ call'[c].thread = t /\ call'[c].left = MemoriesOf[call[c].arg]
      BY <1>3, <1>4, <2>3, <3>1, <3>2, <3>3
    <3>5. Claim(c, m)'
      BY <2>4, <3>1, <3>4 DEF Claim, Switching, Linked
    <3> QED
      BY <3>4, <3>5 DEF Knows
  <2>7. CASE ~Pending(c, "link")
    <3>1. Follows(t, m) /\ call[c].read.agent = thread[t].agent
      BY <2>1, <2>5, <2>7 DEF Claim, Switching
    <3>2. Follows(t, m)'
      BY <2>1, <2>4, <3>1 DEF Follows, Linked
    <3>3. Working(c, t)' => Head(call'[c].todo) \notin {"link", "reassign", "save", "unlink"}
      <4>1. CASE Tail(s) = <<>>
        <5>1. Ends(c)
          BY <1>1, <2>3, <4>1, GotoFacts DEF Done
        <5> QED
          BY <5>1 DEF Ends, Working, Busy
      <4>2. CASE Tail(s) # <<>>
        <5>1. call'[c].todo = Tail(s)
          BY <1>3, <2>3, <4>2 DEF GoesOn
        <5>2. Head(Tail(s)) # "link"
          <6>1. PICK r : r = Tail(s)
            OBVIOUS
          <6>2. r \in Seq(Steps) /\ r # <<>> /\ ~Has(r, "link")
            BY <1>1, <2>7, <4>2, <6>1 DEF Pending
          <6>3. 1 \in 1..Len(r) /\ Head(r) = r[1]
            BY <6>2
          <6> QED
            BY <6>1, <6>2, <6>3 DEF Has
        <5>3. Head(Tail(s)) \notin {"reassign", "save", "unlink"}
          BY <1>1, <2>1, <4>2, NextHead DEF Updates
        <5> QED
          BY <5>1, <5>2, <5>3
      <4> QED
        BY <4>1, <4>2
    <3> QED
      BY <3>2, <3>3, PlainKnows
  <2> QED
    BY <2>6, <2>7
<1>9. CASE LinkOne(c)
  <2>1. /\ At(c, "link") /\ thread' = thread /\ Live(t) /\ Head(s) = "link"
        /\ ((m \in Linked(t) \/ m \in call[c].left) <=> m \in MemoriesOf[thread[t].agent])
    BY <1>9 DEF LinkOne, Live, Claim, At
  <2>2. CASE call[c].left = {} /\ Done(c) /\ links' = links
    <3>1. Follows(t, m)'
      BY <2>1, <2>2 DEF Follows, Linked
    <3>2. Working(c, t)' => Head(call'[c].todo) \notin {"link", "reassign", "save", "unlink"}
      <4>1. CASE Tail(s) = <<>>
        <5>1. Ends(c)
          BY <1>1, <2>2, <4>1, GotoFacts DEF Done
        <5> QED
          BY <5>1 DEF Ends, Working, Busy
      <4>2. CASE Tail(s) # <<>>
        <5>1. call'[c].todo = Tail(s)
          BY <1>3, <2>2, <4>2 DEF GoesOn
        <5>2. Head(Tail(s)) \notin {"link", "reassign", "save", "unlink"}
          BY <1>1, <2>1, <4>2, NextHead DEF Updates
        <5> QED
          BY <5>1, <5>2
      <4> QED
        BY <4>1, <4>2
    <3> QED
      BY <3>1, <3>2, PlainKnows
  <2>3. CASE ~(call[c].left = {} /\ Done(c) /\ links' = links)
    <3>1. PICK n \in call[c].left :
            /\ links' = [links EXCEPT ![t][n] = IF @ = None THEN [by |-> c, on |-> TRUE] ELSE @]
            /\ call' = [call EXCEPT ![c].left = @ \ {n}]
      BY <1>9, <2>1, <2>3 DEF LinkOne
    <3>2. n \in Memory
      BY <1>1, <1>9, <3>1, FirstStep DEF LinkOne, Fits
    <3>3. /\ call'[c].todo = s /\ call'[c].thread = t /\ call'[c].left = call[c].left \ {n}
      BY <1>1, <3>1 DEF Request
    <3>4. /\ links'[t][n] # None
          /\ m # n => links'[t][m] = links[t][m]
      <4>1. [by |-> c, on |-> TRUE] \in Link /\ None \notin Link
        BY ThreadAssumption DEF Link
      <4> QED
        BY <1>1, <3>1, <3>2, <4>1
    <3>5. (m \in Linked(t)' \/ m \in call'[c].left) <=> m \in MemoriesOf[thread[t].agent]
      BY <2>1, <3>1, <3>3, <3>4 DEF Linked
    <3>6. /\ Working(c, t)' /\ At(c, "link")' /\ ~At(c, "reassign")' /\ ~At(c, "save")' /\ ~At(c, "unlink")'
      BY <1>1, <2>1, <3>3 DEF Working, Busy, At
    <3>7. Claim(c, m)'
      BY <2>1, <3>3, <3>5, <3>6 DEF Claim, Switching, Linked
    <3> QED
      BY <3>6, <3>7 DEF Knows
  <2> QED
    BY <2>2, <2>3
<1> QED
  BY <1>2, <1>5, <1>6, <1>7, <1>8, <1>9 DEF Step, At, Moving, Create, Unlink, Merge, Save, LinkOne, Ask, Reply,
     Find, Clear, DropThread, Look, Rate, Fetch, SetFlag, FileMemory, Hold, Toggle, Detach

LEMMA QuietStep ==
  ASSUME Sound, Ghostless, QuietInv, NEW c \in Call, Step(c)
  PROVE  QuietInv'
<1>1. /\ TypeOK /\ Fits(c) /\ Turns(c) /\ Busy(c) /\ call \in [Call -> Request]
      /\ call[c].thread \in Thread /\ raced' = raced /\ byHand' = byHand
  BY StepTurns, TypeKept DEF Sound, RequestInv, TypeOK, Fits, History
<1>2. \A d \in Call : d # c => call'[d] = call[d]
  <2>1. Others(c)
    BY <1>1 DEF Turns, Ends, GoesOn, TurnsTo
  <2> QED
    BY <2>1 DEF Others
<1>3. SUFFICES ASSUME ~raced
               PROVE  /\ \A d, e \in Call : Busy(d)' /\ Busy(e)' => d = e
                      /\ \A t \in Thread \ InMemory : Live(t)' => \A m \in Memory \ {Files} : Told(t, m)'
  BY <1>1 DEF QuietInv
<1>4. \A d \in Call : d # c => ~Busy(d) /\ ~Busy(d)'
  <2>1. \A d \in Call : d # c => ~Busy(d)
    BY <1>1, <1>3 DEF QuietInv
  <2> QED
    BY <1>2, <2>1 DEF Busy
<1>5. ASSUME NEW t \in Thread \ InMemory, Live(t)', NEW m \in Memory \ {Files}
      PROVE  Told(t, m)'
  <2>1. CASE <<t, m>> \in byHand
    BY <1>1, <2>1 DEF Told
  <2>2. CASE <<t, m>> \notin byHand
    <3>1. SUFFICES Knows(c, t, m)'
      <4>1. \A d \in Call : Working(d, t)' => d = c
        BY <1>4 DEF Working
      <4> QED
        BY <4>1 DEF Told, Knows
    <3>2. CASE t = call[c].thread
      <4>1. ASSUME Live(t) PROVE Claim(c, m)
        <5>1. Told(t, m)
          BY <1>3, <4>1 DEF QuietInv
        <5> QED
          BY <1>1, <2>2, <3>2, <5>1 DEF Told, Working
      <4> QED
        BY <1>1, <1>5, <2>2, <3>2, <4>1, PlainStep, MovingStep
    <3>3. CASE t # call[c].thread
      <4>1. thread'[t] = thread[t] /\ links'[t] = links[t]
        BY <1>1, <3>3, OthersRest
      <4>2. Live(t)
        BY <1>5, <4>1 DEF Live
      <4>3. Told(t, m) /\ \A d \in Call : ~Working(d, t)
        BY <1>3, <1>4, <3>3, <4>2 DEF QuietInv, Working
      <4>4. Follows(t, m)'
        BY <2>2, <4>1, <4>3 DEF Told, Follows, Linked
      <4>5. Working(c, t)' => Head(call'[c].todo) \notin {"link", "reassign", "save", "unlink"}
        <5>1. CASE call'[c].thread = call[c].thread
          BY <3>3, <5>1 DEF Working
        <5>2. CASE \E u \in call[c].left : TurnsTo(c, u)
          BY <5>2, DeletePlan DEF TurnsTo
        <5>3. call[c] \in Request
          BY <1>1
        <5> QED
          BY <1>1, <5>1, <5>2, <5>3 DEF Turns, Ends, GoesOn, Request
      <4> QED
        BY <4>4, <4>5, PlainKnows
    <3> QED
      BY <3>2, <3>3
  <2> QED
    BY <2>1, <2>2
<1> QED
  BY <1>4, <1>5

LEMMA QuietStart ==
  ASSUME Sound, QuietInv, NEW c \in Call, Start(c)
  PROVE  QuietInv'
<1>0. TypeOK /\ RequestInv
  BY DEF Sound
<1>1. UNCHANGED Data /\ \E t \in Thread : \E steps, arg, left : Starts(c, t, steps, arg, left)
  BY StartsAre
<1>2. PICK t \in Thread : \E steps, arg, left : Starts(c, t, steps, arg, left)
  BY <1>1
<1>3. PICK steps, arg, left : Starts(c, t, steps, arg, left)
  BY <1>2
<1>4. /\ call' = [call EXCEPT ![c] = [todo |-> steps, thread |-> t, read |-> thread[t],
                                     arg |-> arg, left |-> left]]
      /\ \/ Head(steps) \notin {"create", "link", "reassign", "save"}
         \/ (OnALink(t, steps, arg, left) /\ byHand' = byHand \cup {<<t, arg.of>>})
         \/ NewThread(t, steps, arg, left)
         \/ steps = <<"retitle", "save">>
      /\ call \in [Call -> Request]
  BY <1>0, <1>3, StartFacts DEF TypeOK
<1>5. /\ call'[c].todo = steps /\ call'[c].thread = t /\ call'[c].read = thread[t]
      /\ call'[c].arg = arg /\ call'[c].left = left
      /\ \A d \in Call : d # c => call'[d] = call[d]
  BY <1>4
<1>6. /\ raced' = (raced \/ \E d \in Call : Busy(d)) /\ byHand \subseteq byHand'
      /\ thread' = thread /\ links' = links
  BY <1>1, <1>3 DEF Starts, Begin, Data, OnLive, OnALink, NewThread, Live
<1>7. SUFFICES ASSUME ~raced'
               PROVE  /\ \A d, e \in Call : Busy(d)' /\ Busy(e)' => d = e
                      /\ \A u \in Thread \ InMemory : Live(u)' => \A m \in Memory \ {Files} : Told(u, m)'
  BY DEF QuietInv
<1>8. ~raced /\ \A d \in Call : ~Busy(d)
  BY <1>0, <1>6, <1>7 DEF TypeOK
<1>9. \A d \in Call : d # c => ~Busy(d)'
  BY <1>5, <1>8 DEF Busy
<1>10. ASSUME NEW u \in Thread \ InMemory, Live(u)', NEW m \in Memory \ {Files}, <<u, m>> \notin byHand'
       PROVE  Told(u, m)'
  <2>1. Live(u) /\ <<u, m>> \notin byHand
    BY <1>6, <1>10 DEF Live
  <2>2. Follows(u, m)
    BY <1>8, <2>1 DEF QuietInv, Told, Working
  <2>3. Follows(u, m)'
    BY <1>6, <2>2 DEF Follows, Linked
  <2>4. SUFFICES Knows(c, u, m)'
    <3>1. \A d \in Call : Working(d, u)' => d = c
      BY <1>9 DEF Working
    <3> QED
      BY <3>1 DEF Told, Knows
  <2>5. CASE ~Working(c, u)'
    BY <2>3, <2>5 DEF Knows
  <2>6. CASE Working(c, u)'
    <3>1. u = t /\ ~NewThread(t, steps, arg, left)
      BY <1>5, <2>1, <2>6 DEF Working, NewThread, Live
    <3>2. CASE Head(steps) = "link"
      <4>1. OnALink(t, steps, arg, left) /\ <<t, arg.of>> \in byHand'
        <5>1. Head(<<"retitle", "save">>) = "retitle"
          OBVIOUS
        <5> QED
          BY <1>4, <3>1, <3>2, <5>1
      <4>2. m \notin left
        BY <1>6, <1>10, <3>1, <4>1 DEF OnALink
      <4>3. ~At(c, "reassign")' /\ ~At(c, "save")' /\ ~At(c, "unlink")'
        BY <1>5, <3>2 DEF At
      <4>4. (m \in Linked(t)' \/ m \in left) <=> m \in MemoriesOf[thread'[t].agent]
        BY <2>3, <3>1, <4>2 DEF Follows, Linked
      <4>5. Claim(c, m)'
        BY <1>5, <2>3, <3>1, <4>3, <4>4 DEF Claim, Switching, Linked, Follows
      <4> QED
        BY <2>6, <4>5 DEF Knows
    <3>3. CASE Head(steps) # "link"
      <4>1. Head(steps) \notin {"reassign", "save"}
        <5>1. /\ Head(<<"retitle", "save">>) = "retitle" /\ Head(<<"hold", "detach">>) = "hold"
              /\ Head(<<"hold", "toggle">>) = "hold" /\ Head(<<"link">>) = "link"
          OBVIOUS
        <5> QED
          BY <1>4, <3>1, <5>1 DEF OnALink
      <4>2. ~At(c, "reassign")' /\ ~At(c, "save")' /\ ~At(c, "link")'
        BY <1>5, <3>3, <4>1 DEF At
      <4>3. Claim(c, m)'
        BY <1>5, <1>6, <2>3, <3>1, <4>2 DEF Claim, Switching, Linked, Follows
      <4> QED
        BY <2>6, <4>3 DEF Knows
    <3> QED
      BY <3>2, <3>3
  <2> QED
    BY <2>5, <2>6
<1>11. \A u \in Thread \ InMemory : Live(u)' => \A m \in Memory \ {Files} : Told(u, m)'
  BY <1>10 DEF Told
<1> QED
  BY <1>9, <1>11

LEMMA InitQuiet ==
  ASSUME Init
  PROVE  Ghostless /\ QuietInv
<1>1. PICK stored \in SUBSET (Thread \ InMemory), a \in Agent \ Transient :
         /\ thread = [t \in Thread |-> IF t \in stored THEN Fresh(a) ELSE Unborn]
         /\ links = [t \in Thread |->
                       IF t \in stored THEN Configured(a) ELSE [m \in Memory |-> None]]
  BY DEF Init
<1>2. /\ messages = [m \in Message |-> "unsent"]
      /\ call = [c \in Call |-> [todo |-> <<>>, thread |-> None, read |-> None, arg |-> None, left |-> {}]]
  BY DEF Init
<1>3. Fresh(a) \in Row /\ Fresh(a).agent = a
  BY DEF Fresh, Row
<1>4. \A t \in Thread : Live(t) <=> t \in stored
  BY <1>1, <1>3, ThreadAssumption DEF Live
<1>5. Ghostless
  BY <1>1, <1>2, <1>4 DEF Ghostless, Linked, In
<1>6. \A m \in Memory : Configured(a)[m] # None <=> m \in MemoriesOf[a]
  <2>1. [by |-> None, on |-> TRUE] \in Link
    BY DEF Link
  <2> QED
    BY <2>1, ThreadAssumption DEF Configured
<1>7. ASSUME NEW t \in stored, NEW m \in Memory PROVE Follows(t, m)
  <2>1. links[t] = Configured(a) /\ thread[t].agent = a
    BY <1>1, <1>3
  <2> QED
    BY <1>6, <2>1 DEF Follows, Linked
<1>8. \A c \in Call : ~Busy(c)
  BY <1>2 DEF Busy
<1>9. QuietInv
  BY <1>4, <1>7, <1>8 DEF QuietInv, Told, Working
<1> QED
  BY <1>5, <1>9

LEMMA RestQuiet ==
  ASSUME Ghostless, QuietInv, UNCHANGED vars
  PROVE  Ghostless' /\ QuietInv'
<1>1. /\ thread' = thread /\ order' = order /\ messages' = messages /\ feedback' = feedback
      /\ links' = links /\ files' = files /\ call' = call /\ raced' = raced /\ byHand' = byHand
  BY DEF vars
<1>2. Ghostless'
  BY <1>1 DEF Ghostless, Live, Linked, In, Stored
<1>3. QuietInv'
  BY <1>1 DEF QuietInv, Told, Claim, Follows, Working, Switching, Live, Linked, Busy, At, Pending
<1> QED
  BY <1>2, <1>3

\* Nothing outlives its thread or its message, and while requests come one
\* after the other a thread is linked to the memories of its agent.
THEOREM LinksAndMessagesAlwaysFit == Spec => []LinksAndMessagesFit
<1> DEFINE Inv == Sound /\ Ghostless /\ QuietInv
<1>1. Init => Inv
  BY InitSound, InitQuiet
<1>2. Inv /\ [Next]_vars => Inv'
  <2>1. ASSUME Inv, NEW c \in Call, Start(c) PROVE Inv'
    BY <2>1, StartSound, StartGhostless, QuietStart DEF Sound
  <2>2. ASSUME Inv, NEW c \in Call, Step(c) PROVE Inv'
    BY <2>2, StepSound, StepGhostless, QuietStep DEF Sound, RequestInv
  <2>3. ASSUME Inv, UNCHANGED vars PROVE Inv'
    BY <2>3, RestSound, RestQuiet
  <2> QED
    BY <2>1, <2>2, <2>3 DEF Next
<1>3. Inv => LinksAndMessagesFit
  <2>1. ASSUME Inv PROVE NoGhosts
    BY <2>1 DEF Sound, RatingsFit, Ghostless, NoGhosts
  <2>2. ASSUME Inv PROVE QuietLinks
    <3>1. ASSUME ~raced, NEW t \in Thread, Settled(t), NEW m \in Memory \ {Files}, <<t, m>> \notin byHand
          PROVE  (m \in Linked(t)) = (m \in MemoriesOf[thread[t].agent])
      <4>1. Told(t, m)
        BY <2>2, <3>1 DEF QuietInv, Settled
      <4>2. Follows(t, m)
        BY <3>1, <4>1 DEF Told, Working, Settled
      <4> QED
        BY <4>2 DEF Follows
    <3> QED
      BY <3>1 DEF QuietLinks, AgentLinks
  <2> QED
    BY <2>1, <2>2 DEF LinksAndMessagesFit
<1> QED
  BY <1>1, <1>2, <1>3, PTL DEF Spec
=====
