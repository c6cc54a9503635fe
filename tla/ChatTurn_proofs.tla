--------------------------- MODULE ChatTurn_proofs ---------------------------
(* Proofs about one reply: what is stored is whole and is what the client was *)
(* shown, for any model, tools, queue and client; and about what the client   *)
(* and the model get of it in the next turn.                                  *)
EXTENDS Conversation, FiniteSetTheorems, SequenceTheorems, TLAPS

\* The kinds of chunks, and the places of a queue that hold some of them.
Spoken == {"text", "para"}
Answers == {"result", "error"}
OfCalls == {"start", "fragment"} \cup Answers
Places(q, kinds) == {i \in DOMAIN q : q[i].kind \in kinds}

\* Every chunk the model wrote is in the message or still in the queue.
Counted ==
    /\ Cardinality(Places(queue, Spoken)) + writer.text = words
    /\ Cardinality(Places(queue, {"think"})) + writer.thought = thoughts

\* Only late citations are behind the sentinel, and it comes when the task ends.
SentinelIsLast ==
    /\ \A i \in DOMAIN queue, j \in DOMAIN queue :
          i < j /\ queue[i].kind = "sentinel" => queue[j].kind = "cited"
    /\ task \in {"none", "running", "stopping"} => \A i \in DOMAIN queue : queue[i].kind # "sentinel"

\* The chunk at a place is of a call; the start of a call is in the queue.
Of(i, t) == queue[i].kind \in OfCalls /\ queue[i].tool = t
Begun(t) == \E i \in DOMAIN queue : Of(i, t) /\ queue[i].kind = "start"

\* A call's chunks are queued in their order, as far as the pipeline is with it
\* and after what was read of it.
CallFits(t) ==
    /\ \A i \in DOMAIN queue : Of(i, t) =>
         /\ asked[t] # "no"
         /\ asked[t] \in {"started", "asked", "skipped"} => queue[i].kind \notin Answers
         /\ queue[i].kind = "start" => ~writer.tool[t].begun
         /\ queue[i].kind # "start" =>
              writer.tool[t].begun \/ \E j \in DOMAIN queue : j < i /\ Of(j, t) /\ queue[j].kind = "start"
         /\ writer.tool[t].result = "none"
    /\ \A i \in DOMAIN queue, j \in DOMAIN queue : i < j /\ Of(i, t) /\ Of(j, t) =>
         queue[i].kind \notin Answers /\ queue[j].kind # "start"
    /\ asked[t] = "no" <=> ~writer.tool[t].begun /\ ~Begun(t)
    /\ asked[t] \in {"no", "started", "asked"} => writer.tool[t].result = "none"
CallsInOrder == \A t \in Tool : CallFits(t)

\* Phases: the turn is not settled, or still reads what the model says, or has
\* no task yet; and everything the model said is in the message.
Open == {"idle", "preparing", "excusing", "warming", "started", "reading", "building", "citing",
         "placing", "storing", "suggesting"}
Before == {"idle", "preparing", "warming", "started", "reading", "building", "citing", "placing"}
ToRead == Before \ {"citing", "placing"}
Fresh == {"idle", "preparing", "excusing", "warming", "started", "raised"}
Whole == /\ writer.text = words /\ writer.thought = thoughts
         /\ \A t \in Tool : asked[t] # "no" => writer.tool[t].result # "none"

\* Which task and which blocks there are in a phase.
TasksFit ==
    /\ turn.phase \in Fresh => task = "none" /\ blocks = <<>>
    /\ turn.phase \in {"reading", "building"} => task \in {"running", "done", "failed"}
    /\ turn.phase \in {"stopping", "saving", "ended"} => task # "running" /\ Running = {}
    /\ task = "done" => \A t \in Tool : asked[t] \notin {"started", "asked"}
    /\ turn.reason = "stop" \/ turn.phase \in {"citing", "placing"} => task = "done" /\ Whole

\* How a turn's phase and its outcome go together.
TurnFits ==
    /\ turn.phase \in Open => /\ turn.left = 0 /\ turn.final = (turn.phase = "suggesting")
                              /\ turn.phase # "suggesting" => kept = None
    /\ turn.phase \in Before => turn.reason = "cancelled"
    /\ turn.phase = "excusing" => turn.reason = "error"
    /\ turn.phase = "storing" => turn.reason \in {"stop", "error"}
    /\ turn.phase = "suggesting" => turn.reason = "stop"
    /\ turn.phase = "building" => turn.tool \in Tool
    /\ writer.error = (turn.reason = "error")
    /\ kept # None => /\ kept.message = writer
                      /\ kept.reason = "stop" => turn.reason = "stop"
                      /\ turn.left = 0 => kept.reason = turn.reason
    /\ turn.final /\ ~turn.refused => kept # None
    /\ turn.phase \in {"stopping", "saving"} /\ turn.left = 0 => turn.final /\ turn.phase = "stopping"
    /\ turn.phase = "ended" => turn.final \/ turn.left > 1

\* The calls the client was shown are the writer's; one without input is pending.
CallMatches(t) ==
    /\ client.message.tool[t].begun = writer.tool[t].begun
    /\ client.message.tool[t].args # None => client.message.tool[t].args = writer.tool[t].args
    /\ client.message.tool[t].result # "none" =>
         /\ client.message.tool[t].result = writer.tool[t].result
         /\ client.message.tool[t].args # None
    /\ t \in turn.pending =>
         /\ writer.tool[t].begun
         /\ turn.phase \in ToRead => writer.tool[t].result = "none"
    /\ t \notin turn.pending /\ writer.tool[t].begun => client.message.tool[t].args # None
CallsMatch == \A t \in Tool : CallMatches(t)

\* How the client's stream ends: with the error or the finish, then one marker.
EndsFit ==
    /\ turn.left = 0 =>
         /\ client.message.error = (turn.reason = "error" /\ turn.phase \notin {"storing", "excusing"})
         /\ client.finish = (turn.reason = "stop" /\ turn.phase # "storing")
    /\ client.done = IF turn.phase = "ended" /\ turn.left = 0 THEN 1 ELSE 0
    /\ turn.phase = "ended" /\ turn.left = 0 => client.block # "open" /\ ~client.thinking
    /\ ~client.fault

\* The client's message is the writer's, except for what is written unseen.
ClientFits ==
    /\ client.message.text = writer.text /\ client.message.thought = writer.thought
    /\ client.message.artifacts = writer.artifacts
    /\ CallsMatch /\ EndsFit

\* What was shown of citations is what was placed, and what is stored was shown.
CitesFit ==
    /\ client.message.cites \subseteq Cited
    /\ turn.phase = "placing" => client.message.cites \subseteq turn.cites /\ turn.cites \subseteq Cited
    /\ turn.phase \in Before => writer.cites = {}
    /\ writer.cites # {} => client.message.cites = writer.cites

\* A fragment's index is remembered for the call that has it.
OwnIndex == \A i \in Indices : turn.at[i] # None => Index[turn.at[i]] = i
TurnInv == Counted /\ SentinelIsLast /\ CallsInOrder /\ TasksFit /\ TurnFits /\ ClientFits /\ CitesFit /\ OwnIndex

-----------------------------------------------------------------------------
(* The queue. *)

LEMMA PlacesAreFinite ==
  ASSUME NEW q \in Seq(Item), NEW kinds
  PROVE  IsFiniteSet(Places(q, kinds)) /\ Cardinality(Places(q, kinds)) \in Nat
<1>1. IsFiniteSet(1..Len(q))
  BY FS_Interval
<1>2. Places(q, kinds) \in SUBSET (1..Len(q))
  BY DEF Places
<1> QED
  BY <1>1, <1>2, FS_Subset, FS_CardinalityType

LEMMA AppendCounts ==
  ASSUME NEW q \in Seq(Item), NEW x \in Item, NEW kinds
  PROVE  Cardinality(Places(Append(q, x), kinds))
           = Cardinality(Places(q, kinds)) + (IF x.kind \in kinds THEN 1 ELSE 0)
<1>1. CASE x.kind \in kinds
  <2>1. Places(Append(q, x), kinds) = Places(q, kinds) \cup {Len(q) + 1}
    BY <1>1 DEF Places
  <2>2. Len(q) + 1 \notin Places(q, kinds)
    BY DEF Places
  <2> QED
    BY <1>1, <2>1, <2>2, PlacesAreFinite, FS_AddElement
<1>2. CASE x.kind \notin kinds
  <2>1. Places(Append(q, x), kinds) = Places(q, kinds)
    BY <1>2 DEF Places
  <2> QED
    BY <1>2, <2>1, PlacesAreFinite
<1> QED
  BY <1>1, <1>2

LEMMA TailCounts ==
  ASSUME NEW q \in Seq(Item), q # <<>>, NEW kinds
  PROVE  Cardinality(Places(q, kinds))
           = Cardinality(Places(Tail(q), kinds)) + (IF Head(q).kind \in kinds THEN 1 ELSE 0)
<1> DEFINE rest == Places(q, kinds) \ {1}
           f == [i \in rest |-> i - 1]
<1>1. Tail(q) \in Seq(Item) /\ Len(q) \in Nat \ {0} /\ Len(Tail(q)) = Len(q) - 1
  OBVIOUS
<1>2. IsFiniteSet(Places(q, kinds)) /\ IsFiniteSet(Places(Tail(q), kinds))
  BY <1>1, PlacesAreFinite
<1>3. f \in Bijection(rest, Places(Tail(q), kinds))
  <2>1. ASSUME NEW i \in rest PROVE i - 1 \in Places(Tail(q), kinds)
    BY <1>1, <2>1 DEF Places
  <2>2. ASSUME NEW j \in Places(Tail(q), kinds) PROVE j + 1 \in rest /\ f[j + 1] = j
    BY <1>1, <2>2 DEF Places
  <2>3. \A i \in rest, j \in rest : f[i] = f[j] => i = j
    BY DEF Places
  <2> QED
    <3>1. f \in [rest -> Places(Tail(q), kinds)]
      BY <2>1
    <3>2. \A j \in Places(Tail(q), kinds) : \E i \in rest : f[i] = j
      BY <2>2
    <3> HIDE DEF f
    <3> QED
      BY <2>3, <3>1, <3>2 DEF Bijection, Injection, Surjection, IsInjective
<1>4. IsFiniteSet(rest) /\ Cardinality(rest) = Cardinality(Places(Tail(q), kinds))
  BY <1>2, <1>3, FS_RemoveElement, FS_Bijection DEF ExistsBijection
<1>5. 1 \in Places(q, kinds) <=> Head(q).kind \in kinds
  BY <1>1 DEF Places
<1>6. Cardinality(rest) = IF 1 \in Places(q, kinds) THEN Cardinality(Places(q, kinds)) - 1
                          ELSE Cardinality(Places(q, kinds))
  BY <1>2, FS_RemoveElement
<1> QED
  BY <1>1, <1>4, <1>5, <1>6, PlacesAreFinite

-----------------------------------------------------------------------------
(* The message and the client. *)

\* Like m, except for the call t.
CallChanged(m, n, t) ==
    /\ n \in Message
    /\ n.text = m.text /\ n.thought = m.thought /\ n.cites = m.cites
    /\ n.artifacts = m.artifacts /\ n.error = m.error
    /\ \A u \in Tool \ {t} : n.tool[u] = m.tool[u]

LEMMA StartFacts ==
  ASSUME NEW m \in Message, NEW t \in Tool, NEW n, n = AddStart(m, t)
  PROVE  /\ CallChanged(m, n, t)
         /\ n.tool[t].begun /\ n.tool[t].args = m.tool[t].args
         /\ n.tool[t].result = m.tool[t].result
  BY DEF Message, Call, CallChanged, AddStart

WithArgs(m, t, of) == [m EXCEPT !.tool[t].args = of]
WithResult(m, t, r) == [m EXCEPT !.tool[t].result = r]

LEMMA ArgsFacts ==
  ASSUME NEW m \in Message, NEW t \in Tool, NEW of \in Tool
  PROVE  LET n == WithArgs(m, t, of)
         IN  /\ CallChanged(m, n, t)
             /\ n.tool[t].begun = m.tool[t].begun /\ n.tool[t].args = of
             /\ n.tool[t].result = m.tool[t].result
  BY DEF Message, Call, CallChanged, WithArgs

LEMMA ResultFacts ==
  ASSUME NEW m \in Message, NEW t \in Tool, NEW r \in {"ok", "failed"}
  PROVE  LET n == WithResult(m, t, r)
         IN  /\ CallChanged(m, n, t)
             /\ n.tool[t].begun = m.tool[t].begun /\ n.tool[t].args = m.tool[t].args
             /\ n.tool[t].result = r
  BY DEF Message, Call, CallChanged, WithResult

LEMMA ErrorFacts ==
  ASSUME NEW m \in Message, NEW n, n = AddError(m)
  PROVE  /\ n \in Message /\ n.text = m.text /\ n.thought = m.thought /\ n.tool = m.tool
         /\ n.cites = m.cites /\ n.artifacts = m.artifacts /\ n.error = TRUE
  BY DEF Message, AddError

\* Like c, except for its message, its open blocks and a fault.
Kept(c, d) ==
    /\ d.finish = c.finish /\ d.done = c.done
    /\ d.fault = (c.fault \/ c.done > 0)

LEMMA KeptFaultless ==
  ASSUME NEW c, NEW d, Kept(c, d), c.done = 0, c.fault = FALSE
  PROVE  d.fault = FALSE /\ d.done = 0 /\ d.finish = c.finish
<1>1. (c.done > 0) = FALSE
  OBVIOUS
<1> QED
  BY <1>1, Zenon DEF Kept

LEMMA SentFacts ==
  ASSUME NEW c \in Client, NEW d, d = Sent(c)
  PROVE  /\ d \in Client /\ Kept(c, d)
         /\ d.message = c.message /\ d.block = c.block /\ d.thinking = c.thinking
  BY DEF Client, Sent, Kept

Put(c, m) == [Sent(c) EXCEPT !.message = m]

LEMMA PutFacts ==
  ASSUME NEW c \in Client, NEW m \in Message, NEW d, d = Put(c, m)
  PROVE  /\ d \in Client /\ Kept(c, d)
         /\ d.message = m /\ d.block = c.block /\ d.thinking = c.thinking
<1> DEFINE e == Sent(c)
<1>1. e \in Client /\ Kept(c, e) /\ e.block = c.block /\ e.thinking = c.thinking
  BY SentFacts
<1> HIDE DEF e
<1>2. d = [e EXCEPT !.message = m]
  BY DEF e, Put
<1> QED
  BY <1>1, <1>2 DEF Client, Kept

LEMMA ClientStartFacts ==
  ASSUME NEW c \in Client, NEW t \in Tool, NEW d, d = StartPart(c, t)
  PROVE  /\ d \in Client /\ Kept(c, d) /\ d.message = AddStart(c.message, t)
         /\ d.block = c.block /\ d.thinking = c.thinking
<1>1. Sent(c).message = c.message /\ c.message \in Message
  BY SentFacts DEF Client
<1>2. d = Put(c, AddStart(c.message, t))
  BY <1>1 DEF Put, StartPart, AddStart
<1>3. AddStart(c.message, t) \in Message
  BY <1>1, StartFacts DEF CallChanged
<1> QED
  BY <1>2, <1>3, PutFacts

LEMMA ClientInputFacts ==
  ASSUME NEW c \in Client, NEW t \in Tool, NEW of \in Tool
  PROVE  LET d == InputPart(c, t, of)
         IN  /\ d \in Client /\ Kept(c, d) /\ d.message = WithArgs(c.message, t, of)
             /\ d.block = c.block /\ d.thinking = c.thinking
<1>1. Sent(c).message = c.message /\ c.message \in Message
  BY SentFacts DEF Client
<1>2. InputPart(c, t, of) = Put(c, WithArgs(c.message, t, of))
  BY <1>1 DEF Put, InputPart, WithArgs
<1>3. WithArgs(c.message, t, of) \in Message
  BY <1>1, ArgsFacts DEF CallChanged
<1> QED
  BY <1>2, <1>3, PutFacts

LEMMA ClientOutputFacts ==
  ASSUME NEW c \in Client, NEW t \in Tool, NEW r \in {"ok", "failed"}
  PROVE  LET d == OutputPart(c, t, r)
         IN  /\ d \in Client /\ d.message = WithResult(c.message, t, r)
             /\ d.finish = c.finish /\ d.done = c.done
             /\ d.block = c.block /\ d.thinking = c.thinking
             /\ d.fault = (c.fault \/ c.done > 0 \/ c.message.tool[t].args = None)
<1>1. c.message \in Message
  BY DEF Client
<1> DEFINE d == OutputPart(c, t, r)
           m == WithResult(c.message, t, r)
           fault == c.fault \/ c.done > 0 \/ c.message.tool[t].args = None
<1>2. d = [c EXCEPT !.message = m, !.fault = fault]
  BY DEF OutputPart, WithResult
<1>3. m \in Message
  BY <1>1, ResultFacts DEF CallChanged
<1>4. fault \in BOOLEAN
  BY DEF Client
<1> HIDE DEF d, m, fault
<1>5. d \in Client /\ d.message = m /\ d.fault = fault /\ d.finish = c.finish /\ d.done = c.done
      /\ d.block = c.block /\ d.thinking = c.thinking
  BY <1>2, <1>3, <1>4 DEF Client
<1> QED
  BY <1>5 DEF d, m, fault

LEMMA WordFacts ==
  ASSUME NEW m \in Message
  PROVE  /\ m.text < MaxWords => AddText(m) \in Message
         /\ m.thought < MaxWords => AddReasoning(m) \in Message
         /\ AddText(m).text = m.text + 1 /\ AddText(m).thought = m.thought
         /\ AddReasoning(m).text = m.text /\ AddReasoning(m).thought = m.thought + 1
         /\ \A n \in {AddText(m), AddReasoning(m)} :
              n.tool = m.tool /\ n.cites = m.cites /\ n.artifacts = m.artifacts /\ n.error = m.error
  BY ChatTurnAssumption DEF Message, AddText, AddReasoning

LEMMA ClientTextFacts ==
  ASSUME NEW c \in Client, c.message.text < MaxWords, NEW d, d = TextPart(c)
  PROVE  /\ d \in Client /\ Kept(c, d) /\ d.message = AddText(c.message)
<1> DEFINE e == Put(c, AddText(c.message))
<1>1. Sent(c).message = c.message /\ c.message \in Message
  BY SentFacts DEF Client
<1>2. e \in Client /\ Kept(c, e) /\ e.message = AddText(c.message)
  BY <1>1, WordFacts, PutFacts
<1>3. d = [e EXCEPT !.thinking = FALSE, !.block = "open"]
  BY <1>1 DEF Put, TextPart, AddText
<1> HIDE DEF e
<1> QED
  BY <1>2, <1>3 DEF Client, Kept

LEMMA ClientReasoningFacts ==
  ASSUME NEW c \in Client, c.message.thought < MaxWords, NEW d, d = ReasoningPart(c)
  PROVE  /\ d \in Client /\ Kept(c, d) /\ d.message = AddReasoning(c.message)
<1> DEFINE e == Put(c, AddReasoning(c.message))
<1>1. Sent(c).message = c.message /\ c.message \in Message
  BY SentFacts DEF Client
<1>2. e \in Client /\ Kept(c, e) /\ e.message = AddReasoning(c.message)
  BY <1>1, WordFacts, PutFacts
<1>3. d = [e EXCEPT !.thinking = TRUE]
  BY <1>1 DEF Put, ReasoningPart, AddReasoning
<1> HIDE DEF e
<1> QED
  BY <1>2, <1>3 DEF Client, Kept

LEMMA ClientCitesFacts ==
  ASSUME NEW c \in Client, NEW to \in Citations, NEW d, d = CitationsPart(c, to)
  PROVE  /\ d \in Client /\ Kept(c, d) /\ d.message = [c.message EXCEPT !.cites = to]
         /\ d.block = c.block /\ d.thinking = c.thinking
<1>1. Sent(c).message = c.message /\ c.message \in Message
  BY SentFacts DEF Client
<1>2. d = Put(c, [c.message EXCEPT !.cites = to])
  BY <1>1 DEF Put, CitationsPart
<1>3. [c.message EXCEPT !.cites = to] \in Message
  BY <1>1 DEF Message
<1> QED
  BY <1>2, <1>3, PutFacts

LEMMA ClientArtifactFacts ==
  ASSUME NEW c \in Client, NEW t \in Tool, NEW d, d = ArtifactParts(c, t)
  PROVE  /\ d \in Client /\ Kept(c, d)
         /\ d.message = [c.message EXCEPT !.artifacts = c.message.artifacts \cup {t}]
         /\ d.block = c.block /\ d.thinking = c.thinking
<1>1. Sent(c).message = c.message /\ c.message \in Message
  BY SentFacts DEF Client
<1> DEFINE m == [c.message EXCEPT !.artifacts = c.message.artifacts \cup {t}]
<1>2. d = Put(c, m)
  BY <1>1 DEF Put, ArtifactParts
<1>3. m \in Message
  BY <1>1 DEF Message
<1> QED
  BY <1>2, <1>3, PutFacts

LEMMA ClientErrorFacts ==
  ASSUME NEW c \in Client, NEW d, d = ErrorPart(c)
  PROVE  /\ d \in Client /\ Kept(c, d) /\ d.message = AddError(c.message)
         /\ d.block = c.block /\ d.thinking = c.thinking
<1>1. Sent(c).message = c.message /\ c.message \in Message
  BY SentFacts DEF Client
<1>2. d = Put(c, AddError(c.message))
  BY <1>1 DEF Put, ErrorPart, AddError
<1>3. AddError(c.message) \in Message
  BY <1>1, ErrorFacts
<1> QED
  BY <1>2, <1>3, PutFacts

LEMMA ClosingFacts ==
  ASSUME NEW c \in Client, NEW d, d = CloseBlocks(c)
  PROVE  /\ d \in Client /\ d.message = c.message /\ d.finish = c.finish /\ d.done = c.done
         /\ d.fault = c.fault /\ d.block # "open" /\ ~d.thinking
  BY DEF Client, CloseBlocks

LEMMA FinishFacts ==
  ASSUME NEW c \in Client, NEW d, d = FinishPart(c)
  PROVE  /\ d \in Client /\ d.message = c.message /\ d.finish /\ d.done = c.done
         /\ d.fault = (c.fault \/ c.done > 0)
<1> DEFINE e == CloseBlocks(c)
           f == Sent(e)
<1>1. e \in Client /\ e.message = c.message /\ e.done = c.done /\ e.fault = c.fault
  BY ClosingFacts
<1> HIDE DEF e
<1>2. f \in Client /\ Kept(e, f) /\ f.message = e.message
  BY <1>1, SentFacts
<1> HIDE DEF f
<1>3. d = [f EXCEPT !.finish = TRUE]
  BY DEF FinishPart, e, f
<1> QED
  BY <1>1, <1>2, <1>3 DEF Client, Kept

LEMMA MarkerFacts ==
  ASSUME NEW c \in Client, NEW d, d = EndMarker(c)
  PROVE  /\ d \in Client /\ d.message = c.message /\ d.finish = c.finish /\ d.done = c.done + 1
         /\ d.fault = (c.fault \/ c.done > 0) /\ d.block # "open" /\ ~d.thinking
<1> DEFINE e == Sent(c)
           f == [e EXCEPT !.done = @ + 1]
<1>1. e \in Client /\ Kept(c, e) /\ e.message = c.message
  BY SentFacts
<1> HIDE DEF e
<1>2. f \in Client /\ f.message = e.message /\ f.finish = e.finish /\ f.done = e.done + 1
      /\ f.fault = e.fault
  BY <1>1 DEF Client
<1> HIDE DEF f
<1>3. d = CloseBlocks(f)
  BY DEF EndMarker, e, f
<1> QED
  BY <1>1, <1>2, <1>3, ClosingFacts DEF Kept

-----------------------------------------------------------------------------
(* Types. *)

LEMMA HeadIsItem ==
  ASSUME queue \in Seq(Item), queue # <<>>
  PROVE  /\ Head(queue) \in Item /\ Tail(queue) \in Seq(Item) /\ Len(Tail(queue)) = Len(queue) - 1
         /\ 1 \in DOMAIN queue /\ queue[1] = Head(queue)
         /\ \A i \in DOMAIN Tail(queue) : i + 1 \in DOMAIN queue /\ Tail(queue)[i] = queue[i + 1]
         /\ Head(queue).kind \in OfCalls => Head(queue).tool \in Tool
  BY DEF Item, OfCalls, Answers, Word

LEMMA WordsLeft ==
  ASSUME TypeOK, Counted, queue # <<>>
  PROVE  /\ Head(queue).kind \in Spoken => writer.text < words
         /\ Head(queue).kind = "think" => writer.thought < thoughts
<1>1. /\ queue \in Seq(Item) /\ Tail(queue) \in Seq(Item)
      /\ writer.text \in Nat /\ writer.thought \in Nat /\ words \in Nat /\ thoughts \in Nat
  BY HeadIsItem, ChatTurnAssumption DEF TypeOK, Message
<1>2. /\ Cardinality(Places(Tail(queue), Spoken)) \in Nat
      /\ Cardinality(Places(Tail(queue), {"think"})) \in Nat
  BY <1>1, PlacesAreFinite
<1>3. /\ Cardinality(Places(queue, Spoken))
           = Cardinality(Places(Tail(queue), Spoken)) + (IF Head(queue).kind \in Spoken THEN 1 ELSE 0)
      /\ Cardinality(Places(queue, {"think"}))
           = Cardinality(Places(Tail(queue), {"think"})) + (IF Head(queue).kind \in {"think"} THEN 1 ELSE 0)
  BY <1>1, TailCounts
<1> QED
  BY <1>1, <1>2, <1>3 DEF Counted

LEMMA ItemFacts ==
  /\ \A kind \in Word \cup {"cited", "sentinel"} : [kind |-> kind] \in Item
  /\ \A kind \in OfCalls, t \in Tool : [kind |-> kind, tool |-> t] \in Item
  BY DEF Item, OfCalls, Answers

LEMMA ModelTypes ==
  ASSUME TypeOK, \/ \E kind \in Word : Say(kind)
                 \/ \E t \in Tool : CallTool(t) \/ SkipTool(t)
                 \/ TaskEnds
  PROVE  TypeOK'
<1>1. queue \in Seq(Item)
  BY DEF TypeOK
<1>2. \A x \in Item : Append(queue, x) \in Seq(Item)
  BY <1>1
<1>3. ASSUME NEW kind \in Word, Say(kind) PROVE TypeOK'
  <2>1. queue' \in Seq(Item)
    BY <1>2, <1>3, ItemFacts DEF Say, Queued
  <2> QED
    BY <1>3, <2>1, ChatTurnAssumption DEF Say, TypeOK
<1>4. ASSUME NEW t \in Tool, CallTool(t) PROVE TypeOK'
  <2>1. queue' \in Seq(Item)
    BY <1>1, <1>2, <1>4, ItemFacts DEF CallTool, Queued, OfCalls, Answers
  <2>2. asked' \in [Tool -> {"no", "started", "asked", "ok", "failed", "skipped"}] /\ sources' \in BOOLEAN
    BY <1>4 DEF CallTool, TypeOK
  <2>3. UNCHANGED <<task, words, thoughts, turn, blocks, writer, kept, client>>
    BY <1>4 DEF CallTool
  <2> QED
    BY <2>1, <2>2, <2>3 DEF TypeOK
<1>5. ASSUME NEW t \in Tool, SkipTool(t) PROVE TypeOK'
  BY <1>5 DEF SkipTool, TypeOK
<1>6. ASSUME TaskEnds PROVE TypeOK'
  <2>1. queue' \in Seq(Item)
    BY <1>2, <1>6, ItemFacts DEF TaskEnds, SentinelLast
  <2> QED
    BY <1>6, <2>1 DEF TaskEnds, TypeOK
<1> QED
  BY <1>3, <1>4, <1>5, <1>6

\* Cancelling the blocks ends those that run, and nothing else.
LEMMA CancelFacts ==
  ASSUME blocks \in Seq(Block), NEW after, after = CancelBlocks
  PROVE  /\ after \in Seq(Block) /\ Len(after) = Len(blocks) /\ DOMAIN after = DOMAIN blocks
         /\ \A b \in DOMAIN blocks :
              /\ after[b].to = blocks[b].to
              /\ after[b].at = IF blocks[b].at = "running" THEN "cancelled" ELSE blocks[b].at
<1>1. after = [b \in 1..Len(blocks) |->
                 IF blocks[b].at = "running" THEN [blocks[b] EXCEPT !.at = "cancelled"] ELSE blocks[b]]
  BY DEF CancelBlocks, Running
<1>2. \A b \in 1..Len(blocks) : blocks[b] \in Block
  OBVIOUS
<1>3. \A b \in 1..Len(blocks) : /\ after[b] \in Block /\ after[b].to = blocks[b].to
                                /\ after[b].at = IF blocks[b].at = "running" THEN "cancelled" ELSE blocks[b].at
  BY <1>1, <1>2 DEF Block
<1>4. after \in [1..Len(blocks) -> Block] /\ Len(blocks) \in Nat
  BY <1>1, <1>3
<1>5. after \in Seq(Block) /\ Len(after) = Len(blocks)
  BY <1>4, SeqDef
<1> QED
  BY <1>3, <1>5

LEMMA BlockStarts ==
  ASSUME blocks \in Seq(Block), NEW upTo \in 1..MaxWords, NEW after, after = StartBlock(upTo)
  PROVE  /\ after \in Seq(Block) /\ Len(after) = Len(blocks) + 1
         /\ DOMAIN blocks \subseteq DOMAIN after
         /\ \A b \in DOMAIN blocks : after[b] = blocks[b]
         /\ after[Len(after)] = [to |-> upTo, at |-> "running"]
  BY DEF StartBlock, Block

LEMMA HaltTypes ==
  ASSUME TypeOK, NEW t \in Turn, NEW c \in Client, Halt(t, c)
  PROVE  /\ task' \in {"none", "running", "done", "failed", "stopping", "cancelled"}
         /\ turn' \in Turn /\ turn'.awaited = {}
         /\ turn'.phase = (IF task = "running" THEN "stopping" ELSE IF t.final THEN "ended" ELSE "saving")
         /\ turn'.pending = t.pending /\ turn'.at = t.at /\ turn'.reason = t.reason
         /\ turn'.final = t.final /\ turn'.refused = t.refused /\ turn'.left = t.left
         /\ turn'.cites = t.cites
         /\ blocks' \in Seq(Block) /\ client' \in Client
         /\ UNCHANGED <<asked, words, thoughts, sources, queue, writer>>
<1>1. blocks' \in Seq(Block)
  BY CancelFacts DEF Halt, TypeOK
<1>2. client' \in Client
  BY MarkerFacts DEF Halt
<1>3. turn' = [t EXCEPT !.phase = IF task = "running" THEN "stopping"
                                  ELSE IF t.final THEN "ended" ELSE "saving",
                        !.tool = None, !.awaited = {}]
  BY DEF Halt
<1> QED
  BY <1>1, <1>2, <1>3 DEF Halt, TypeOK, Turn, Phase

LEMMA InsertTypes ==
  ASSUME TypeOK, NEW reason \in Reason, Insert(reason) \/ UNCHANGED kept
  PROVE  /\ kept' \in Row \cup {None}
         /\ kept # None => kept' = kept
         /\ Insert(reason) => kept' # None
         /\ kept' # kept => kept' = [message |-> writer, reason |-> reason]
  BY ChatTurnAssumption DEF Insert, TypeOK, Row

LEMMA CitesAreCitations ==
  ASSUME blocks \in Seq(Block)
  PROVE  Cited \in Citations
<1>1. \A b \in DOMAIN blocks : blocks[b].to \in 1..MaxWords
  <2>1. \A b \in DOMAIN blocks : blocks[b] \in Block
    OBVIOUS
  <2> QED
    BY <2>1 DEF Block
<1> QED
  BY <1>1 DEF Cited, Citations

\* When the sentinel comes to be read and the task did not fail, it is done.
LEMMA SentinelMeansDone ==
  ASSUME TypeOK, SentinelIsLast, TasksFit, turn.phase = "reading", queue # <<>>,
         Head(queue).kind = "sentinel"
  PROVE  /\ task \in {"done", "failed"}
         /\ task = "done" => \A t \in Tool : asked[t] \in {"no", "ok", "failed", "skipped"}
         /\ \A i \in DOMAIN Tail(queue) : Tail(queue)[i].kind = "cited"
<1>1. queue \in Seq(Item)
  BY DEF TypeOK
<1>2. 1 \in DOMAIN queue /\ queue[1].kind = "sentinel"
  BY <1>1, HeadIsItem
<1>3. task \in {"done", "failed"}
  BY <1>2 DEF SentinelIsLast, TasksFit
<1>4. \A i \in DOMAIN Tail(queue) : Tail(queue)[i] = queue[i + 1] /\ i + 1 \in DOMAIN queue /\ 1 < i + 1
  BY <1>1, HeadIsItem
<1>5. \A i \in DOMAIN Tail(queue) : Tail(queue)[i].kind = "cited"
  BY <1>2, <1>4 DEF SentinelIsLast
<1>6. \A t \in Tool : asked[t] \in {"no", "started", "asked", "ok", "failed", "skipped"}
  BY DEF TypeOK
<1> QED
  BY <1>3, <1>5, <1>6 DEF TasksFit

LEMMA UnstreamedFacts ==
  ASSUME NEW m \in Message, NEW n, n = Unstreamed(m),
         \A t \in Tool : asked[t] \in {"no", "ok", "failed", "skipped"}
  PROVE  /\ n \in Message /\ n.text = m.text /\ n.thought = m.thought /\ n.cites = m.cites
         /\ n.artifacts = m.artifacts /\ n.error = m.error
         /\ \A t \in Tool :
              /\ n.tool[t].begun = m.tool[t].begun /\ n.tool[t].args = m.tool[t].args
              /\ m.tool[t].result # "none" => n.tool[t].result = m.tool[t].result
              /\ asked[t] # "no" => n.tool[t].result # "none"
              /\ asked[t] = "no" => n.tool[t].result = m.tool[t].result
<1> DEFINE tool == [t \in Tool |-> IF Persisted(m, t) THEN m.tool[t]
                                   ELSE [m.tool[t] EXCEPT !.result = FromResponse(t)]]
<1>1. n = [m EXCEPT !.tool = tool]
  BY DEF Unstreamed
<1>2. ASSUME NEW t \in Tool
      PROVE  /\ tool[t] \in Call
             /\ tool[t].begun = m.tool[t].begun /\ tool[t].args = m.tool[t].args
             /\ m.tool[t].result # "none" => tool[t].result = m.tool[t].result
             /\ asked[t] # "no" => tool[t].result # "none"
             /\ asked[t] = "no" => tool[t].result = m.tool[t].result
  <2>1. m.tool[t] \in Call
    BY DEF Message
  <2>2. asked[t] # "no" => FromResponse(t) \in {"ok", "failed"}
    BY DEF FromResponse
  <2>3. tool[t] = IF Persisted(m, t) THEN m.tool[t] ELSE [m.tool[t] EXCEPT !.result = FromResponse(t)]
    OBVIOUS
  <2> HIDE DEF tool
  <2> QED
    BY <2>1, <2>2, <2>3 DEF Persisted, Call
<1>3. tool \in [Tool -> Call]
  <2>1. tool = [t \in Tool |-> tool[t]]
    OBVIOUS
  <2> HIDE DEF tool
  <2> QED
    BY <1>2, <2>1
<1>4. /\ n \in Message /\ n.text = m.text /\ n.thought = m.thought /\ n.cites = m.cites
      /\ n.artifacts = m.artifacts /\ n.error = m.error /\ n.tool = tool
  <2> HIDE DEF tool
  <2> QED
    BY <1>1, <1>3 DEF Message
<1> HIDE DEF tool
<1> QED
  BY <1>2, <1>4

-----------------------------------------------------------------------------
(* What each step of the turn does, field by field. *)

ModelSame == UNCHANGED <<task, asked, words, thoughts, sources>>
CallsSame == turn'.pending = turn.pending /\ turn'.at = turn.at
EndSame == /\ turn'.reason = turn.reason /\ turn'.final = turn.final
           /\ turn'.refused = turn.refused /\ turn'.left = turn.left
CitesSame == turn'.cites = turn.cites
ReadOff(kinds) ==
    /\ turn.phase = "reading" /\ queue # <<>> /\ queue' = Tail(queue) /\ queue' \in Seq(Item)
    /\ Head(queue).kind \in kinds /\ kept' = kept

\* Like m, except for what was said and thought.
WordsChanged(m, n) ==
    n.tool = m.tool /\ n.cites = m.cites /\ n.artifacts = m.artifacts /\ n.error = m.error

LEMMA TypesUnfold ==
  ASSUME TypeOK
  PROVE  /\ queue \in Seq(Item) /\ turn \in Turn /\ blocks \in Seq(Block) /\ writer \in Message
         /\ client \in Client /\ client.message \in Message /\ turn.awaited \subseteq DOMAIN blocks
         /\ words \in 0..MaxWords /\ thoughts \in 0..MaxWords
  BY DEF TypeOK, Client

LEMMA GoFacts ==
  ASSUME turn \in Turn, NEW phase \in Phase, Go(phase)
  PROVE  /\ turn' \in Turn /\ turn'.phase = phase /\ CallsSame /\ EndSame /\ CitesSame
         /\ turn'.awaited = turn.awaited
  BY DEF Go, Turn, CallsSame, EndSame, CitesSame

LEMMA ReadWordFacts ==
  ASSUME TypeOK, TurnInv, ReadWord
  PROVE  /\ ReadOff(Word) /\ ModelSame /\ UNCHANGED turn
         /\ writer' \in Message /\ WordsChanged(writer, writer')
         /\ client' \in Client /\ Kept(client, client') /\ WordsChanged(client.message, client'.message)
         /\ writer'.text = writer.text + (IF Head(queue).kind \in Spoken THEN 1 ELSE 0)
         /\ writer'.thought = writer.thought + (IF Head(queue).kind = "think" THEN 1 ELSE 0)
         /\ client'.message.text = client.message.text + (IF Head(queue).kind \in Spoken THEN 1 ELSE 0)
         /\ client'.message.thought = client.message.thought + (IF Head(queue).kind = "think" THEN 1 ELSE 0)
         /\ \/ blocks' = blocks
            \/ writer.text + 1 \in 1..MaxWords /\ blocks' = StartBlock(writer.text + 1)
<1>1. /\ ReadOff(Word) /\ ModelSame /\ UNCHANGED turn
  BY TypesUnfold, HeadIsItem DEF ReadWord, Read, ReadOff, ModelSame, model
<1>2. /\ Head(queue).kind \in Spoken => writer.text < MaxWords
      /\ Head(queue).kind = "think" => writer.thought < MaxWords
  <2>1. writer.text \in Nat /\ writer.thought \in Nat
    BY TypesUnfold, ChatTurnAssumption DEF Message
  <2> QED
    BY <1>1, <2>1, WordsLeft, TypesUnfold, ChatTurnAssumption DEF TurnInv, ReadOff
<1>3. client.message.text = writer.text /\ client.message.thought = writer.thought
  BY DEF TurnInv, ClientFits, CallsMatch, CallMatches, EndsFit
<1>4. writer \in Message /\ client.message \in Message /\ client \in Client
      /\ writer.text \in Nat /\ writer.thought \in Nat
  BY TypesUnfold, ChatTurnAssumption DEF Message
<1>5. CASE Head(queue).kind = "think"
  <2>1. writer' = AddReasoning(writer) /\ client' = ReasoningPart(client) /\ blocks' = blocks
    BY <1>5 DEF ReadWord
  <2>2. /\ client' \in Client /\ Kept(client, client') /\ client'.message = AddReasoning(client.message)
    BY <1>2, <1>3, <1>4, <1>5, <2>1, ClientReasoningFacts
  <2> QED
    <3>1. "think" \notin Spoken
      BY DEF Spoken
    <3>2. writer' \in Message /\ WordsChanged(writer, writer')
      BY <1>2, <1>4, <1>5, <2>1, WordFacts DEF WordsChanged
    <3>3. WordsChanged(client.message, client'.message)
      BY <1>4, <2>2, WordFacts DEF WordsChanged
    <3>4. /\ writer'.text = writer.text /\ writer'.thought = writer.thought + 1
          /\ client'.message.text = client.message.text
          /\ client'.message.thought = client.message.thought + 1
      BY <1>4, <2>1, <2>2, WordFacts
    <3> QED
      BY <1>1, <1>3, <1>4, <1>5, <2>1, <2>2, <3>1, <3>2, <3>3, <3>4
<1>6. CASE Head(queue).kind # "think"
  <2>1. Head(queue).kind \in Spoken
    BY <1>1, <1>6 DEF ReadOff, Word, Spoken
  <2>2. /\ writer' = AddText(writer) /\ client' = TextPart(client)
        /\ blocks' = Feed(Head(queue).kind, writer.text + 1)
    BY <1>6 DEF ReadWord
  <2>3. /\ client' \in Client /\ Kept(client, client') /\ client'.message = AddText(client.message)
    BY <1>2, <1>3, <1>4, <2>1, <2>2, ClientTextFacts
  <2>4. writer.text + 1 \in 1..MaxWords
    BY <1>2, <1>4, <2>1, ChatTurnAssumption
  <2> QED
    <3>2. writer' \in Message /\ WordsChanged(writer, writer')
      BY <1>2, <1>4, <2>1, <2>2, WordFacts DEF WordsChanged
    <3>3. WordsChanged(client.message, client'.message)
      BY <1>4, <2>3, WordFacts DEF WordsChanged
    <3>4. /\ writer'.text = writer.text + 1 /\ writer'.thought = writer.thought
          /\ client'.message.text = client.message.text + 1
          /\ client'.message.thought = client.message.thought
      BY <1>4, <2>2, <2>3, WordFacts
    <3>5. blocks' = blocks \/ blocks' = StartBlock(writer.text + 1)
      BY <2>2 DEF Feed
    <3> QED
      BY <1>1, <1>3, <1>4, <1>6, <2>1, <2>3, <2>4, <3>2, <3>3, <3>4, <3>5
<1> QED
  BY <1>5, <1>6

LEMMA ReadStartFacts ==
  ASSUME TypeOK, TurnInv, ReadStart, NEW t, t = Head(queue).tool
  PROVE  /\ ReadOff({"start"}) /\ ModelSame /\ UNCHANGED blocks /\ t \in Tool
         /\ turn' \in Turn /\ turn'.phase = "reading" /\ EndSame /\ CitesSame
         /\ turn'.awaited = turn.awaited
         /\ turn'.pending = turn.pending \cup {t}
         /\ \A i \in Indices : turn'.at[i] = IF i = Index[t] THEN t ELSE turn.at[i]
         /\ CallChanged(writer, writer', t) /\ writer'.tool[t].begun
         /\ writer'.tool[t].args = writer.tool[t].args /\ writer'.tool[t].result = writer.tool[t].result
         /\ client' \in Client /\ Kept(client, client') /\ CallChanged(client.message, client'.message, t)
         /\ client'.message.tool[t].begun
         /\ client'.message.tool[t].args = client.message.tool[t].args
         /\ client'.message.tool[t].result = client.message.tool[t].result
<1>1. ReadOff({"start"}) /\ ModelSame /\ UNCHANGED blocks /\ t \in Tool
  BY TypesUnfold, HeadIsItem DEF ReadStart, Read, ReadOff, ModelSame, model, OfCalls
<1>2. /\ turn' = [turn EXCEPT !.pending = @ \cup {t}, !.at[Index[t]] = t]
      /\ writer' = AddStart(writer, t) /\ client' = StartPart(client, t)
  BY DEF ReadStart
<1>3. /\ turn' \in Turn /\ turn'.phase = turn.phase /\ EndSame /\ CitesSame
      /\ turn'.awaited = turn.awaited /\ turn'.pending = turn.pending \cup {t}
      /\ \A i \in Indices : turn'.at[i] = IF i = Index[t] THEN t ELSE turn.at[i]
  <2>1. turn \in Turn /\ Index[t] \in Indices
    BY <1>1, TypesUnfold DEF Indices
  <2>2. turn' = [turn EXCEPT !.pending = turn.pending \cup {t}, !.at = [turn.at EXCEPT ![Index[t]] = t]]
    BY <1>2
  <2>3. [turn.at EXCEPT ![Index[t]] = t] \in [Indices -> Tool \cup {None}]
    BY <1>1, <2>1 DEF Turn
  <2>4. turn'.at = [turn.at EXCEPT ![Index[t]] = t]
    BY <2>1, <2>2, <2>3 DEF Turn
  <2>5. \A i \in Indices : turn'.at[i] = IF i = Index[t] THEN t ELSE turn.at[i]
    BY <2>1, <2>4 DEF Turn
  <2> QED
    BY <1>1, <2>1, <2>2, <2>3, <2>5 DEF Turn, EndSame, CitesSame
<1>4. /\ client' \in Client /\ Kept(client, client') /\ client'.message = AddStart(client.message, t)
  BY <1>1, <1>2, TypesUnfold, ClientStartFacts
<1>5. /\ CallChanged(writer, writer', t) /\ writer'.tool[t].begun
      /\ writer'.tool[t].args = writer.tool[t].args /\ writer'.tool[t].result = writer.tool[t].result
  <2>1. writer \in Message
    BY TypesUnfold
  <2> QED
    BY <1>1, <1>2, <2>1, StartFacts
<1>6. /\ CallChanged(client.message, client'.message, t) /\ client'.message.tool[t].begun
      /\ client'.message.tool[t].args = client.message.tool[t].args
      /\ client'.message.tool[t].result = client.message.tool[t].result
  BY <1>1, <1>4, TypesUnfold, StartFacts
<1> QED
  BY <1>1, <1>3, <1>4, <1>5, <1>6 DEF ReadOff

\* A chunk behind a call's start is read while the call is open.
LEMMA CallIsOpen ==
  ASSUME TypeOK, TurnInv, turn.phase = "reading", queue # <<>>,
         Head(queue).kind \in OfCalls, Head(queue).kind # "start"
  PROVE  Pending(writer, Head(queue).tool)
<1> DEFINE t == Head(queue).tool
<1>1. /\ t \in Tool /\ 1 \in DOMAIN queue /\ queue[1] = Head(queue)
  BY TypesUnfold, HeadIsItem
<1>2. Of(1, t)
  BY <1>1 DEF Of
<1>3. ~\E j \in DOMAIN queue : j < 1 /\ Of(j, t) /\ queue[j].kind = "start"
  BY TypesUnfold
<1>4. writer.tool[t].begun /\ writer.tool[t].result = "none"
  BY <1>1, <1>2, <1>3 DEF TurnInv, CallsInOrder, CallFits
<1> QED
  BY <1>4 DEF Pending

LEMMA ReadFragmentFacts ==
  ASSUME TypeOK, TurnInv, ReadFragment, NEW of, of = Head(queue).tool
  PROVE  /\ ReadOff({"fragment"}) /\ ModelSame /\ UNCHANGED blocks /\ of \in Tool
         /\ turn' \in Turn /\ turn'.phase = "reading" /\ EndSame /\ CitesSame
         /\ turn'.awaited = turn.awaited /\ turn'.at = turn.at
         /\ writer' \in Message /\ client' \in Client
         /\ \/ UNCHANGED <<turn, writer, client>>
            \/ \E t \in Tool :
                 /\ t \in turn.pending /\ t = turn.at[Index[of]] /\ Pending(writer, t)
                 /\ turn'.pending = turn.pending \ {t}
                 /\ CallChanged(writer, writer', t) /\ writer'.tool[t].begun
                 /\ writer'.tool[t].args = of /\ writer'.tool[t].result = "none"
                 /\ Kept(client, client') /\ CallChanged(client.message, client'.message, t)
                 /\ client'.message.tool[t].begun = client.message.tool[t].begun
                 /\ client'.message.tool[t].args = of
                 /\ client'.message.tool[t].result = client.message.tool[t].result
<1>1. ReadOff({"fragment"}) /\ ModelSame /\ UNCHANGED blocks /\ of \in Tool
  BY TypesUnfold, HeadIsItem DEF ReadFragment, Read, ReadOff, ModelSame, model, OfCalls
<1>2. turn \in Turn /\ writer \in Message /\ client \in Client /\ client.message \in Message
  BY TypesUnfold
<1>3. CASE UNCHANGED <<turn, writer, client>>
  BY <1>1, <1>2, <1>3 DEF ReadOff, EndSame, CitesSame
<1>4. CASE ~UNCHANGED <<turn, writer, client>>
  <2>1. PICK t \in Tool :
          /\ t \in turn.pending /\ turn' = [turn EXCEPT !.pending = @ \ {t}]
          /\ writer' = AddInput(writer, t, of) /\ client' = InputPart(client, t, of)
          /\ t = turn.at[Index[of]]
    BY <1>2, <1>4 DEF ReadFragment, CallAt, Turn
  <2>2. of \in Tool
    BY <1>1
  <2>3. Pending(writer, t)
    BY <1>1, <2>1, <2>2 DEF TurnInv, ClientFits, CallsMatch, CallMatches, ToRead, Before, Pending, ReadOff
  <2>4. /\ turn' \in Turn /\ turn'.phase = turn.phase /\ EndSame /\ CitesSame
        /\ turn'.awaited = turn.awaited /\ turn'.at = turn.at /\ turn'.pending = turn.pending \ {t}
    BY <1>2, <2>1 DEF Turn, EndSame, CitesSame
  <2>5. writer' = WithArgs(writer, t, of)
    BY <2>1, <2>3 DEF AddInput, WithArgs
  <2>6. /\ CallChanged(writer, writer', t) /\ writer'.tool[t].begun = writer.tool[t].begun
        /\ writer'.tool[t].args = of /\ writer'.tool[t].result = writer.tool[t].result
    BY <1>2, <2>2, <2>5, ArgsFacts
  <2>7. /\ client' \in Client /\ Kept(client, client')
        /\ client'.message = WithArgs(client.message, t, of)
    BY <1>2, <2>1, <2>2, ClientInputFacts
  <2>8. /\ CallChanged(client.message, client'.message, t)
        /\ client'.message.tool[t].begun = client.message.tool[t].begun
        /\ client'.message.tool[t].args = of
        /\ client'.message.tool[t].result = client.message.tool[t].result
    BY <1>2, <2>2, <2>7, ArgsFacts
  <2>9. writer' \in Message
    BY <2>6 DEF CallChanged
  <2> QED
    <3>1. turn'.phase = "reading"
      BY <1>1, <2>4 DEF ReadOff
    <3>2. writer'.tool[t].begun /\ writer'.tool[t].result = "none"
      BY <2>3, <2>6 DEF Pending
    <3> QED
      BY <1>1, <2>1, <2>3, <2>4, <2>6, <2>7, <2>8, <2>9, <3>1, <3>2
<1> QED
  BY <1>3, <1>4

LEMMA ReadResultFacts ==
  ASSUME TypeOK, TurnInv, ReadResult, NEW t, t = Head(queue).tool
  PROVE  /\ ReadOff(Answers) /\ ModelSame /\ UNCHANGED blocks /\ t \in Tool /\ Pending(writer, t)
         /\ turn' \in Turn /\ turn'.phase \in {"reading", "building"} /\ EndSame /\ CitesSame
         /\ turn'.awaited = turn.awaited /\ turn'.at = turn.at
         /\ turn'.pending = turn.pending \ {t}
         /\ turn'.phase = "building" => turn'.tool = t
         /\ CallChanged(writer, writer', t) /\ writer'.tool[t].begun
         /\ writer'.tool[t].args = (IF t \in turn.pending THEN t ELSE writer.tool[t].args)
         /\ client' \in Client /\ CallChanged(client.message, client'.message, t)
         /\ client'.message.tool[t].begun = client.message.tool[t].begun
         /\ client'.message.tool[t].args = (IF t \in turn.pending THEN t ELSE client.message.tool[t].args)
         /\ client'.message.tool[t].result = writer'.tool[t].result
         /\ client'.message.tool[t].result # "none"
         /\ client'.finish = client.finish /\ client'.done = client.done
         /\ client.done = 0 /\ client.message.tool[t].args # None => client'.fault = client.fault
         /\ client.done = 0 /\ t \in turn.pending => client'.fault = client.fault
<1>1. ReadOff(Answers) /\ ModelSame /\ UNCHANGED blocks /\ t \in Tool
  BY TypesUnfold, HeadIsItem DEF ReadResult, Read, ReadOff, ModelSame, model, OfCalls, Answers
<1>2. turn \in Turn /\ writer \in Message /\ client \in Client /\ client.message \in Message
  BY TypesUnfold
<1>3. Pending(writer, t)
  BY <1>1, CallIsOpen DEF ReadOff, OfCalls, Answers
<1> DEFINE r == IF Head(queue).kind = "result" THEN "ok" ELSE "failed"
           w == IF Incomplete(t) THEN AddInput(writer, t, t) ELSE writer
           c == IF Incomplete(t) THEN InputPart(client, t, t) ELSE client
           build == r = "ok" /\ t \in Mapped
<1>4. /\ turn' = [turn EXCEPT !.pending = @ \ {t},
                              !.phase = IF build THEN "building" ELSE "reading",
                              !.tool = IF build THEN t ELSE None]
      /\ writer' = AddOutput(w, t, r) /\ client' = OutputPart(c, t, r)
  BY DEF ReadResult
<1>5. r \in {"ok", "failed"} /\ r # "none"
  OBVIOUS
<1>6. /\ w \in Message /\ CallChanged(writer, w, t) /\ w.tool[t].begun /\ w.tool[t].result = "none"
      /\ w.tool[t].args = (IF t \in turn.pending THEN t ELSE writer.tool[t].args)
  <2>1. CASE t \in turn.pending
    <3>1. w = WithArgs(writer, t, t)
      BY <1>3, <2>1 DEF Incomplete, AddInput, WithArgs
    <3> HIDE DEF w
    <3> QED
      BY <1>1, <1>2, <1>3, <2>1, <3>1, ArgsFacts DEF CallChanged, Pending
  <2>2. CASE t \notin turn.pending
    <3>1. w = writer
      BY <2>2 DEF Incomplete
    <3> HIDE DEF w
    <3> QED
      BY <1>2, <1>3, <2>2, <3>1 DEF CallChanged, Pending
  <2> QED
    BY <2>1, <2>2
<1>7. /\ c \in Client /\ c.finish = client.finish /\ c.done = client.done
      /\ client.done = 0 => c.fault = client.fault
      /\ CallChanged(client.message, c.message, t)
      /\ c.message.tool[t].begun = client.message.tool[t].begun
      /\ c.message.tool[t].args = (IF t \in turn.pending THEN t ELSE client.message.tool[t].args)
  <2>1. CASE t \in turn.pending
    <3>1. c = InputPart(client, t, t)
      BY <2>1 DEF Incomplete
    <3> HIDE DEF c
    <3>2. c \in Client /\ Kept(client, c) /\ c.message = WithArgs(client.message, t, t)
      BY <1>1, <1>2, <3>1, ClientInputFacts
    <3> QED
      BY <1>1, <1>2, <2>1, <3>2, ArgsFacts DEF Kept, Client
  <2>2. CASE t \notin turn.pending
    <3>1. c = client
      BY <2>2 DEF Incomplete
    <3> HIDE DEF c
    <3> QED
      BY <1>2, <2>2, <3>1 DEF CallChanged
  <2> QED
    BY <2>1, <2>2
<1>8. /\ turn' \in Turn /\ turn'.phase \in {"reading", "building"} /\ EndSame /\ CitesSame
      /\ turn'.awaited = turn.awaited /\ turn'.at = turn.at /\ turn'.pending = turn.pending \ {t}
      /\ turn'.phase = "building" => turn'.tool = t
  BY <1>1, <1>2, <1>4 DEF Turn, EndSame, CitesSame, Phase
<1> HIDE DEF r, w, c, build
<1>9. writer' = WithResult(w, t, r)
  BY <1>4, <1>6 DEF AddOutput, Pending, WithResult
<1>10. /\ CallChanged(w, writer', t) /\ writer'.tool[t].begun
       /\ writer'.tool[t].args = w.tool[t].args /\ writer'.tool[t].result = r
  BY <1>1, <1>5, <1>6, <1>9, ResultFacts
<1>11. /\ client' \in Client /\ client'.message = WithResult(c.message, t, r)
       /\ client'.finish = c.finish /\ client'.done = c.done
       /\ client'.fault = (c.fault \/ c.done > 0 \/ c.message.tool[t].args = None)
  BY <1>1, <1>4, <1>5, <1>7, ClientOutputFacts
<1>12. c.message \in Message
  BY <1>7 DEF CallChanged
<1>13. /\ CallChanged(c.message, client'.message, t)
       /\ client'.message.tool[t].begun = c.message.tool[t].begun
       /\ client'.message.tool[t].args = c.message.tool[t].args
       /\ client'.message.tool[t].result = r
  BY <1>1, <1>5, <1>11, <1>12, ResultFacts
<1>14. CallChanged(writer, writer', t) /\ CallChanged(client.message, client'.message, t)
  BY <1>6, <1>7, <1>10, <1>13 DEF CallChanged
<1>15. /\ client.done = 0 /\ client.message.tool[t].args # None => client'.fault = client.fault
       /\ client.done = 0 /\ t \in turn.pending => client'.fault = client.fault
  <2>1. client.fault \in BOOLEAN /\ c.fault \in BOOLEAN /\ t # None
    BY <1>1, <1>2, <1>7, ChatTurnAssumption DEF Client
  <2> QED
    BY <1>7, <1>11, <2>1
<1> QED
  BY <1>1, <1>3, <1>5, <1>6, <1>7, <1>8, <1>10, <1>11, <1>13, <1>14, <1>15

\* Like m, except for its citations.
CitesChanged(m, n) ==
    /\ n \in Message /\ n.text = m.text /\ n.thought = m.thought /\ n.tool = m.tool
    /\ n.artifacts = m.artifacts /\ n.error = m.error

\* Like c, except for its message, and a fault if its stream was over.
ClientKept(c, d) ==
    /\ d \in Client /\ d.finish = c.finish /\ d.done = c.done
    /\ d.block = c.block /\ d.thinking = c.thinking
    /\ c.done = 0 => d.fault = c.fault

LEMMA CitationsFacts ==
  ASSUME NEW c \in Client, NEW to \in Citations
  PROVE  LET d == CitationsPart(c, to)
         IN  ClientKept(c, d) /\ CitesChanged(c.message, d.message) /\ d.message.cites = to
<1> DEFINE d == CitationsPart(c, to)
<1>1. /\ d \in Client /\ Kept(c, d) /\ d.message = [c.message EXCEPT !.cites = to]
      /\ d.block = c.block /\ d.thinking = c.thinking
  BY ClientCitesFacts
<1>2. c.message \in Message /\ c.fault \in BOOLEAN
  BY DEF Client
<1> HIDE DEF d
<1>3. CitesChanged(c.message, d.message) /\ d.message.cites = to
  BY <1>1, <1>2 DEF CitesChanged, Message
<1>4. ClientKept(c, d)
  BY <1>1, <1>2 DEF ClientKept, Kept
<1> QED
  BY <1>3, <1>4 DEF d

LEMMA PartialFacts ==
  ASSUME TypeOK
  PROVE  /\ ClientKept(client, Partial) /\ CitesChanged(client.message, Partial.message)
         /\ \/ Partial.message.cites = Cited
            \/ Cited = {} /\ Partial.message.cites = client.message.cites
<1>1. client \in Client /\ client.message \in Message /\ Cited \in Citations
  BY TypesUnfold, CitesAreCitations
<1>2. CASE Cited = {}
  BY <1>1, <1>2 DEF Partial, ClientKept, CitesChanged
<1>3. CASE Cited # {}
  BY <1>1, <1>3, CitationsFacts DEF Partial
<1> QED
  BY <1>2, <1>3

LEMMA ReadCitedFacts ==
  ASSUME TypeOK, ReadCited
  PROVE  /\ ReadOff({"cited"}) /\ ModelSame /\ UNCHANGED <<turn, blocks, writer>> /\ client' = Partial
  BY TypesUnfold, HeadIsItem DEF ReadCited, Read, ReadOff, ModelSame, model

LEMMA ReadSentinelFacts ==
  ASSUME TypeOK, TurnInv, ReadSentinel
  PROVE  /\ ReadOff({"sentinel"}) /\ ModelSame /\ task \in {"done", "failed"}
         /\ \A i \in DOMAIN queue' : queue'[i].kind = "cited"
         /\ turn' \in Turn /\ CallsSame /\ CitesSame
         /\ turn'.final = turn.final /\ turn'.refused = turn.refused /\ turn'.left = turn.left
         /\ turn'.awaited \subseteq DOMAIN blocks' /\ blocks' \in Seq(Block)
         /\ writer' \in Message /\ client' \in Client
         /\ task = "done" => \A t \in Tool : asked[t] \in {"no", "ok", "failed", "skipped"}
         /\ \/ /\ task = "failed" /\ turn'.phase = "storing" /\ turn'.reason = "error"
               /\ writer' = AddError(writer) /\ UNCHANGED <<blocks, client>>
            \/ /\ task = "done" /\ writer' = Unstreamed(writer) /\ client' = CloseBlocks(client)
               /\ \/ turn'.phase = "storing" /\ turn'.reason = "stop" /\ blocks' = blocks
                  \/ turn'.phase = "citing" /\ turn'.reason = turn.reason /\ blocks' = Waiting
<1>1. ReadOff({"sentinel"}) /\ ModelSame
  BY TypesUnfold, HeadIsItem DEF ReadSentinel, Read, ReadOff, ModelSame, model
<1>2. /\ task \in {"done", "failed"}
      /\ task = "done" => \A t \in Tool : asked[t] \in {"no", "ok", "failed", "skipped"}
      /\ \A i \in DOMAIN queue' : queue'[i].kind = "cited"
  BY <1>1, SentinelMeansDone DEF TurnInv, ReadOff
<1>3. turn \in Turn /\ writer \in Message /\ client \in Client /\ blocks \in Seq(Block)
      /\ turn.awaited \subseteq DOMAIN blocks
  BY TypesUnfold
<1>4. CASE task = "failed"
  <2>1. /\ turn' = [turn EXCEPT !.phase = "storing", !.reason = "error"]
        /\ writer' = AddError(writer) /\ UNCHANGED <<blocks, client>>
    BY <1>4 DEF ReadSentinel
  <2>2. /\ turn' \in Turn /\ CallsSame /\ CitesSame /\ turn'.phase = "storing" /\ turn'.reason = "error"
        /\ turn'.final = turn.final /\ turn'.refused = turn.refused /\ turn'.left = turn.left
        /\ turn'.awaited = turn.awaited
    BY <1>3, <2>1 DEF Turn, Phase, Reason, CallsSame, CitesSame
  <2>3. writer' \in Message
    BY <1>3, <2>1, ErrorFacts
  <2> QED
    BY <1>1, <1>2, <1>3, <1>4, <2>1, <2>2, <2>3
<1>5. CASE task = "done"
  <2>1. writer' = Unstreamed(writer) /\ client' = CloseBlocks(client)
    BY <1>5 DEF ReadSentinel
  <2>2. writer' \in Message /\ client' \in Client
    BY <1>2, <1>3, <1>5, <2>1, UnstreamedFacts, ClosingFacts
  <2>3. CASE ~sources
    <3>1. turn' = [turn EXCEPT !.phase = "storing", !.reason = "stop"] /\ blocks' = blocks
      BY <1>5, <2>3 DEF ReadSentinel
    <3>2. /\ turn' \in Turn /\ CallsSame /\ CitesSame /\ turn'.phase = "storing" /\ turn'.reason = "stop"
          /\ turn'.final = turn.final /\ turn'.refused = turn.refused /\ turn'.left = turn.left
          /\ turn'.awaited = turn.awaited
      BY <1>3, <3>1 DEF Turn, Phase, Reason, CallsSame, CitesSame
    <3> QED
      BY <1>1, <1>2, <1>3, <1>5, <2>1, <2>2, <3>1, <3>2
  <2>4. CASE sources
    <3>1. /\ blocks' = Waiting
          /\ turn' = [turn EXCEPT !.phase = "citing",
                                  !.awaited = {b \in DOMAIN blocks' : blocks'[b].at = "running"}]
      BY <1>5, <2>4 DEF ReadSentinel
    <3>2. blocks' \in Seq(Block)
      <4>1. CASE writer.text > Cursor
        <5>1. Cursor \in Nat
          <6>1. blocks # <<>> => Len(blocks) \in 1..Len(blocks)
            BY <1>3
          <6>2. blocks # <<>> => blocks[Len(blocks)] \in Block
            BY <1>3, <6>1
          <6> QED
            BY <6>2, ChatTurnAssumption DEF Cursor, Block
        <5>2. writer.text \in 1..MaxWords
          BY <1>3, <4>1, <5>1, ChatTurnAssumption DEF Message
        <5> QED
          BY <1>3, <3>1, <4>1, <5>2, BlockStarts DEF Waiting
      <4>2. CASE ~(writer.text > Cursor)
        BY <1>3, <3>1, <4>2 DEF Waiting
      <4> QED
        BY <4>1, <4>2
    <3>3. {b \in DOMAIN blocks' : blocks'[b].at = "running"} \in SUBSET Nat
      BY <3>2
    <3>4. /\ turn' \in Turn /\ CallsSame /\ CitesSame /\ turn'.phase = "citing" /\ turn'.reason = turn.reason
          /\ turn'.final = turn.final /\ turn'.refused = turn.refused /\ turn'.left = turn.left
          /\ turn'.awaited = {b \in DOMAIN blocks' : blocks'[b].at = "running"}
      BY <1>3, <3>1, <3>3 DEF Turn, Phase, CallsSame, CitesSame
    <3> QED
      BY <1>1, <1>2, <1>3, <1>5, <2>1, <2>2, <3>1, <3>2, <3>4
  <2> QED
    BY <2>3, <2>4
<1> QED
  BY <1>2, <1>4, <1>5

LEMMA BuildFacts ==
  ASSUME TypeOK, TurnInv, Build
  PROVE  /\ turn.phase = "building" /\ ModelSame /\ UNCHANGED <<queue, blocks, kept>>
         /\ turn' \in Turn /\ CallsSame /\ CitesSame /\ turn'.awaited = turn.awaited
         /\ turn'.final = turn.final /\ turn'.refused = turn.refused /\ turn'.left = turn.left
         /\ writer' \in Message /\ client' \in Client
         /\ \/ /\ turn'.phase = "reading" /\ turn'.reason = turn.reason
               /\ Kept(client, client')
               /\ writer' = [writer EXCEPT !.artifacts = writer.artifacts \cup {turn.tool}]
               /\ client'.message = [client.message EXCEPT !.artifacts = client.message.artifacts \cup {turn.tool}]
               /\ writer'.artifacts = writer.artifacts \cup {turn.tool}
               /\ client'.message.artifacts = client.message.artifacts \cup {turn.tool}
               /\ \A field \in {"text", "thought", "tool", "cites", "error"} :
                    writer'[field] = writer[field] /\ client'.message[field] = client.message[field]
            \/ turn'.phase = "reading" /\ turn'.reason = turn.reason /\ UNCHANGED <<writer, client>>
            \/ /\ turn'.phase = "storing" /\ turn'.reason = "error"
               /\ writer' = AddError(writer) /\ UNCHANGED client
<1>1. turn \in Turn /\ writer \in Message /\ client \in Client /\ client.message \in Message
  BY TypesUnfold
<1>2. turn.phase = "building" /\ ModelSame /\ UNCHANGED <<queue, blocks, kept>> /\ turn.tool \in Tool
  BY DEF Build, ModelSame, model, TurnInv, TurnFits
<1>3. CASE /\ writer' = [writer EXCEPT !.artifacts = @ \cup {turn.tool}]
           /\ client' = ArtifactParts(client, turn.tool)
           /\ turn' = [turn EXCEPT !.phase = "reading", !.tool = None]
  <2>1. /\ turn' \in Turn /\ CallsSame /\ CitesSame /\ turn'.awaited = turn.awaited
        /\ turn'.final = turn.final /\ turn'.refused = turn.refused /\ turn'.left = turn.left
        /\ turn'.phase = "reading" /\ turn'.reason = turn.reason
    BY <1>1, <1>3 DEF Turn, Phase, CallsSame, CitesSame
  <2>2. /\ client' \in Client /\ Kept(client, client')
        /\ client'.message = [client.message EXCEPT !.artifacts = client.message.artifacts \cup {turn.tool}]
    BY <1>1, <1>2, <1>3, ClientArtifactFacts
  <2>3. ASSUME NEW m \in Message, NEW n, n = [m EXCEPT !.artifacts = m.artifacts \cup {turn.tool}]
        PROVE  /\ n \in Message /\ n.artifacts = m.artifacts \cup {turn.tool}
               /\ \A field \in {"text", "thought", "tool", "cites", "error"} : n[field] = m[field]
    BY <1>2, <2>3 DEF Message
  <2> QED
    BY <1>1, <1>2, <1>3, <2>1, <2>2, <2>3
<1>4. CASE turn' = [turn EXCEPT !.phase = "reading", !.tool = None] /\ UNCHANGED <<writer, client>>
  <2>1. /\ turn' \in Turn /\ CallsSame /\ CitesSame /\ turn'.awaited = turn.awaited
        /\ turn'.final = turn.final /\ turn'.refused = turn.refused /\ turn'.left = turn.left
        /\ turn'.phase = "reading" /\ turn'.reason = turn.reason
    BY <1>1, <1>4 DEF Turn, Phase, CallsSame, CitesSame
  <2> QED
    BY <1>1, <1>2, <1>4, <2>1
<1>5. CASE /\ turn' = [turn EXCEPT !.phase = "storing", !.tool = None, !.reason = "error"]
           /\ writer' = AddError(writer) /\ UNCHANGED client
  <2>1. /\ turn' \in Turn /\ CallsSame /\ CitesSame /\ turn'.awaited = turn.awaited
        /\ turn'.final = turn.final /\ turn'.refused = turn.refused /\ turn'.left = turn.left
        /\ turn'.phase = "storing" /\ turn'.reason = "error"
    BY <1>1, <1>5 DEF Turn, Phase, Reason, CallsSame, CitesSame
  <2>2. writer' \in Message
    BY <1>1, <1>5, ErrorFacts
  <2> QED
    BY <1>1, <1>2, <1>5, <2>1, <2>2
<1> QED
  BY <1>3, <1>4, <1>5 DEF Build

LEMMA CiteFacts ==
  ASSUME TypeOK, Cite
  PROVE  /\ turn.phase = "citing" /\ ModelSame /\ UNCHANGED <<queue, writer, kept>>
         /\ turn' \in Turn /\ CallsSame /\ EndSame /\ turn'.awaited \subseteq DOMAIN blocks'
         /\ blocks' \in Seq(Block) /\ client' \in Client
         /\ \/ /\ turn'.phase = "placing" /\ turn'.cites = Cited /\ blocks' = CancelBlocks
               /\ UNCHANGED client
            \/ /\ turn'.phase = "citing" /\ CitesSame /\ client' = Partial /\ UNCHANGED blocks
<1>1. turn \in Turn /\ client \in Client /\ blocks \in Seq(Block) /\ turn.awaited \subseteq DOMAIN blocks
      /\ Cited \in Citations
  BY TypesUnfold, CitesAreCitations
<1>2. turn.phase = "citing" /\ ModelSame /\ UNCHANGED <<queue, writer, kept>>
  BY DEF Cite, ModelSame, model
<1>3. CASE /\ turn' = [turn EXCEPT !.phase = "placing", !.awaited = {}, !.cites = AllCited]
           /\ blocks' = CancelBlocks /\ UNCHANGED client
  <2>1. /\ turn' \in Turn /\ CallsSame /\ EndSame /\ turn'.awaited = {}
        /\ turn'.phase = "placing" /\ turn'.cites = Cited
    BY <1>1, <1>3 DEF Turn, Phase, CallsSame, EndSame, AllCited
  <2>2. blocks' \in Seq(Block)
    BY <1>1, <1>3, CancelFacts
  <2> QED
    BY <1>1, <1>2, <1>3, <2>1, <2>2
<1>4. CASE /\ turn' = [turn EXCEPT !.awaited = turn.awaited \cap Running]
           /\ client' = Partial /\ UNCHANGED blocks
  <2>1. /\ turn' \in Turn /\ CallsSame /\ EndSame /\ CitesSame
        /\ turn'.awaited = turn.awaited \cap Running /\ turn'.phase = turn.phase
    BY <1>1, <1>4 DEF Turn, CallsSame, EndSame, CitesSame
  <2>2. client' \in Client
    BY <1>4, PartialFacts DEF ClientKept
  <2> QED
    BY <1>1, <1>2, <1>4, <2>1, <2>2
<1> QED
  BY <1>3, <1>4 DEF Cite

LEMMA PlaceFacts ==
  ASSUME TypeOK, Place
  PROVE  /\ turn.phase = "placing" /\ ModelSame /\ UNCHANGED <<queue, blocks, kept>>
         /\ turn' \in Turn /\ CallsSame /\ turn'.awaited = turn.awaited
         /\ turn'.phase = "storing" /\ turn'.reason = "stop"
         /\ turn'.final = turn.final /\ turn'.refused = turn.refused /\ turn'.left = turn.left
         /\ \/ /\ CitesChanged(writer, writer') /\ writer'.cites = turn.cites
               /\ ClientKept(client, client') /\ CitesChanged(client.message, client'.message)
               /\ client'.message.cites = turn.cites
            \/ UNCHANGED <<writer, client>>
<1>1. turn \in Turn /\ client \in Client /\ writer \in Message
  BY TypesUnfold
<1>2. turn.phase = "placing" /\ ModelSame /\ UNCHANGED <<queue, blocks, kept>>
  BY DEF Place, ModelSame, model
<1>3. /\ turn' \in Turn /\ CallsSame /\ turn'.awaited = turn.awaited
      /\ turn'.phase = "storing" /\ turn'.reason = "stop"
      /\ turn'.final = turn.final /\ turn'.refused = turn.refused /\ turn'.left = turn.left
  <2>1. turn' = [turn EXCEPT !.phase = "storing", !.reason = "stop"]
    BY DEF Place
  <2> QED
    BY <1>1, <2>1 DEF Turn, Phase, Reason, CallsSame
<1>4. CASE UNCHANGED <<writer, client>>
  BY <1>2, <1>3, <1>4
<1>5. CASE /\ writer' = [writer EXCEPT !.cites = turn.cites]
           /\ client' = CitationsPart(client, turn.cites)
  <2>1. turn.cites \in Citations
    BY <1>1 DEF Turn
  <2>2. CitesChanged(writer, writer') /\ writer'.cites = turn.cites
    BY <1>1, <1>5, <2>1 DEF Message, CitesChanged
  <2> QED
    BY <1>1, <1>2, <1>3, <1>5, <2>1, <2>2, CitationsFacts
<1> QED
  BY <1>4, <1>5 DEF Place

\* The row is inserted with this reason, or nothing is stored.
StoredAs(reason) ==
    kept' = kept \/ (kept = None /\ kept' = [message |-> writer, reason |-> reason])

LEMMA InsertFacts ==
  ASSUME TypeOK, NEW reason \in Reason, Insert(reason) \/ UNCHANGED kept
  PROVE  /\ StoredAs(reason)
         /\ Insert(reason) => kept' # None
         /\ kept' \in Row \cup {None}
  BY InsertTypes, TypesUnfold, ChatTurnAssumption DEF Insert, StoredAs, TypeOK, Row

LEMMA BeginningFacts ==
  ASSUME TypeOK, Begin \/ Prepare \/ WarmUp \/ Launch
  PROVE  /\ UNCHANGED <<asked, words, thoughts, sources, queue, blocks, kept, client>>
         /\ turn' \in Turn /\ CallsSame /\ CitesSame /\ turn'.awaited = turn.awaited
         /\ turn'.final = turn.final /\ turn'.refused = turn.refused /\ turn'.left = turn.left
         /\ turn.phase \in {"idle", "preparing", "warming", "started"}
         /\ turn.phase # "started" => task' = task /\ turn'.phase \in {"preparing", "warming", "excusing", "started", "raised"}
         /\ turn.phase = "started" => turn'.phase \in {"reading", "storing"}
         /\ turn'.phase = "reading" => task' = "running"
         /\ turn'.phase = "storing" => task' = task
         /\ IF turn'.phase \in {"excusing", "storing"}
            THEN turn'.reason = "error" /\ writer' = AddError(writer)
            ELSE turn'.reason = turn.reason /\ writer' = writer
  BY TypesUnfold DEF Begin, Prepare, WarmUp, Launch, Go, model, Turn, Phase, Reason, CallsSame, CitesSame

LEMMA ExcuseFacts ==
  ASSUME TypeOK, Excuse
  PROVE  /\ turn.phase = "excusing" /\ ModelSame /\ UNCHANGED <<queue, blocks, writer>>
         /\ turn' \in Turn /\ CallsSame /\ CitesSame /\ turn'.awaited = turn.awaited
         /\ turn'.phase = "ended" /\ turn'.final /\ turn'.reason = turn.reason /\ turn'.left = turn.left
         /\ StoredAs("error") /\ kept' \in Row \cup {None} /\ (~turn'.refused => kept' # None)
         /\ client' \in Client /\ client'.message = AddError(client.message)
         /\ client'.finish = client.finish /\ client'.done = client.done + 1
         /\ client'.block # "open" /\ ~client'.thinking
         /\ client.done = 0 => client'.fault = client.fault
<1>1. turn \in Turn /\ client \in Client /\ "error" \in Reason
  BY TypesUnfold DEF Reason
<1>2. turn.phase = "excusing" /\ ModelSame /\ UNCHANGED <<queue, blocks, writer>>
  BY DEF Excuse, ModelSame, model
<1>3. PICK refused \in BOOLEAN :
        /\ IF refused THEN UNCHANGED kept ELSE Insert("error")
        /\ turn' = [turn EXCEPT !.phase = "ended", !.final = TRUE, !.refused = refused]
  BY DEF Excuse
<1>4. /\ turn' \in Turn /\ CallsSame /\ CitesSame /\ turn'.awaited = turn.awaited
      /\ turn'.phase = "ended" /\ turn'.final /\ turn'.reason = turn.reason /\ turn'.left = turn.left
      /\ turn'.refused = refused
  BY <1>1, <1>3 DEF Turn, Phase, CallsSame, CitesSame
<1>5. StoredAs("error") /\ kept' \in Row \cup {None} /\ (~refused => kept' # None)
  BY <1>1, <1>3, InsertFacts
<1> DEFINE c == ErrorPart(client)
<1>6. c \in Client /\ Kept(client, c) /\ c.message = AddError(client.message)
  BY <1>1, ClientErrorFacts
<1>7. client' = EndMarker(c)
  BY DEF Excuse, ErrorAnswer
<1> HIDE DEF c
<1>8. /\ client' \in Client /\ client'.message = c.message /\ client'.finish = c.finish
      /\ client'.done = c.done + 1 /\ client'.fault = (c.fault \/ c.done > 0)
      /\ client'.block # "open" /\ ~client'.thinking
  BY <1>6, <1>7, MarkerFacts
<1>9. client.fault \in BOOLEAN /\ c.fault \in BOOLEAN
  BY <1>1, <1>6 DEF Client
<1> QED
  BY <1>2, <1>4, <1>5, <1>6, <1>8, <1>9 DEF Kept

\* The client after the finally block began: it is sent the end if this is all.
Ended(c) == task # "running" /\ turn'.final /\ turn'.left = 0

LEMMA HaltFacts ==
  ASSUME TypeOK, NEW t \in Turn, NEW c \in Client, Halt(t, c)
  PROVE  /\ UNCHANGED <<asked, words, thoughts, sources, queue, writer>>
         /\ task' = (IF task = "running" THEN "stopping" ELSE task)
         /\ turn' \in Turn /\ turn'.awaited = {}
         /\ turn'.phase = (IF task = "running" THEN "stopping" ELSE IF t.final THEN "ended" ELSE "saving")
         /\ turn'.pending = t.pending /\ turn'.at = t.at /\ turn'.reason = t.reason
         /\ turn'.final = t.final /\ turn'.refused = t.refused /\ turn'.left = t.left
         /\ turn'.cites = t.cites
         /\ blocks' = CancelBlocks /\ blocks' \in Seq(Block)
         /\ client' \in Client /\ client'.message = c.message /\ client'.finish = c.finish
         /\ IF task # "running" /\ t.final /\ t.left = 0
            THEN /\ client'.done = c.done + 1 /\ client'.block # "open" /\ ~client'.thinking
                 /\ client'.fault = (c.fault \/ c.done > 0)
            ELSE client' = c
<1>1. client' = IF task # "running" /\ t.final /\ t.left = 0 THEN EndMarker(c) ELSE c
  BY DEF Halt
<1>2. /\ client' \in Client /\ client'.message = c.message /\ client'.finish = c.finish
      /\ IF task # "running" /\ t.final /\ t.left = 0
         THEN /\ client'.done = c.done + 1 /\ client'.block # "open" /\ ~client'.thinking
              /\ client'.fault = (c.fault \/ c.done > 0)
         ELSE client' = c
  BY <1>1, MarkerFacts
<1>3. task' = (IF task = "running" THEN "stopping" ELSE task) /\ blocks' = CancelBlocks
  BY DEF Halt
<1> QED
  BY <1>2, <1>3, HaltTypes

LEMMA StoreFacts ==
  ASSUME TypeOK, Store
  PROVE  /\ turn.phase = "storing" /\ UNCHANGED <<asked, words, thoughts, sources, queue, writer>>
         /\ turn' \in Turn /\ CallsSame /\ CitesSame /\ turn'.final /\ turn'.reason = turn.reason
         /\ turn'.left = turn.left /\ turn'.awaited \subseteq DOMAIN blocks'
         /\ StoredAs(turn.reason) /\ kept' \in Row \cup {None} /\ (~turn'.refused => kept' # None)
         /\ blocks' \in Seq(Block) /\ client' \in Client
         /\ \/ /\ turn.reason = "error"
               /\ task' = (IF task = "running" THEN "stopping" ELSE task)
               /\ turn'.phase = (IF task = "running" THEN "stopping" ELSE "ended")
               /\ blocks' = CancelBlocks
               /\ client'.message = AddError(client.message) /\ client'.finish = client.finish
               /\ client.done = 0 => client'.fault = client.fault
               /\ IF task # "running" /\ turn.left = 0
                  THEN client'.done = client.done + 1 /\ client'.block # "open" /\ ~client'.thinking
                  ELSE client'.done = client.done
            \/ /\ turn.reason # "error" /\ turn'.phase = "suggesting" /\ task' = task /\ blocks' = blocks
               /\ client'.message = client.message /\ client'.finish /\ client'.done = client.done
               /\ client.done = 0 => client'.fault = client.fault
<1>1. turn \in Turn /\ client \in Client /\ turn.reason \in Reason /\ blocks \in Seq(Block)
      /\ turn.awaited \subseteq DOMAIN blocks /\ client.fault \in BOOLEAN
  BY TypesUnfold DEF Turn, Client
<1>2. PICK refused \in BOOLEAN :
        /\ IF refused THEN UNCHANGED kept ELSE Insert(turn.reason)
        /\ LET t == [turn EXCEPT !.final = TRUE, !.refused = refused] IN
           IF turn.reason = "error"
           THEN Halt(t, ErrorPart(client))
           ELSE /\ turn' = [t EXCEPT !.phase = "suggesting"]
                /\ client' = FinishPart(client)
                /\ UNCHANGED <<model, queue, blocks, writer>>
  BY DEF Store
<1>3. StoredAs(turn.reason) /\ kept' \in Row \cup {None} /\ (~refused => kept' # None)
  BY <1>1, <1>2, InsertFacts
<1> DEFINE t == [turn EXCEPT !.final = TRUE, !.refused = refused]
<1>4. /\ t \in Turn /\ t.final /\ t.refused = refused /\ t.reason = turn.reason /\ t.left = turn.left
      /\ t.pending = turn.pending /\ t.at = turn.at /\ t.cites = turn.cites /\ t.awaited = turn.awaited
      /\ t.phase = turn.phase
  BY <1>1 DEF Turn
<1>5. turn.phase = "storing"
  BY DEF Store
<1>6. CASE turn.reason = "error"
  <2> DEFINE c == ErrorPart(client)
  <2>1. c \in Client /\ Kept(client, c) /\ c.message = AddError(client.message)
    BY <1>1, ClientErrorFacts
  <2>2. Halt(t, c)
    BY <1>2, <1>6
  <2> HIDE DEF t, c
  <2>3. /\ UNCHANGED <<asked, words, thoughts, sources, queue, writer>>
        /\ task' = (IF task = "running" THEN "stopping" ELSE task)
        /\ turn' \in Turn /\ turn'.awaited = {}
        /\ turn'.phase = (IF task = "running" THEN "stopping" ELSE "ended")
        /\ CallsSame /\ CitesSame /\ turn'.reason = turn.reason
        /\ turn'.final /\ turn'.refused = refused /\ turn'.left = turn.left
        /\ blocks' = CancelBlocks /\ blocks' \in Seq(Block)
        /\ client' \in Client /\ client'.message = c.message /\ client'.finish = c.finish
        /\ IF task # "running" /\ turn.left = 0
           THEN /\ client'.done = c.done + 1 /\ client'.block # "open" /\ ~client'.thinking
                /\ client'.fault = (c.fault \/ c.done > 0)
           ELSE client' = c
    BY <1>4, <2>1, <2>2, HaltFacts DEF CallsSame, CitesSame
  <2>4. c.fault \in BOOLEAN /\ c.done = client.done /\ c.finish = client.finish
        /\ (client.done = 0 => c.fault = client.fault)
    BY <1>1, <2>1 DEF Kept, Client
  <2> QED
    BY <1>3, <1>5, <1>6, <2>1, <2>3, <2>4
<1>7. CASE turn.reason # "error"
  <2>1. /\ turn' = [t EXCEPT !.phase = "suggesting"] /\ client' = FinishPart(client)
        /\ UNCHANGED <<model, queue, blocks, writer>>
    BY <1>2, <1>7
  <2> HIDE DEF t
  <2>2. /\ turn' \in Turn /\ turn'.final /\ turn'.refused = refused /\ turn'.reason = turn.reason
        /\ turn'.left = turn.left /\ CallsSame /\ CitesSame /\ turn'.awaited = turn.awaited
        /\ turn'.phase = "suggesting"
    BY <1>4, <2>1 DEF Turn, Phase, CallsSame, CitesSame
  <2>3. /\ client' \in Client /\ client'.message = client.message /\ client'.finish
        /\ client'.done = client.done /\ client'.fault = (client.fault \/ client.done > 0)
    BY <1>1, <2>1, FinishFacts
  <2> QED
    BY <1>1, <1>3, <1>5, <1>7, <2>1, <2>2, <2>3 DEF model
<1> QED
  BY <1>6, <1>7

\* The finally block after a step that stored nothing, or was left.
HaltedFrom(t) ==
    /\ UNCHANGED <<asked, words, thoughts, sources, queue, writer>>
    /\ task' = (IF task = "running" THEN "stopping" ELSE task)
    /\ turn' \in Turn /\ turn'.awaited = {} /\ CallsSame /\ CitesSame
    /\ turn'.phase = (IF task = "running" THEN "stopping" ELSE IF turn.final THEN "ended" ELSE "saving")
    /\ turn'.reason = turn.reason /\ turn'.final = turn.final /\ turn'.refused = turn.refused
    /\ turn'.left = t.left
    /\ blocks' = CancelBlocks /\ blocks' \in Seq(Block)
    /\ client' \in Client /\ client'.message = client.message /\ client'.finish = client.finish
    /\ client.done = 0 => client'.fault = client.fault
    /\ IF task # "running" /\ turn.final /\ t.left = 0
       THEN client'.done = client.done + 1 /\ client'.block # "open" /\ ~client'.thinking
       ELSE client'.done = client.done

LEMMA SuggestFacts ==
  ASSUME TypeOK, Suggest
  PROVE  turn.phase = "suggesting" /\ HaltedFrom(turn) /\ UNCHANGED kept
<1>1. turn \in Turn /\ client \in Client /\ Halt(turn, client) /\ client.fault \in BOOLEAN
  BY TypesUnfold DEF Suggest, Client
<1>2. turn.phase = "suggesting" /\ UNCHANGED kept
  BY DEF Suggest
<1> QED
  BY <1>1, <1>2, HaltFacts DEF HaltedFrom, CallsSame, CitesSame

LEMMA StoppedFacts ==
  ASSUME TypeOK, Stopped
  PROVE  /\ turn.phase = "stopping" /\ ModelSame /\ UNCHANGED <<queue, blocks, writer, kept>>
         /\ turn' \in Turn /\ CallsSame /\ CitesSame /\ EndSame /\ turn'.awaited = turn.awaited
         /\ turn'.phase = (IF turn.final THEN "ended" ELSE "saving")
         /\ client' \in Client /\ client'.message = client.message /\ client'.finish = client.finish
         /\ client.done = 0 => client'.fault = client.fault
         /\ IF turn.final /\ turn.left = 0
            THEN client'.done = client.done + 1 /\ client'.block # "open" /\ ~client'.thinking
            ELSE client'.done = client.done
<1>1. turn \in Turn /\ client \in Client /\ client.fault \in BOOLEAN
  BY TypesUnfold DEF Client
<1>2. /\ turn' \in Turn /\ CallsSame /\ CitesSame /\ EndSame /\ turn'.awaited = turn.awaited
      /\ turn'.phase = (IF turn.final THEN "ended" ELSE "saving")
  <2>1. AfterStop \in Phase /\ Go(AfterStop)
    BY DEF Stopped, AfterStop, Phase
  <2> QED
    BY <1>1, <2>1, GoFacts DEF AfterStop
<1>3. client' = IF turn.final /\ turn.left = 0 THEN EndMarker(client) ELSE client
  BY DEF Stopped
<1>4. turn.phase = "stopping" /\ ModelSame /\ UNCHANGED <<queue, blocks, writer, kept>>
  BY DEF Stopped, ModelSame, model
<1> QED
  BY <1>1, <1>2, <1>3, <1>4, MarkerFacts

LEMMA SaveFacts ==
  ASSUME TypeOK, Save
  PROVE  /\ turn.phase = "saving" /\ ModelSame /\ UNCHANGED <<queue, blocks, writer, client>>
         /\ turn' \in Turn /\ CallsSame /\ CitesSame /\ turn'.awaited = turn.awaited
         /\ turn'.phase = "ended" /\ turn'.final /\ turn'.reason = turn.reason /\ turn'.left = turn.left
         /\ StoredAs("cancelled") /\ kept' \in Row \cup {None} /\ (~turn'.refused => kept' # None)
<1>1. turn \in Turn /\ "cancelled" \in Reason /\ turn.refused \in BOOLEAN
  BY TypesUnfold DEF Turn, Reason
<1>2. PICK refused \in BOOLEAN :
        /\ IF refused THEN UNCHANGED kept ELSE Insert("cancelled")
        /\ turn' = [turn EXCEPT !.phase = "ended", !.final = TRUE, !.refused = @ \/ refused]
  BY DEF Save
<1>3. /\ turn' \in Turn /\ CallsSame /\ CitesSame /\ turn'.awaited = turn.awaited
      /\ turn'.phase = "ended" /\ turn'.final /\ turn'.reason = turn.reason /\ turn'.left = turn.left
      /\ turn'.refused = (turn.refused \/ refused)
  BY <1>1, <1>2 DEF Turn, Phase, CallsSame, CitesSame
<1>4. StoredAs("cancelled") /\ kept' \in Row \cup {None} /\ (~refused => kept' # None)
  BY <1>1, <1>2, InsertFacts
<1>5. turn.phase = "saving" /\ ModelSame /\ UNCHANGED <<queue, blocks, writer, client>>
  BY DEF Save, ModelSame, model
<1> QED
  BY <1>3, <1>4, <1>5

\* The client goes away: the turn is over at once, or the finally block runs.
LEMMA LeaveFacts ==
  ASSUME TypeOK, Leave
  PROVE  /\ turn.phase \in Going /\ kept' \in Row \cup {None}
         /\ turn' \in Turn /\ turn'.left = turn.left + 1 /\ turn'.left > 0
         /\ \/ /\ turn.phase \in {"preparing", "warming", "excusing", "stopping", "saving"}
               /\ ModelSame /\ UNCHANGED <<queue, blocks, writer, client>>
               /\ CallsSame /\ CitesSame /\ turn'.awaited = turn.awaited
               /\ turn'.reason = turn.reason /\ turn'.final = turn.final /\ turn'.refused = turn.refused
               /\ turn'.phase = CASE turn.phase = "stopping" -> (IF turn.final THEN "ended" ELSE "saving")
                                  [] turn.phase = "saving" -> "ended"
                                  [] OTHER -> "raised"
               /\ CASE turn.phase = "excusing" -> StoredAs("error")
                    [] turn.phase = "saving" -> StoredAs("cancelled")
                    [] OTHER -> UNCHANGED kept
            \/ /\ turn.phase \in {"started", "reading", "building", "citing", "placing", "storing", "suggesting"}
               /\ HaltedFrom(turn')
               /\ IF turn.phase = "storing" THEN StoredAs(turn.reason) ELSE UNCHANGED kept
<1> DEFINE t == [turn EXCEPT !.left = @ + 1]
<1>1. turn \in Turn /\ client \in Client /\ client.fault \in BOOLEAN /\ turn.left \in Nat
      /\ turn.reason \in Reason /\ {"error", "cancelled"} \subseteq Reason /\ kept \in Row \cup {None}
  BY TypesUnfold, ChatTurnAssumption DEF Turn, Client, Reason, TypeOK
<1>2. turn.phase \in Going /\ turn.left < MaxLeaves
  BY DEF Leave
<1>3. /\ t \in Turn /\ t.left = turn.left + 1 /\ t.left > 0 /\ t.phase = turn.phase
      /\ t.pending = turn.pending /\ t.at = turn.at /\ t.cites = turn.cites /\ t.awaited = turn.awaited
      /\ t.reason = turn.reason /\ t.final = turn.final /\ t.refused = turn.refused
  BY <1>1, <1>2, ChatTurnAssumption DEF Turn
<1>4. ASSUME NEW phase \in Phase, turn' = [t EXCEPT !.phase = phase]
      PROVE  /\ turn' \in Turn /\ turn'.left = turn.left + 1 /\ turn'.left > 0 /\ turn'.phase = phase
             /\ CallsSame /\ CitesSame /\ turn'.awaited = turn.awaited
             /\ turn'.reason = turn.reason /\ turn'.final = turn.final /\ turn'.refused = turn.refused
  <2> HIDE DEF t
  <2> QED
    BY <1>3, <1>4 DEF Turn, CallsSame, CitesSame
<1>5. {"raised", "ended", "saving", AfterStop} \subseteq Phase
  BY DEF Phase, AfterStop
<1>6. CASE turn.phase \in {"preparing", "warming"}
  <2>1. /\ turn' = [t EXCEPT !.phase = "raised"]
        /\ UNCHANGED <<model, queue, blocks, writer, kept, client>>
    BY <1>6 DEF Leave
  <2> HIDE DEF t
  <2> QED
    BY <1>1, <1>2, <1>4, <1>5, <1>6, <2>1 DEF model, ModelSame
<1>7. CASE turn.phase = "excusing"
  <2>1. /\ turn' = [t EXCEPT !.phase = "raised"] /\ (UNCHANGED kept \/ Insert("error"))
        /\ UNCHANGED <<model, queue, blocks, writer, client>>
    BY <1>7 DEF Leave
  <2>2. StoredAs("error") /\ kept' \in Row \cup {None}
    BY <1>1, <2>1, InsertFacts
  <2> HIDE DEF t
  <2> QED
    BY <1>1, <1>2, <1>4, <1>5, <1>7, <2>1, <2>2 DEF model, ModelSame
<1>8. CASE turn.phase = "stopping"
  <2>1. /\ turn' = [t EXCEPT !.phase = AfterStop]
        /\ UNCHANGED <<model, queue, blocks, writer, kept, client>>
    BY <1>8 DEF Leave
  <2> HIDE DEF t
  <2> QED
    BY <1>1, <1>2, <1>4, <1>5, <1>8, <2>1 DEF model, ModelSame, AfterStop
<1>9. CASE turn.phase = "saving"
  <2>1. /\ turn' = [t EXCEPT !.phase = "ended"] /\ (UNCHANGED kept \/ Insert("cancelled"))
        /\ UNCHANGED <<model, queue, blocks, writer, client>>
    BY <1>9 DEF Leave
  <2>2. StoredAs("cancelled") /\ kept' \in Row \cup {None}
    BY <1>1, <2>1, InsertFacts
  <2> HIDE DEF t
  <2> QED
    BY <1>1, <1>2, <1>4, <1>5, <1>9, <2>1, <2>2 DEF model, ModelSame
<1>10. CASE turn.phase \in {"started", "reading", "building", "citing", "placing", "storing", "suggesting"}
  <2>1. /\ Halt(t, client)
        /\ IF turn.phase = "storing" THEN UNCHANGED kept \/ Insert(turn.reason) ELSE UNCHANGED kept
    BY <1>10 DEF Leave
  <2> HIDE DEF t
  <2>2. /\ UNCHANGED <<asked, words, thoughts, sources, queue, writer>>
        /\ task' = (IF task = "running" THEN "stopping" ELSE task)
        /\ turn' \in Turn /\ turn'.awaited = {}
        /\ turn'.phase = (IF task = "running" THEN "stopping" ELSE IF t.final THEN "ended" ELSE "saving")
        /\ turn'.pending = t.pending /\ turn'.at = t.at /\ turn'.reason = t.reason
        /\ turn'.final = t.final /\ turn'.refused = t.refused /\ turn'.left = t.left
        /\ turn'.cites = t.cites
        /\ blocks' = CancelBlocks /\ blocks' \in Seq(Block) /\ client' = client
    BY <1>1, <1>3, <2>1, HaltFacts
  <2>3. turn'.left = turn.left + 1 /\ turn'.left > 0 /\ HaltedFrom(turn')
    BY <1>1, <1>3, <2>2 DEF HaltedFrom, CallsSame, CitesSame
  <2>4. IF turn.phase = "storing" THEN StoredAs(turn.reason) ELSE UNCHANGED kept
    BY <1>1, <2>1, InsertFacts
  <2>5. kept' \in Row \cup {None}
    BY <1>1, <2>1, InsertFacts
  <2> QED
    BY <1>2, <1>10, <2>2, <2>3, <2>4, <2>5
<1> QED
  BY <1>2, <1>6, <1>7, <1>8, <1>9, <1>10 DEF Going, Phase

-----------------------------------------------------------------------------
(* Types, continued. *)

LEMMA TypesHold ==
  ASSUME TypeOK, UNCHANGED <<asked, words, thoughts, sources>>,
         task' = task \/ task' \in {"running", "stopping"},
         queue' \in Seq(Item), turn' \in Turn, blocks' \in Seq(Block),
         turn'.awaited \subseteq DOMAIN blocks', writer' \in Message, client' \in Client,
         kept' \in Row \cup {None}
  PROVE  TypeOK'
  BY DEF TypeOK

LEMMA StreamTypes ==
  ASSUME TypeOK, TurnInv, Stream \/ Leave \/ \E b \in DOMAIN blocks : Ground(b)
  PROVE  TypeOK'
<1>0. /\ queue \in Seq(Item) /\ turn \in Turn /\ blocks \in Seq(Block) /\ writer \in Message
      /\ client \in Client /\ turn.awaited \subseteq DOMAIN blocks /\ kept \in Row \cup {None}
  BY TypesUnfold DEF TypeOK
<1>1. ASSUME NEW b \in DOMAIN blocks, Ground(b) PROVE TypeOK'
  <2>1. queue' \in Seq(Item)
    BY <1>0, <1>1, ItemFacts DEF Ground, Queued
  <2>2. blocks' \in Seq(Block) /\ DOMAIN blocks' = DOMAIN blocks
    <3>1. PICK at \in {"cited", "empty"} : blocks' = [blocks EXCEPT ![b].at = at]
      BY <1>1 DEF Ground
    <3>2. blocks[b] \in Block
      BY <1>0
    <3>3. [blocks[b] EXCEPT !.at = at] \in Block
      BY <3>2 DEF Block
    <3> QED
      BY <1>0, <3>1, <3>3
  <2>3. UNCHANGED <<task, asked, words, thoughts, sources, turn, writer, kept, client>>
    BY <1>1 DEF Ground, model
  <2> QED
    BY <1>0, <2>1, <2>2, <2>3, TypesHold
<1>2. CASE Begin \/ Prepare \/ WarmUp \/ Launch
  <2>1. writer' \in Message
    BY <1>0, <1>2, BeginningFacts, ErrorFacts
  <2>2. task' = task \/ task' = "running"
    BY <1>2 DEF Begin, Prepare, WarmUp, Launch, model
  <2> QED
    BY <1>0, <1>2, <2>1, <2>2, BeginningFacts, TypesHold
<1>3. CASE Excuse
  BY <1>0, <1>3, ExcuseFacts, TypesHold DEF ModelSame
<1>4. CASE ReadWord
  <2>1. blocks' \in Seq(Block) /\ DOMAIN blocks \subseteq DOMAIN blocks'
    BY <1>0, <1>4, ReadWordFacts, BlockStarts
  <2> QED
    BY <1>0, <1>4, <2>1, ReadWordFacts, TypesHold DEF ModelSame, ReadOff
<1>5. CASE ReadStart
  <2>1. writer' \in Message
    BY <1>5, ReadStartFacts DEF CallChanged
  <2> QED
    BY <1>0, <1>5, <2>1, ReadStartFacts, TypesHold DEF ModelSame, ReadOff
<1>6. CASE ReadFragment
  BY <1>0, <1>6, ReadFragmentFacts, TypesHold DEF ModelSame, ReadOff
<1>7. CASE ReadResult
  <2>1. writer' \in Message
    BY <1>7, ReadResultFacts DEF CallChanged
  <2> QED
    BY <1>0, <1>7, <2>1, ReadResultFacts, TypesHold DEF ModelSame, ReadOff
<1>8. CASE ReadCited
  BY <1>0, <1>8, ReadCitedFacts, PartialFacts, TypesHold DEF ModelSame, ReadOff, ClientKept
<1>9. CASE ReadSentinel
  BY <1>0, <1>9, ReadSentinelFacts, TypesHold DEF ModelSame, ReadOff
<1>10. CASE Build
  BY <1>0, <1>10, BuildFacts, TypesHold DEF ModelSame
<1>11. CASE Cite
  BY <1>0, <1>11, CiteFacts, TypesHold DEF ModelSame
<1>12. CASE Place
  BY <1>0, <1>12, PlaceFacts, TypesHold DEF ModelSame, CitesChanged, ClientKept
<1>13. CASE Store
  BY <1>0, <1>13, StoreFacts, TypesHold
<1>14. CASE Suggest
  BY <1>0, <1>14, SuggestFacts, TypesHold DEF HaltedFrom
<1>15. CASE Stopped
  BY <1>0, <1>15, StoppedFacts, TypesHold DEF ModelSame
<1>16. CASE Save
  BY <1>0, <1>16, SaveFacts, TypesHold DEF ModelSame
<1>17. CASE Leave
  BY <1>0, <1>17, LeaveFacts, TypesHold DEF ModelSame, HaltedFrom
<1> QED
  BY <1>1, <1>2, <1>3, <1>4, <1>5, <1>6, <1>7, <1>8, <1>9, <1>10, <1>11, <1>12, <1>13, <1>14,
     <1>15, <1>16, <1>17 DEF Stream

-----------------------------------------------------------------------------
(* What is in the queue: the chunks still to come, in their order. *)

QueueInv == Counted /\ SentinelIsLast /\ CallsInOrder

\* A call is begun and has its output as before.
SameCalls(m, n) == \A t \in Tool : n.tool[t].begun = m.tool[t].begun /\ n.tool[t].result = m.tool[t].result

LEMMA QueueStays ==
  ASSUME QueueInv, UNCHANGED <<queue, words, thoughts, asked>>,
         task' = task \/ task \in {"none", "running"},
         writer'.text = writer.text, writer'.thought = writer.thought, SameCalls(writer, writer')
  PROVE  QueueInv'
<1>1. Counted'
  BY DEF QueueInv, Counted, Places
<1>2. SentinelIsLast'
  BY DEF QueueInv, SentinelIsLast
<1>3. CallsInOrder'
  BY DEF QueueInv, CallsInOrder, CallFits, SameCalls, Of, Begun, OfCalls, Answers
<1> QED
  BY <1>1, <1>2, <1>3 DEF QueueInv

LEMMA QueueRead ==
  ASSUME TypeOK, QueueInv, queue # <<>>, queue' = Tail(queue), UNCHANGED <<task, asked, words, thoughts>>,
         writer'.text = writer.text + (IF Head(queue).kind \in Spoken THEN 1 ELSE 0),
         writer'.thought = writer.thought + (IF Head(queue).kind = "think" THEN 1 ELSE 0),
         \A t \in Tool : /\ writer'.tool[t].begun =
                              (writer.tool[t].begun \/ (Head(queue).kind = "start" /\ Head(queue).tool = t))
                         /\ \/ writer'.tool[t].result = writer.tool[t].result
                            \/ /\ asked[t] \notin {"no", "started", "asked"}
                               /\ \A i \in DOMAIN queue : i > 1 => ~Of(i, t)
  PROVE  QueueInv'
<1>1. queue \in Seq(Item) /\ writer.text \in Nat /\ writer.thought \in Nat
      /\ words \in Nat /\ thoughts \in Nat
  BY ChatTurnAssumption DEF TypeOK, Message
<1>2. /\ Head(queue) = queue[1] /\ 1 \in DOMAIN queue
      /\ \A i \in DOMAIN queue' : i + 1 \in DOMAIN queue /\ queue'[i] = queue[i + 1] /\ i \in Nat
      /\ \A i \in DOMAIN queue : i = 1 \/ (i - 1 \in DOMAIN queue' /\ queue'[i - 1] = queue[i])
      /\ \A i \in DOMAIN queue' : i + 1 > 1
      /\ \A i \in DOMAIN queue : i \in Nat
  BY <1>1
<1>3. Counted'
  <2>1. /\ Cardinality(Places(queue, Spoken))
             = Cardinality(Places(Tail(queue), Spoken)) + (IF Head(queue).kind \in Spoken THEN 1 ELSE 0)
        /\ Cardinality(Places(queue, {"think"}))
             = Cardinality(Places(Tail(queue), {"think"})) + (IF Head(queue).kind \in {"think"} THEN 1 ELSE 0)
    BY <1>1, TailCounts
  <2>2. /\ Cardinality(Places(Tail(queue), Spoken)) \in Nat
        /\ Cardinality(Places(Tail(queue), {"think"})) \in Nat
    BY <1>1, PlacesAreFinite, HeadIsItem
  <2>3. /\ Cardinality(Places(queue, Spoken)) + writer.text = words
        /\ Cardinality(Places(queue, {"think"})) + writer.thought = thoughts
    BY DEF QueueInv, Counted
  <2>4. /\ Cardinality(Places(Tail(queue), Spoken)) + writer'.text = words
        /\ Cardinality(Places(Tail(queue), {"think"})) + writer'.thought = thoughts
    <3> DEFINE said == IF Head(queue).kind \in Spoken THEN 1 ELSE 0
               mused == IF Head(queue).kind = "think" THEN 1 ELSE 0
               spoken == Cardinality(Places(Tail(queue), Spoken))
               thought == Cardinality(Places(Tail(queue), {"think"}))
    <3>1. /\ Cardinality(Places(queue, Spoken)) = spoken + said
          /\ Cardinality(Places(queue, {"think"})) = thought + mused
      <4>1. mused = IF Head(queue).kind \in {"think"} THEN 1 ELSE 0
        OBVIOUS
      <4> QED
        BY <2>1, <4>1
    <3>2. writer'.text = writer.text + said /\ writer'.thought = writer.thought + mused
      OBVIOUS
    <3>3. said \in Nat /\ mused \in Nat /\ spoken \in Nat /\ thought \in Nat
      BY <2>2
    <3> HIDE DEF said, mused, spoken, thought
    <3>4. spoken + writer'.text = words /\ thought + writer'.thought = thoughts
      <4>1. (spoken + said) + writer.text = words /\ (thought + mused) + writer.thought = thoughts
        BY <2>3, <3>1
      <4>2. spoken + (writer.text + said) = words
        BY <1>1, <3>3, <4>1
      <4>3. thought + (writer.thought + mused) = thoughts
        BY <1>1, <3>3, <4>1
      <4> QED
        BY <3>2, <4>2, <4>3
    <3> QED
      BY <3>4 DEF spoken, thought
  <2> QED
    BY <2>4 DEF Counted
<1>4. SentinelIsLast'
  BY <1>1, <1>2 DEF QueueInv, SentinelIsLast
<1>5. CallsInOrder'
  <2> SUFFICES ASSUME NEW t \in Tool PROVE CallFits(t)'
    BY DEF CallsInOrder
  <2> DEFINE head == Head(queue).kind = "start" /\ Head(queue).tool = t
  <2>1. /\ \A i \in DOMAIN queue' : Of(i, t)' = Of(i + 1, t)
        /\ \A i \in DOMAIN queue : i > 1 => Of(i - 1, t)' = Of(i, t)
        /\ head => Of(1, t)
    BY <1>1, <1>2 DEF Of, OfCalls
  <2>2. CallFits(t)
    BY DEF QueueInv, CallsInOrder
  <2>3. writer'.tool[t].begun = (writer.tool[t].begun \/ head)
    OBVIOUS
  <2>4. \/ writer'.tool[t].result = writer.tool[t].result
        \/ asked[t] \notin {"no", "started", "asked"} /\ \A i \in DOMAIN queue : i > 1 => ~Of(i, t)
    OBVIOUS
  <2>5. ~head => ~(queue[1].kind = "start" /\ Of(1, t))
    BY <1>2 DEF Of
  <2> HIDE DEF head
  <2>6. ASSUME NEW i \in DOMAIN queue', Of(i, t)'
        PROVE  /\ asked[t] # "no"
               /\ asked[t] \in {"started", "asked", "skipped"} => queue'[i].kind \notin Answers
               /\ queue'[i].kind = "start" => ~writer'.tool[t].begun
               /\ queue'[i].kind # "start" =>
                    \/ writer'.tool[t].begun
                    \/ \E j \in DOMAIN queue' : j < i /\ Of(j, t)' /\ queue'[j].kind = "start"
               /\ writer'.tool[t].result = "none"
    <3>1. i + 1 \in DOMAIN queue /\ Of(i + 1, t) /\ queue'[i] = queue[i + 1] /\ i + 1 > 1 /\ i \in Nat
      BY <1>2, <2>1, <2>6
    <3>2. asked[t] # "no" /\ writer'.tool[t].result = "none"
          /\ (asked[t] \in {"started", "asked", "skipped"} => queue'[i].kind \notin Answers)
      BY <2>2, <2>4, <3>1 DEF CallFits
    <3>3. ASSUME queue'[i].kind = "start" PROVE ~writer'.tool[t].begun
      <4>1. ~head
        BY <1>2, <2>1, <2>2, <3>1, <3>3 DEF CallFits
      <4> QED
        BY <2>2, <2>3, <3>1, <3>3, <4>1 DEF CallFits
    <3>4. ASSUME queue'[i].kind # "start", ~writer'.tool[t].begun
          PROVE  \E j \in DOMAIN queue' : j < i /\ Of(j, t)' /\ queue'[j].kind = "start"
      <4>1. ~writer.tool[t].begun /\ ~head
        BY <2>3, <3>4
      <4>2. PICK j \in DOMAIN queue : j < i + 1 /\ Of(j, t) /\ queue[j].kind = "start"
        BY <2>2, <3>1, <3>4, <4>1 DEF CallFits
      <4>3. j # 1
        BY <2>5, <4>1, <4>2
      <4>4. j - 1 \in DOMAIN queue' /\ queue'[j - 1] = queue[j] /\ j - 1 < i /\ j > 1
        BY <1>1, <1>2, <3>1, <4>2, <4>3
      <4>5. Of(j - 1, t)'
        BY <2>1, <4>2, <4>4
      <4> QED
        BY <4>2, <4>4, <4>5
    <3> QED
      BY <3>2, <3>3, <3>4
  <2>7. ASSUME NEW i \in DOMAIN queue', NEW j \in DOMAIN queue', i < j, Of(i, t)', Of(j, t)'
        PROVE  queue'[i].kind \notin Answers /\ queue'[j].kind # "start"
    <3>1. i + 1 \in DOMAIN queue /\ j + 1 \in DOMAIN queue /\ i + 1 < j + 1
          /\ queue'[i] = queue[i + 1] /\ queue'[j] = queue[j + 1]
      BY <1>2, <2>7
    <3> QED
      BY <2>1, <2>2, <2>7, <3>1 DEF CallFits
  <2>8. asked[t] = "no" <=> ~writer'.tool[t].begun /\ ~Begun(t)'
    <3>1. CASE head
      BY <1>2, <2>1, <2>2, <2>3, <3>1 DEF CallFits
    <3>2. CASE ~head
      <4>1. ASSUME Begun(t) PROVE Begun(t)'
        <5>1. PICK j \in DOMAIN queue : Of(j, t) /\ queue[j].kind = "start"
          BY <4>1 DEF Begun
        <5>2. j > 1
          BY <1>1, <2>5, <3>2, <5>1
        <5>3. j - 1 \in DOMAIN queue' /\ queue'[j - 1].kind = "start" /\ Of(j - 1, t)'
          BY <1>2, <2>1, <5>1, <5>2
        <5> QED
          BY <5>3 DEF Begun
      <4>2. ASSUME Begun(t)' PROVE Begun(t)
        BY <1>2, <2>1, <4>2 DEF Begun
      <4> QED
        BY <2>2, <2>3, <3>2, <4>1, <4>2 DEF CallFits
    <3> QED
      BY <3>1, <3>2
  <2>9. asked[t] \in {"no", "started", "asked"} => writer'.tool[t].result = "none"
    BY <2>2, <2>4 DEF CallFits
  <2> QED
    BY <2>6, <2>7, <2>8, <2>9 DEF CallFits
<1> QED
  BY <1>3, <1>4, <1>5 DEF QueueInv

LEMMA CountsGrow ==
  ASSUME TypeOK, Counted, NEW x \in Item, queue' = Append(queue, x), UNCHANGED writer,
         words' = words + (IF x.kind \in Spoken THEN 1 ELSE 0),
         thoughts' = thoughts + (IF x.kind = "think" THEN 1 ELSE 0)
  PROVE  Counted'
<1> DEFINE said == IF x.kind \in Spoken THEN 1 ELSE 0
           mused == IF x.kind = "think" THEN 1 ELSE 0
           spoken == Cardinality(Places(queue, Spoken))
           thought == Cardinality(Places(queue, {"think"}))
<1>1. queue \in Seq(Item) /\ writer.text \in Nat /\ writer.thought \in Nat
  BY ChatTurnAssumption DEF TypeOK, Message
<1>2. /\ spoken \in Nat /\ thought \in Nat /\ said \in Nat /\ mused \in Nat
      /\ spoken + writer.text = words /\ thought + writer.thought = thoughts
      /\ words' = words + said /\ thoughts' = thoughts + mused
  BY <1>1, PlacesAreFinite DEF Counted
<1>3. /\ Cardinality(Places(queue', Spoken)) = spoken + said
      /\ Cardinality(Places(queue', {"think"})) = thought + mused
  <2>1. mused = IF x.kind \in {"think"} THEN 1 ELSE 0
    OBVIOUS
  <2> QED
    BY <1>1, <2>1, AppendCounts
<1> HIDE DEF said, mused, spoken, thought
<1>4. (spoken + said) + writer.text = (spoken + writer.text) + said
  BY <1>1, <1>2
<1>5. (thought + mused) + writer.thought = (thought + writer.thought) + mused
  BY <1>1, <1>2
<1> QED
  BY <1>2, <1>3, <1>4, <1>5 DEF Counted

LEMMA SentinelStaysLast ==
  ASSUME TypeOK, SentinelIsLast, NEW x \in Item, queue' = Append(queue, x),
         \/ x.kind = "cited" /\ task' = task
         \/ x.kind # "sentinel" /\ task = "running" /\ task' = task
         \/ x.kind = "sentinel" /\ task \in {"running", "stopping"} /\ task' \in {"done", "failed", "cancelled"}
  PROVE  SentinelIsLast'
<1>1. /\ DOMAIN queue' = DOMAIN queue \cup {Len(queue) + 1} /\ queue'[Len(queue) + 1] = x
      /\ \A i \in DOMAIN queue : queue'[i] = queue[i] /\ i # Len(queue) + 1 /\ i \in Nat /\ i < Len(queue) + 1
      /\ Len(queue) \in Nat
  BY DEF TypeOK
<1>2. ASSUME NEW i \in DOMAIN queue', NEW j \in DOMAIN queue', i < j, queue'[i].kind = "sentinel"
      PROVE  queue'[j].kind = "cited"
  <2>1. i \in DOMAIN queue /\ queue[i].kind = "sentinel"
    BY <1>1, <1>2
  <2> QED
    BY <1>1, <1>2, <2>1 DEF SentinelIsLast
<1>3. task' \in {"none", "running", "stopping"} => \A i \in DOMAIN queue' : queue'[i].kind # "sentinel"
  BY <1>1 DEF SentinelIsLast
<1> QED
  BY <1>2, <1>3 DEF SentinelIsLast

LEMMA CallsStayInOrder ==
  ASSUME TypeOK, CallsInOrder, NEW x \in Item, queue' = Append(queue, x), x.kind \notin OfCalls,
         UNCHANGED <<asked, writer>>
  PROVE  CallsInOrder'
<1>1. /\ DOMAIN queue' = DOMAIN queue \cup {Len(queue) + 1} /\ queue'[Len(queue) + 1] = x
      /\ \A i \in DOMAIN queue : queue'[i] = queue[i]
  BY DEF TypeOK
<1>2. \A t \in Tool, i \in DOMAIN queue' : Of(i, t)' => i \in DOMAIN queue /\ Of(i, t)
  BY <1>1 DEF Of
<1>3. \A t \in Tool, i \in DOMAIN queue : Of(i, t) => i \in DOMAIN queue' /\ Of(i, t)'
  BY <1>1 DEF Of
<1>4. \A t \in Tool : Begun(t)' = Begun(t)
  BY <1>1, <1>2, <1>3 DEF Begun
<1> SUFFICES ASSUME NEW t \in Tool PROVE CallFits(t)'
  BY DEF CallsInOrder
<1>5. CallFits(t)
  BY DEF CallsInOrder
<1> QED
  BY <1>1, <1>2, <1>3, <1>4, <1>5 DEF CallFits

LEMMA CallToolOrder ==
  ASSUME TypeOK, CallsInOrder, NEW t \in Tool, CallTool(t)
  PROVE  CallsInOrder'
<1>1. /\ UNCHANGED writer /\ asked' \in [Tool -> {"no", "started", "asked", "ok", "failed", "skipped"}]
      /\ \A u \in Tool \ {t} : asked'[u] = asked[u]
      /\ queue \in Seq(Item) /\ Len(queue) \in Nat
  <2>1. queue \in Seq(Item) /\ asked \in [Tool -> {"no", "started", "asked", "ok", "failed", "skipped"}]
    BY DEF TypeOK
  <2>2. Len(queue) \in Nat
    BY <2>1
  <2>3. /\ UNCHANGED writer
        /\ \E next \in {"started", "asked", "ok", "failed"} : asked' = [asked EXCEPT ![t] = next]
    BY DEF CallTool
  <2> QED
    BY <2>1, <2>2, <2>3
<1>2. \/ /\ asked[t] = "no" /\ asked'[t] = "started" /\ queue' = Append(queue, [kind |-> "start", tool |-> t])
      \/ /\ asked[t] = "started" /\ asked'[t] = "asked" /\ queue' = Append(queue, [kind |-> "fragment", tool |-> t])
      \/ asked[t] = "started" /\ asked'[t] = "asked" /\ queue' = queue
      \/ /\ asked[t] = "asked" /\ asked'[t] \in {"ok", "failed"}
         /\ \E kind \in Answers : queue' = Append(queue, [kind |-> kind, tool |-> t])
  BY DEF CallTool, Queued, TypeOK, Answers
<1>3. CASE queue' = queue
  <2>1. /\ \A i \in DOMAIN queue, u \in Tool : Of(i, u)' <=> Of(i, u)
        /\ \A u \in Tool : Begun(u)' <=> Begun(u)
    BY <1>3 DEF Of, Begun
  <2>2. \A x : Append(queue, x) # queue
    <3>1. \A x : Len(Append(queue, x)) = Len(queue) + 1
      BY <1>1
    <3> QED
      BY <1>1, <3>1
  <2>3. asked[t] = "started" /\ asked'[t] = "asked"
    BY <1>2, <1>3, <2>2
  <2>4. ASSUME NEW u \in Tool PROVE CallFits(u)'
    <3>1. CallFits(u)
      BY DEF CallsInOrder
    <3>2. asked'[u] = asked[u] \/ (asked[u] = "started" /\ asked'[u] = "asked")
      BY <1>1, <2>3
    <3> QED
      BY <1>1, <1>3, <2>1, <3>1, <3>2 DEF CallFits
  <2> QED
    BY <2>4 DEF CallsInOrder
<1>4. ASSUME NEW kind \in OfCalls, queue' = Append(queue, [kind |-> kind, tool |-> t]),
             \/ kind = "start" /\ asked[t] = "no" /\ asked'[t] = "started"
             \/ kind = "fragment" /\ asked[t] = "started" /\ asked'[t] = "asked"
             \/ kind \in Answers /\ asked[t] = "asked" /\ asked'[t] \in {"ok", "failed"}
      PROVE  CallsInOrder'
  <2>1. PICK n \in Nat :
          /\ DOMAIN queue' = DOMAIN queue \cup {n} /\ queue'[n] = [kind |-> kind, tool |-> t]
          /\ \A i \in DOMAIN queue : queue'[i] = queue[i] /\ i < n /\ ~(n < i) /\ i # n
          /\ ~(n < n)
    <3>1. /\ Len(queue) + 1 \in Nat /\ DOMAIN queue' = DOMAIN queue \cup {Len(queue) + 1}
          /\ queue'[Len(queue) + 1] = [kind |-> kind, tool |-> t]
      BY <1>1, <1>4
    <3>2. \A i \in DOMAIN queue :
            queue'[i] = queue[i] /\ i < Len(queue) + 1 /\ ~(Len(queue) + 1 < i) /\ i # Len(queue) + 1
      BY <1>1, <1>4
    <3>3. ~(Len(queue) + 1 < Len(queue) + 1)
      BY <1>1
    <3> QED
      BY <3>1, <3>2, <3>3
  <2>2. queue'[n].kind = kind /\ queue'[n].tool = t
    BY <2>1
  <2>3. \A u \in Tool, i \in DOMAIN queue : Of(i, u)' = Of(i, u) /\ queue'[i].kind = queue[i].kind
    BY <2>1 DEF Of
  <2>4. \A u \in Tool : Of(n, u)' = (u = t)
    BY <2>2 DEF Of
  <2>5. CallsInOrder
    OBVIOUS
  <2>6. ASSUME NEW u \in Tool \ {t} PROVE CallFits(u)'
    <3>1. \A i \in DOMAIN queue' : Of(i, u)' => i \in DOMAIN queue /\ Of(i, u)
      BY <2>1, <2>3, <2>4
    <3>2. Begun(u)' <=> Begun(u)
      BY <2>1, <2>3, <3>1 DEF Begun
    <3> QED
      BY <1>1, <2>1, <2>3, <2>5, <3>1, <3>2 DEF CallsInOrder, CallFits
  <2>7. CallFits(t)'
    <3>1. /\ \A i \in DOMAIN queue : Of(i, t) =>
               /\ asked[t] # "no"
               /\ queue[i].kind \notin Answers
               /\ queue[i].kind = "start" => ~writer.tool[t].begun
               /\ queue[i].kind # "start" =>
                    writer.tool[t].begun \/ \E j \in DOMAIN queue : j < i /\ Of(j, t) /\ queue[j].kind = "start"
          /\ \A i \in DOMAIN queue, j \in DOMAIN queue : i < j /\ Of(i, t) /\ Of(j, t) =>
               queue[j].kind # "start"
          /\ asked[t] = "no" <=> ~writer.tool[t].begun /\ ~Begun(t)
          /\ writer.tool[t].result = "none"
      BY <1>4, <2>5 DEF CallsInOrder, CallFits
    <3>2. CASE kind = "start"
      <4>1. ~writer.tool[t].begun /\ \A i \in DOMAIN queue : ~Of(i, t)
        BY <1>4, <3>1, <3>2 DEF Answers
      <4>2. Begun(t)' /\ asked'[t] = "started" /\ "start" \notin Answers
        BY <1>4, <2>1, <2>2, <2>4, <3>2 DEF Begun, Answers
      <4> QED
        BY <1>1, <2>1, <2>2, <2>3, <2>4, <3>1, <3>2, <4>1, <4>2 DEF CallFits
    <3>3. CASE kind # "start"
      <4>1. writer.tool[t].begun \/ Begun(t)
        BY <1>4, <3>1, <3>3
      <4>2. Begun(t)' = Begun(t)
        BY <2>1, <2>2, <2>3, <2>4, <3>3 DEF Begun
      <4>3. asked'[t] # "no" /\ (asked'[t] \in {"started", "asked", "skipped"} => kind \notin Answers)
        BY <1>4, <3>3 DEF Answers
      <4>4. \A i \in DOMAIN queue' : Of(i, t)' =>
              /\ asked'[t] # "no"
              /\ asked'[t] \in {"started", "asked", "skipped"} => queue'[i].kind \notin Answers
              /\ queue'[i].kind = "start" => ~writer'.tool[t].begun
              /\ writer'.tool[t].result = "none"
        BY <1>1, <2>1, <2>2, <2>3, <3>1, <3>3, <4>3
      <4>5. \A i \in DOMAIN queue' : Of(i, t)' /\ queue'[i].kind # "start" /\ ~writer'.tool[t].begun =>
              \E j \in DOMAIN queue' : j < i /\ Of(j, t)' /\ queue'[j].kind = "start"
        <5> SUFFICES ASSUME NEW i \in DOMAIN queue', Of(i, t)', queue'[i].kind # "start", ~writer'.tool[t].begun
                     PROVE  \E j \in DOMAIN queue : j < i /\ Of(j, t) /\ queue[j].kind = "start"
          BY <2>1, <2>3
        <5> QED
          BY <1>1, <2>1, <2>3, <3>1, <4>1 DEF Begun
      <4>6. \A i \in DOMAIN queue', j \in DOMAIN queue' : i < j /\ Of(i, t)' /\ Of(j, t)' =>
              queue'[i].kind \notin Answers /\ queue'[j].kind # "start"
        BY <2>1, <2>2, <2>3, <3>1, <3>3
      <4>7. /\ asked'[t] = "no" <=> ~writer'.tool[t].begun /\ ~Begun(t)'
            /\ writer'.tool[t].result = "none"
        BY <1>1, <3>1, <4>1, <4>2, <4>3
      <4> QED
        BY <4>4, <4>5, <4>6, <4>7 DEF CallFits
    <3> QED
      BY <3>2, <3>3
  <2> QED
    BY <2>6, <2>7 DEF CallsInOrder
<1> QED
  BY <1>2, <1>3, <1>4 DEF OfCalls, Answers

-----------------------------------------------------------------------------
(* The invariant holds in every step. *)

LEMMA ModelHolds ==
  ASSUME TypeOK, TurnInv,
         \/ \E kind \in Word : Say(kind)
         \/ \E t \in Tool : CallTool(t) \/ SkipTool(t)
         \/ TaskEnds
  PROVE  TurnInv'
<1>1. UNCHANGED <<turn, blocks, writer, kept, client>>
  BY DEF Say, CallTool, SkipTool, TaskEnds
<1>2. TurnFits' /\ ClientFits' /\ CitesFit' /\ OwnIndex'
  BY <1>1 DEF TurnInv, TurnFits, ClientFits, CallsMatch, CallMatches, EndsFit, CitesFit, OwnIndex, Cited
<1>3. ASSUME NEW kind \in Word, Say(kind) PROVE TurnInv'
  <2>1. /\ task = "running" /\ task' = task /\ asked' = asked /\ [kind |-> kind] \in Item
        /\ queue' = Append(queue, [kind |-> kind])
        /\ words' = words + (IF kind \in Spoken THEN 1 ELSE 0)
        /\ thoughts' = thoughts + (IF kind = "think" THEN 1 ELSE 0)
    BY <1>3, ItemFacts DEF Say, Queued, Word, Spoken
  <2>2. kind \notin OfCalls /\ kind # "sentinel"
    BY DEF Word, OfCalls, Answers
  <2>3. Counted' /\ SentinelIsLast' /\ CallsInOrder'
    BY <1>1, <2>1, <2>2, CountsGrow, SentinelStaysLast, CallsStayInOrder DEF TurnInv
  <2>4. TasksFit'
    BY <1>1, <2>1 DEF TurnInv, TasksFit, Running
  <2> QED
    BY <1>2, <2>3, <2>4 DEF TurnInv
<1>4. ASSUME NEW t \in Tool, CallTool(t) PROVE TurnInv'
  <2>1. task = "running" /\ UNCHANGED <<task, words, thoughts>>
    BY <1>4 DEF CallTool
  <2>2. \/ queue' = queue
        \/ \E x \in Item : queue' = Append(queue, x) /\ x.kind \in OfCalls
    BY <1>4, ItemFacts DEF CallTool, Queued, OfCalls, Answers
  <2>3. Counted' /\ SentinelIsLast'
    <3>1. CASE queue' = queue
      BY <1>1, <2>1, <3>1 DEF TurnInv, Counted, SentinelIsLast, Places
    <3>2. ASSUME NEW x \in Item, queue' = Append(queue, x), x.kind \in OfCalls
          PROVE  Counted' /\ SentinelIsLast'
      <4>1. /\ x.kind \notin Spoken /\ x.kind # "think" /\ x.kind # "sentinel"
            /\ words \in Nat /\ thoughts \in Nat
        BY <3>2, ChatTurnAssumption DEF OfCalls, Answers, Spoken, TypeOK
      <4>2. words' = words + 0 /\ thoughts' = thoughts + 0
        BY <2>1, <4>1
      <4> QED
        BY <1>1, <2>1, <3>2, <4>1, <4>2, CountsGrow, SentinelStaysLast DEF TurnInv
    <3> QED
      BY <2>2, <3>1, <3>2
  <2>4. CallsInOrder'
    BY <1>4, CallToolOrder DEF TurnInv
  <2>5. TasksFit'
    BY <1>1, <2>1 DEF TurnInv, TasksFit, Running
  <2> QED
    BY <1>2, <2>3, <2>4, <2>5 DEF TurnInv
<1>5. ASSUME NEW t \in Tool, SkipTool(t) PROVE TurnInv'
  <2>1. task = "running" /\ UNCHANGED <<task, words, thoughts, queue>>
        /\ asked[t] = "asked" /\ asked' = [asked EXCEPT ![t] = "skipped"]
    BY <1>5 DEF SkipTool
  <2>2. Counted' /\ SentinelIsLast'
    BY <1>1, <2>1 DEF TurnInv, Counted, SentinelIsLast, Places
  <2>3. CallsInOrder'
    <3>1. asked'[t] = "skipped" /\ \A u \in Tool \ {t} : asked'[u] = asked[u]
      BY <2>1 DEF TypeOK
    <3> SUFFICES ASSUME NEW u \in Tool PROVE CallFits(u)'
      BY DEF CallsInOrder
    <3>2. CallFits(u)
      BY DEF TurnInv, CallsInOrder
    <3> QED
      BY <1>1, <2>1, <3>1, <3>2 DEF CallFits, Of, Begun
  <2>4. TasksFit'
    BY <1>1, <2>1 DEF TurnInv, TasksFit, Running
  <2> QED
    BY <1>2, <2>2, <2>3, <2>4 DEF TurnInv
<1>6. ASSUME TaskEnds PROVE TurnInv'
  <2> DEFINE x == [kind |-> "sentinel"]
  <2>1. /\ \/ /\ task = "running" /\ task' \in {"done", "failed"}
              /\ task' = "done" => \A t \in Tool : asked[t] \notin {"started", "asked"}
           \/ task = "stopping" /\ task' = "cancelled"
        /\ queue' = Append(queue, x) /\ x \in Item /\ UNCHANGED <<asked, words, thoughts>>
        /\ words \in Nat /\ thoughts \in Nat
    BY <1>6, ItemFacts, ChatTurnAssumption DEF TaskEnds, SentinelLast, TypeOK
  <2>2. x.kind \notin Spoken /\ x.kind # "think" /\ x.kind = "sentinel" /\ x.kind \notin OfCalls
    BY DEF Spoken, OfCalls, Answers
  <2>3. words' = words + 0 /\ thoughts' = thoughts + 0
    BY <2>1
  <2> HIDE DEF x
  <2>4. Counted' /\ SentinelIsLast' /\ CallsInOrder'
    BY <1>1, <2>1, <2>2, <2>3, CountsGrow, SentinelStaysLast, CallsStayInOrder DEF TurnInv
  <2>5. TasksFit'
    BY <1>1, <2>1 DEF TurnInv, TasksFit, Running
  <2> QED
    BY <1>2, <2>4, <2>5 DEF TurnInv
<1> QED
  BY <1>3, <1>4, <1>5, <1>6

\* A block that ends keeps its place, and those cited stay so.
LEMMA GroundCites ==
  ASSUME TypeOK, NEW b \in DOMAIN blocks, Ground(b)
  PROVE  Cited \subseteq Cited' /\ Running' \subseteq Running /\ b \in Running
<1>1. PICK at \in {"cited", "empty"} : blocks' = [blocks EXCEPT ![b].at = at]
  BY DEF Ground
<1>2. b \in Running /\ blocks[b].at = "running"
  BY DEF Ground, Running
<1>3. /\ DOMAIN blocks' = DOMAIN blocks
      /\ \A k \in DOMAIN blocks : k # b => blocks'[k] = blocks[k]
      /\ blocks'[b].at # "running"
  <2>1. blocks[b] \in Block /\ blocks \in Seq(Block)
    BY DEF TypeOK
  <2> QED
    BY <1>1, <2>1 DEF Block
<1>4. Running' \subseteq Running
  BY <1>3 DEF Running
<1>5. Cited \subseteq Cited'
  BY <1>2, <1>3 DEF Cited
<1> QED
  BY <1>2, <1>4, <1>5

LEMMA GroundHolds ==
  ASSUME TypeOK, TurnInv, NEW b \in DOMAIN blocks, Ground(b)
  PROVE  TurnInv'
<1> DEFINE x == [kind |-> "cited"]
<1>1. /\ UNCHANGED <<task, asked, words, thoughts, turn, writer, kept, client>>
      /\ queue' = Append(queue, x) /\ x \in Item /\ words \in Nat /\ thoughts \in Nat
  BY ItemFacts, ChatTurnAssumption DEF Ground, model, Queued, TypeOK
<1>2. x.kind \notin Spoken /\ x.kind # "think" /\ x.kind = "cited" /\ x.kind \notin OfCalls
  BY DEF Spoken, OfCalls, Answers
<1>3. words' = words + 0 /\ thoughts' = thoughts + 0
  BY <1>1
<1> HIDE DEF x
<1>4. Counted' /\ SentinelIsLast' /\ CallsInOrder'
  BY <1>1, <1>2, <1>3, CountsGrow, SentinelStaysLast, CallsStayInOrder DEF TurnInv
<1>5. TurnFits' /\ ClientFits' /\ OwnIndex'
  BY <1>1 DEF TurnInv, TurnFits, ClientFits, CallsMatch, CallMatches, EndsFit, OwnIndex
<1>6. Cited \subseteq Cited' /\ Running' \subseteq Running /\ b \in Running /\ blocks # <<>>
  BY GroundCites
<1>7. TasksFit'
  BY <1>1, <1>6 DEF TurnInv, TasksFit, Whole
<1>8. CitesFit'
  BY <1>1, <1>6 DEF TurnInv, CitesFit
<1> QED
  BY <1>4, <1>5, <1>7, <1>8 DEF TurnInv

LEMMA Unfolded ==
  ASSUME TurnInv
  PROVE  QueueInv /\ TasksFit /\ TurnFits /\ ClientFits /\ CitesFit /\ OwnIndex
  BY DEF TurnInv, QueueInv

LEMMA Folded ==
  ASSUME QueueInv', TasksFit', TurnFits', ClientFits', CitesFit', OwnIndex'
  PROVE  TurnInv'
  BY DEF TurnInv, QueueInv

\* Only the error is added to the message.
Excused(m, n) ==
    /\ n.text = m.text /\ n.thought = m.thought /\ n.tool = m.tool
    /\ n.cites = m.cites /\ n.artifacts = m.artifacts

\* Until the message is stored, its stream has no end yet.
LEMMA EndsStay ==
  ASSUME EndsFit, turn.left = 0, turn'.left = 0, turn.reason = "cancelled",
         turn.phase \notin {"ended", "storing"}, turn'.phase # "ended",
         \/ turn'.reason = "cancelled"
         \/ turn'.reason = "error" /\ turn'.phase \in {"storing", "excusing"}
         \/ turn'.reason = "stop" /\ turn'.phase = "storing",
         client'.message.error = client.message.error,
         client'.finish = client.finish, client'.done = client.done, ~client'.fault
  PROVE  EndsFit'
<1>1. client.message.error = FALSE /\ client.finish = FALSE /\ client.done = 0
  BY DEF EndsFit
<1> QED
  BY <1>1 DEF EndsFit

LEMMA NothingShownYet ==
  ASSUME TypeOK, TurnInv, turn.phase \in Before
  PROVE  /\ turn.left = 0 /\ turn.reason = "cancelled" /\ kept = None /\ turn.final = FALSE
         /\ client.done = 0 /\ client.fault = FALSE /\ client.message.error = FALSE /\ client.finish = FALSE
  BY Unfolded DEF TypeOK, Client, TurnFits, ClientFits, EndsFit, Open, Before

LEMMA BeginningHolds ==
  ASSUME TypeOK, TurnInv, Begin \/ Prepare \/ WarmUp \/ Launch
  PROVE  TurnInv'
<1> USE BeginningFacts, Unfolded, Folded
<1>1. Excused(writer, writer') /\ (writer'.error = (turn'.reason = "error"))
  BY TypesUnfold, ErrorFacts DEF Excused, TurnFits
<1>2. /\ task' = task \/ task = "none"
      /\ turn'.phase \in {"preparing", "warming", "excusing", "started", "raised"} => task' = task
      /\ turn.phase \in Fresh \cap Open /\ turn.phase \in Before
      /\ turn'.phase \notin {"idle", "building", "citing", "placing", "suggesting", "stopping", "saving", "ended"}
  BY DEF TasksFit, Fresh, Open, Before
<1>3. QueueInv'
  BY <1>1, <1>2, QueueStays DEF Excused, SameCalls
<1>4. TasksFit'
  BY <1>1, <1>2 DEF TasksFit, Fresh, Running, Excused, TurnFits, Before
<1>5. TurnFits'
  BY <1>1, <1>2 DEF TurnFits, Open, Before, Excused
<1>6. ClientFits'
  <2>1. ClientFits /\ TurnFits /\ client' = client
    OBVIOUS
  <2>2. CallsMatch'
    BY <1>1, <1>2, <2>1 DEF ClientFits, CallsMatch, CallMatches, Excused, CallsSame, ToRead, Before
  <2>3. /\ turn'.left = 0 /\ turn.left = 0 /\ turn.reason = "cancelled" /\ turn'.phase # "ended"
        /\ turn'.reason = "error" => turn'.phase \in {"storing", "excusing"}
        /\ turn'.reason # "stop" /\ turn.phase \notin {"storing", "excusing", "ended"}
    BY <1>2, <2>1 DEF TurnFits, Open, Before
  <2>4. EndsFit'
    BY <2>1, <2>3 DEF ClientFits, EndsFit
  <2> QED
    BY <1>1, <2>1, <2>2, <2>4 DEF ClientFits, Excused
<1>7. CitesFit'
  BY <1>1, <1>2 DEF CitesFit, Before, Excused, Cited
<1>8. OwnIndex'
  BY DEF OwnIndex, CallsSame
<1> QED
  BY <1>3, <1>4, <1>5, <1>6, <1>7, <1>8

LEMMA ExcuseHolds ==
  ASSUME TypeOK, TurnInv, Excuse
  PROVE  TurnInv'
<1> USE ExcuseFacts, Unfolded, Folded
<1>1. /\ client'.message.error /\ Excused(client.message, client'.message)
      /\ client.done = 0 /\ turn.reason = "error" /\ turn.left = 0 /\ kept = None /\ ~turn.final
  <2>1. client.message \in Message /\ turn.phase = "excusing"
    BY TypesUnfold
  <2>2. client'.message.error /\ Excused(client.message, client'.message)
    BY <2>1, ErrorFacts DEF Excused
  <2> QED
    BY <2>1, <2>2 DEF TurnFits, Open, ClientFits, EndsFit
<1>2. QueueInv'
  BY QueueStays DEF SameCalls, ModelSame
<1>3. TasksFit'
  BY DEF TasksFit, Fresh, Running, ModelSame, TurnFits
<1>4. TurnFits'
  BY <1>1, ChatTurnAssumption DEF TurnFits, Open, Before, StoredAs
<1>5. ClientFits'
  <2>1. ClientFits /\ writer' = writer /\ turn.phase = "excusing"
    OBVIOUS
  <2>2. CallsMatch'
    BY <1>1, <2>1 DEF ClientFits, CallsMatch, CallMatches, Excused, CallsSame, ToRead, Before
  <2>3. client'.done = 1 /\ client'.finish = FALSE /\ client'.message.error = TRUE /\ client'.fault = FALSE
    <3>1. client.finish = FALSE /\ client.fault = FALSE
      BY <1>1, <2>1, TypesUnfold DEF ClientFits, EndsFit, Client
    <3> QED
      BY <1>1, <2>1, <3>1, TypesUnfold, ErrorFacts
  <2>4. EndsFit'
    BY <1>1, <2>1, <2>3 DEF EndsFit
  <2> QED
    BY <1>1, <2>1, <2>2, <2>4 DEF ClientFits, Excused
<1>6. CitesFit'
  BY <1>1 DEF CitesFit, Before, Excused, Cited
<1>7. OwnIndex'
  BY DEF OwnIndex, CallsSame
<1> QED
  BY <1>2, <1>3, <1>4, <1>5, <1>6, <1>7

LEMMA WordHolds ==
  ASSUME TypeOK, TurnInv, ReadWord
  PROVE  TurnInv'
<1> USE ReadWordFacts, Unfolded, Folded
<1>1. /\ turn.phase = "reading" /\ queue # <<>> /\ queue' = Tail(queue) /\ kept' = kept /\ turn' = turn
      /\ UNCHANGED <<task, asked, words, thoughts, sources>> /\ Head(queue).kind \in Word
      /\ kept = None /\ turn.left = 0 /\ turn.reason = "cancelled" /\ turn.final = FALSE
      /\ client.done = 0 /\ client.fault = FALSE
  BY NothingShownYet DEF ReadOff, ModelSame, Before
<1>2. QueueInv'
  <2>1. Head(queue).kind # "start" /\ writer'.tool = writer.tool
    BY <1>1 DEF WordsChanged, Word
  <2>2. \A t \in Tool : /\ writer'.tool[t].begun = (writer.tool[t].begun \/ (Head(queue).kind = "start" /\ Head(queue).tool = t))
                        /\ writer'.tool[t].result = writer.tool[t].result
    <3>1. \A t \in Tool : writer.tool[t].begun \in BOOLEAN
      BY TypesUnfold DEF Message, Call
    <3> QED
      BY <2>1, <3>1
  <2> QED
    BY <1>1, <2>2, QueueRead
<1>3. blocks \in Seq(Block) /\ Cited \subseteq Cited'
  <2>1. blocks \in Seq(Block)
    BY TypesUnfold
  <2>2. CASE blocks' = blocks
    BY <2>1, <2>2 DEF Cited
  <2>3. CASE writer.text + 1 \in 1..MaxWords /\ blocks' = StartBlock(writer.text + 1)
    <3>1. DOMAIN blocks \subseteq DOMAIN blocks' /\ \A b \in DOMAIN blocks : blocks'[b] = blocks[b]
      BY <2>1, <2>3, BlockStarts
    <3> QED
      BY <2>1, <3>1 DEF Cited
  <2> QED
    BY <2>2, <2>3
<1>4. TasksFit'
  BY <1>1 DEF TasksFit, Fresh
<1>5. TurnFits'
  BY <1>1 DEF TurnFits, WordsChanged
<1>6. ClientFits'
  <2>1. /\ ClientFits /\ WordsChanged(writer, writer') /\ WordsChanged(client.message, client'.message)
        /\ Kept(client, client') /\ client'.message.text = writer'.text
        /\ client'.message.thought = writer'.thought
    BY DEF ClientFits
  <2>2. CallsMatch'
    BY <1>1, <2>1 DEF ClientFits, CallsMatch, CallMatches, WordsChanged
  <2>3. ~client'.fault /\ client'.done = client.done /\ client'.finish = client.finish
        /\ client'.message.error = client.message.error
    BY <1>1, <2>1, KeptFaultless DEF WordsChanged
  <2>4. EndsFit'
    BY <1>1, <2>1, <2>3, EndsStay DEF ClientFits
  <2> QED
    BY <2>1, <2>2, <2>4 DEF ClientFits, WordsChanged
<1>7. CitesFit'
  BY <1>1, <1>3 DEF CitesFit, WordsChanged, Before
<1>8. OwnIndex'
  BY <1>1 DEF OwnIndex
<1> QED
  BY <1>2, <1>4, <1>5, <1>6, <1>7, <1>8

\* A chunk of a call is read: what it may change of the message is that call u.
LEMMA CallReadQueue ==
  ASSUME TypeOK, QueueInv, ReadOff(OfCalls), ModelSame, NEW u \in Tool, CallChanged(writer, writer', u),
         writer'.tool[u].begun = (writer.tool[u].begun \/ (Head(queue).kind = "start" /\ Head(queue).tool = u)),
         Head(queue).kind = "start" => Head(queue).tool = u,
         \/ writer'.tool[u].result = writer.tool[u].result
         \/ asked[u] \notin {"no", "started", "asked"} /\ \A i \in DOMAIN queue : i > 1 => ~Of(i, u)
  PROVE  QueueInv'
<1>1. /\ queue # <<>> /\ queue' = Tail(queue) /\ UNCHANGED <<task, asked, words, thoughts>>
      /\ Head(queue).kind \notin Spoken /\ Head(queue).kind # "think"
      /\ writer.text \in Nat /\ writer.thought \in Nat
      /\ writer'.text = writer.text /\ writer'.thought = writer.thought
  BY ChatTurnAssumption DEF ReadOff, ModelSame, OfCalls, Answers, Spoken, TypeOK, Message, CallChanged
<1>2. writer'.text = writer.text + 0 /\ writer'.thought = writer.thought + 0
  BY <1>1
<1>3. ASSUME NEW t \in Tool
      PROVE  /\ writer'.tool[t].begun =
                  (writer.tool[t].begun \/ (Head(queue).kind = "start" /\ Head(queue).tool = t))
             /\ \/ writer'.tool[t].result = writer.tool[t].result
                \/ asked[t] \notin {"no", "started", "asked"} /\ \A i \in DOMAIN queue : i > 1 => ~Of(i, t)
  <2>1. CASE t = u
    BY <2>1
  <2>2. CASE t # u
    <3>1. writer'.tool[t] = writer.tool[t] /\ writer.tool[t].begun \in BOOLEAN
      BY <2>2 DEF CallChanged, TypeOK, Message, Call
    <3> QED
      BY <2>2, <3>1
  <2> QED
    BY <2>1, <2>2
<1> QED
  BY <1>1, <1>2, <1>3, QueueRead

LEMMA MatchStays ==
  ASSUME NEW t, CallMatches(t), writer'.tool[t] = writer.tool[t],
         client'.message.tool[t] = client.message.tool[t],
         t \in turn'.pending <=> t \in turn.pending, turn'.phase \in ToRead => turn.phase \in ToRead
  PROVE  CallMatches(t)'
  BY DEF CallMatches

LEMMA CallReadHolds ==
  ASSUME TypeOK, TurnInv, ReadOff(OfCalls), ModelSame, UNCHANGED blocks, EndSame, CitesSame,
         turn'.phase \in {"reading", "building"}, turn'.phase = "building" => turn'.tool \in Tool,
         NEW u \in Tool, CallChanged(writer, writer', u), CallChanged(client.message, client'.message, u),
         client'.finish = client.finish, client'.done = client.done, client'.fault = FALSE
  PROVE  /\ TasksFit' /\ TurnFits' /\ CitesFit' /\ EndsFit'
         /\ client'.message.text = writer'.text /\ client'.message.thought = writer'.thought
         /\ client'.message.artifacts = writer'.artifacts
<1> USE Unfolded
<1>1. /\ turn.phase = "reading" /\ kept' = kept /\ UNCHANGED <<task, asked, words, thoughts, sources>>
      /\ turn'.reason = turn.reason /\ turn'.final = turn.final /\ turn'.refused = turn.refused
      /\ turn'.left = turn.left /\ turn'.cites = turn.cites /\ turn.phase \in Before
      /\ kept = None /\ turn.left = 0 /\ turn.reason = "cancelled" /\ turn.final = FALSE
  BY NothingShownYet DEF ReadOff, ModelSame, EndSame, CitesSame, Before
<1>2. /\ writer'.text = writer.text /\ writer'.thought = writer.thought /\ writer'.cites = writer.cites
      /\ writer'.artifacts = writer.artifacts /\ writer'.error = writer.error
      /\ client'.message.text = client.message.text /\ client'.message.thought = client.message.thought
      /\ client'.message.cites = client.message.cites
      /\ client'.message.artifacts = client.message.artifacts
      /\ client'.message.error = client.message.error
  BY DEF CallChanged
<1>3. TasksFit'
  BY <1>1 DEF TasksFit, Fresh
<1>4. TurnFits'
  BY <1>1, <1>2 DEF TurnFits, Open, Before
<1>5. CitesFit'
  BY <1>1, <1>2 DEF CitesFit, Before, Cited
<1>6. EndsFit'
  BY <1>1, <1>2, EndsStay DEF ClientFits
<1> QED
  BY <1>2, <1>3, <1>4, <1>5, <1>6 DEF ClientFits

LEMMA StartHolds ==
  ASSUME TypeOK, TurnInv, ReadStart
  PROVE  TurnInv'
<1> USE Unfolded
<1>1. PICK t \in Tool :
      /\ ReadOff({"start"}) /\ ModelSame /\ UNCHANGED blocks /\ t = Head(queue).tool
      /\ turn' \in Turn /\ turn'.phase = "reading" /\ EndSame /\ CitesSame
      /\ turn'.pending = turn.pending \cup {t}
      /\ \A i \in Indices : turn'.at[i] = IF i = Index[t] THEN t ELSE turn.at[i]
      /\ CallChanged(writer, writer', t) /\ writer'.tool[t].begun
      /\ writer'.tool[t].args = writer.tool[t].args /\ writer'.tool[t].result = writer.tool[t].result
      /\ client' \in Client /\ Kept(client, client') /\ CallChanged(client.message, client'.message, t)
      /\ client'.message.tool[t].begun
      /\ client'.message.tool[t].args = client.message.tool[t].args
      /\ client'.message.tool[t].result = client.message.tool[t].result
  BY ReadStartFacts
<1>2. /\ ReadOff(OfCalls) /\ Head(queue).kind = "start" /\ turn.phase = "reading" /\ Head(queue).tool = t
      /\ 1 \in DOMAIN queue /\ queue[1] = Head(queue)
  BY <1>1, TypesUnfold, HeadIsItem DEF ReadOff, OfCalls
<1>3. Of(1, t)
  BY <1>2 DEF Of, OfCalls
<1>4. writer.tool[t].result = "none"
  BY <1>1, <1>2, <1>3 DEF QueueInv, CallsInOrder, CallFits
<1>5. writer'.tool[t].begun = TRUE /\ client'.message.tool[t].begun = TRUE
  BY <1>1 DEF CallChanged, Client, Message, Call
<1>6. QueueInv'
  BY <1>1, <1>2, <1>5, CallReadQueue
<1>7. client'.fault = FALSE /\ client'.done = client.done /\ client'.finish = client.finish
  BY <1>1, <1>2, NothingShownYet, KeptFaultless DEF Before
<1>8. /\ TasksFit' /\ TurnFits' /\ CitesFit' /\ EndsFit'
      /\ client'.message.text = writer'.text /\ client'.message.thought = writer'.thought
      /\ client'.message.artifacts = writer'.artifacts
  BY <1>1, <1>2, <1>7, CallReadHolds
<1>9. CallsMatch'
  <2>1. ASSUME NEW u \in Tool \ {t} PROVE CallMatches(u)'
    BY <1>1, <1>2, <2>1, MatchStays DEF ClientFits, CallsMatch, CallChanged
  <2>2. CallMatches(t)'
    <3>1. CallMatches(t)
      BY <1>1 DEF ClientFits, CallsMatch
    <3> QED
      BY <1>1, <1>4, <1>5, <3>1 DEF CallMatches
  <2> QED
    BY <2>1, <2>2 DEF CallsMatch
<1>10. OwnIndex'
  BY <1>1 DEF OwnIndex
<1> QED
  BY <1>6, <1>8, <1>9, <1>10, Folded DEF ClientFits

LEMMA FragmentHolds ==
  ASSUME TypeOK, TurnInv, ReadFragment
  PROVE  TurnInv'
<1> DEFINE of == Head(queue).tool
<1> USE Unfolded
<1>1. /\ ReadOff({"fragment"}) /\ ModelSame /\ UNCHANGED blocks /\ of \in Tool
      /\ turn' \in Turn /\ turn'.phase = "reading" /\ EndSame /\ CitesSame /\ turn'.at = turn.at
      /\ \/ UNCHANGED <<turn, writer, client>>
         \/ \E t \in Tool :
              /\ t \in turn.pending /\ Pending(writer, t)
              /\ turn'.pending = turn.pending \ {t}
              /\ CallChanged(writer, writer', t) /\ writer'.tool[t].begun
              /\ writer'.tool[t].args = of /\ writer'.tool[t].result = "none"
              /\ Kept(client, client') /\ CallChanged(client.message, client'.message, t)
              /\ client'.message.tool[t].begun = client.message.tool[t].begun
              /\ client'.message.tool[t].args = of
              /\ client'.message.tool[t].result = client.message.tool[t].result
  BY ReadFragmentFacts
<1>2. ReadOff(OfCalls) /\ Head(queue).kind = "fragment" /\ turn.phase = "reading" /\ of # None
  BY <1>1, ChatTurnAssumption DEF ReadOff, OfCalls
<1> HIDE DEF of
<1>3. OwnIndex'
  BY <1>1 DEF OwnIndex
<1>4. client.fault = FALSE /\ client.done = 0
  BY <1>2, NothingShownYet DEF Before
<1>5. CASE UNCHANGED <<turn, writer, client>>
  <2>1. CallChanged(writer, writer', of) /\ CallChanged(client.message, client'.message, of)
    BY <1>5, TypesUnfold DEF CallChanged
  <2>2. writer'.tool[of].begun =
          (writer.tool[of].begun \/ (Head(queue).kind = "start" /\ Head(queue).tool = of))
    <3>1. writer.tool[of].begun \in BOOLEAN
      BY <1>1, TypesUnfold DEF Message, Call
    <3> QED
      BY <1>2, <1>5, <3>1
  <2>3. QueueInv'
    BY <1>1, <1>2, <1>5, <2>1, <2>2, CallReadQueue
  <2>4. /\ TasksFit' /\ TurnFits' /\ CitesFit' /\ EndsFit'
        /\ client'.message.text = writer'.text /\ client'.message.thought = writer'.thought
        /\ client'.message.artifacts = writer'.artifacts
    BY <1>1, <1>2, <1>4, <1>5, <2>1, CallReadHolds
  <2>5. CallsMatch'
    BY <1>5 DEF ClientFits, CallsMatch, CallMatches
  <2> QED
    BY <1>3, <2>3, <2>4, <2>5, Folded DEF ClientFits
<1>6. CASE \E t \in Tool :
              /\ t \in turn.pending /\ Pending(writer, t)
              /\ turn'.pending = turn.pending \ {t}
              /\ CallChanged(writer, writer', t) /\ writer'.tool[t].begun
              /\ writer'.tool[t].args = of /\ writer'.tool[t].result = "none"
              /\ Kept(client, client') /\ CallChanged(client.message, client'.message, t)
              /\ client'.message.tool[t].begun = client.message.tool[t].begun
              /\ client'.message.tool[t].args = of
              /\ client'.message.tool[t].result = client.message.tool[t].result
  <2>1. PICK t \in Tool :
          /\ t \in turn.pending /\ Pending(writer, t)
          /\ turn'.pending = turn.pending \ {t}
          /\ CallChanged(writer, writer', t) /\ writer'.tool[t].begun
          /\ writer'.tool[t].args = of /\ writer'.tool[t].result = "none"
          /\ Kept(client, client') /\ CallChanged(client.message, client'.message, t)
          /\ client'.message.tool[t].begun = client.message.tool[t].begun
          /\ client'.message.tool[t].args = of
          /\ client'.message.tool[t].result = client.message.tool[t].result
    BY <1>6
  <2>2. /\ writer'.tool[t].begun = TRUE /\ writer.tool[t].begun = TRUE
        /\ writer.tool[t].result = "none"
    BY <2>1, TypesUnfold DEF CallChanged, Message, Call, Pending
  <2>3. QueueInv'
    BY <1>1, <1>2, <2>1, <2>2, CallReadQueue
  <2>4. client'.fault = FALSE /\ client'.done = client.done /\ client'.finish = client.finish
    BY <1>4, <2>1, KeptFaultless
  <2>5. /\ TasksFit' /\ TurnFits' /\ CitesFit' /\ EndsFit'
        /\ client'.message.text = writer'.text /\ client'.message.thought = writer'.thought
        /\ client'.message.artifacts = writer'.artifacts
    BY <1>1, <1>2, <2>1, <2>4, CallReadHolds
  <2>6. CallsMatch'
    <3>1. ASSUME NEW u \in Tool \ {t} PROVE CallMatches(u)'
      BY <1>1, <1>2, <2>1, <3>1, MatchStays DEF ClientFits, CallsMatch, CallChanged
    <3>2. CallMatches(t)'
      <4>1. CallMatches(t)
        BY <2>1 DEF ClientFits, CallsMatch
      <4> QED
        BY <1>1, <1>2, <2>1, <2>2, <4>1 DEF CallMatches
    <3> QED
      BY <3>1, <3>2 DEF CallsMatch
  <2> QED
    BY <1>3, <2>3, <2>5, <2>6, Folded DEF ClientFits
<1> QED
  BY <1>1, <1>5, <1>6

LEMMA ResultHolds ==
  ASSUME TypeOK, TurnInv, ReadResult
  PROVE  TurnInv'
<1> USE Unfolded
<1>1. PICK t \in Tool :
      /\ ReadOff(Answers) /\ ModelSame /\ UNCHANGED blocks /\ t = Head(queue).tool /\ Pending(writer, t)
      /\ turn' \in Turn /\ turn'.phase \in {"reading", "building"} /\ EndSame /\ CitesSame
      /\ turn'.at = turn.at /\ turn'.pending = turn.pending \ {t}
      /\ turn'.phase = "building" => turn'.tool = t
      /\ CallChanged(writer, writer', t) /\ writer'.tool[t].begun
      /\ writer'.tool[t].args = (IF t \in turn.pending THEN t ELSE writer.tool[t].args)
      /\ client' \in Client /\ CallChanged(client.message, client'.message, t)
      /\ client'.message.tool[t].begun = client.message.tool[t].begun
      /\ client'.message.tool[t].args = (IF t \in turn.pending THEN t ELSE client.message.tool[t].args)
      /\ client'.message.tool[t].result = writer'.tool[t].result
      /\ client'.message.tool[t].result # "none"
      /\ client'.finish = client.finish /\ client'.done = client.done
      /\ client.done = 0 /\ client.message.tool[t].args # None => client'.fault = client.fault
      /\ client.done = 0 /\ t \in turn.pending => client'.fault = client.fault
  BY ReadResultFacts
<1>2. /\ ReadOff(OfCalls) /\ Head(queue).kind \in Answers /\ Head(queue).kind # "start" /\ turn.phase = "reading"
      /\ 1 \in DOMAIN queue /\ queue[1] = Head(queue) /\ t # None
      /\ \A i \in DOMAIN queue : i \in Nat
  BY <1>1, TypesUnfold, HeadIsItem, ChatTurnAssumption DEF ReadOff, OfCalls, Answers
<1>3. CallFits(t) /\ CallMatches(t) /\ Of(1, t)
  BY <1>1, <1>2 DEF QueueInv, CallsInOrder, ClientFits, CallsMatch, Of, OfCalls
<1>4. asked[t] \notin {"no", "started", "asked"} /\ \A i \in DOMAIN queue : i > 1 => ~Of(i, t)
  BY <1>2, <1>3 DEF CallFits
<1>5. /\ writer'.tool[t].begun = TRUE /\ writer.tool[t].begun = TRUE /\ client.message.tool[t].begun = TRUE
  BY <1>1, <1>3, TypesUnfold DEF CallChanged, Message, Call, Pending, CallMatches
<1>6. QueueInv'
  BY <1>1, <1>2, <1>4, <1>5, CallReadQueue
<1>7. client.fault = FALSE /\ client.done = 0
  BY <1>2, NothingShownYet DEF Before
<1>8. client'.fault = FALSE
  BY <1>1, <1>3, <1>5, <1>7 DEF CallMatches
<1>9. /\ TasksFit' /\ TurnFits' /\ CitesFit' /\ EndsFit'
      /\ client'.message.text = writer'.text /\ client'.message.thought = writer'.thought
      /\ client'.message.artifacts = writer'.artifacts
  BY <1>1, <1>2, <1>8, CallReadHolds
<1>10. CallsMatch'
  <2>1. ASSUME NEW u \in Tool \ {t} PROVE CallMatches(u)'
    <3>1. turn.phase \in ToRead
      BY <1>2 DEF ToRead, Before
    <3> QED
      BY <1>1, <2>1, <3>1, MatchStays DEF ClientFits, CallsMatch, CallChanged
  <2>2. CallMatches(t)'
    BY <1>1, <1>2, <1>3, <1>5 DEF CallMatches
  <2> QED
    BY <2>1, <2>2 DEF CallsMatch
<1>11. OwnIndex'
  BY <1>1 DEF OwnIndex
<1> QED
  BY <1>6, <1>9, <1>10, <1>11, Folded DEF ClientFits

\* An item that is no chunk is read.
LEMMA OtherReadQueue ==
  ASSUME TypeOK, QueueInv, ReadOff({"cited", "sentinel"}), ModelSame,
         writer'.text = writer.text, writer'.thought = writer.thought,
         \A t \in Tool : /\ writer'.tool[t].begun = writer.tool[t].begun
                         /\ \/ writer'.tool[t].result = writer.tool[t].result
                            \/ /\ asked[t] \notin {"no", "started", "asked"}
                               /\ \A i \in DOMAIN queue : i > 1 => ~Of(i, t)
  PROVE  QueueInv'
<1>1. /\ queue # <<>> /\ queue' = Tail(queue) /\ UNCHANGED <<task, asked, words, thoughts>>
      /\ Head(queue).kind \notin Spoken /\ Head(queue).kind # "think" /\ Head(queue).kind # "start"
      /\ writer.text \in Nat /\ writer.thought \in Nat
  BY ChatTurnAssumption DEF ReadOff, ModelSame, Spoken, TypeOK, Message
<1>2. writer'.text = writer.text + 0 /\ writer'.thought = writer.thought + 0
  BY <1>1
<1>3. \A t \in Tool : writer'.tool[t].begun =
                        (writer.tool[t].begun \/ (Head(queue).kind = "start" /\ Head(queue).tool = t))
  <2>1. \A t \in Tool : writer.tool[t].begun \in BOOLEAN
    BY DEF TypeOK, Message, Call
  <2> QED
    BY <1>1, <2>1
<1> QED
  BY <1>1, <1>2, <1>3, QueueRead

LEMMA CitedHolds ==
  ASSUME TypeOK, TurnInv, ReadCited
  PROVE  TurnInv'
<1> USE Unfolded
<1>1. /\ ReadOff({"cited", "sentinel"}) /\ ModelSame /\ UNCHANGED <<turn, blocks, writer>>
      /\ UNCHANGED <<task, asked, words, thoughts, sources, kept>> /\ turn.phase = "reading"
      /\ ClientKept(client, client') /\ CitesChanged(client.message, client'.message)
      /\ client'.message.cites = Cited \/ client'.message.cites = client.message.cites
  BY ReadCitedFacts, PartialFacts DEF ReadOff, ModelSame
<1>2. /\ turn.left = 0 /\ turn.reason = "cancelled" /\ client.done = 0 /\ client.fault = FALSE
  BY <1>1, NothingShownYet DEF Before
<1>3. QueueInv'
  BY <1>1, OtherReadQueue
<1>4. TasksFit' /\ TurnFits' /\ OwnIndex'
  BY <1>1 DEF TasksFit, Running, Whole, TurnFits, OwnIndex
<1>5. CitesFit'
  BY <1>1 DEF CitesFit, Before, Cited
<1>6. CallsMatch'
  BY <1>1 DEF ClientFits, CallsMatch, CallMatches, CitesChanged
<1>7. EndsFit'
  BY <1>1, <1>2, EndsStay DEF ClientFits, ClientKept, CitesChanged
<1>8. ClientFits'
  BY <1>1, <1>6, <1>7 DEF ClientFits, CitesChanged
<1> QED
  BY <1>3, <1>4, <1>5, <1>8, Folded

LEMMA BuildHolds ==
  ASSUME TypeOK, TurnInv, Build
  PROVE  TurnInv'
<1> USE Unfolded
<1>1. /\ turn.phase = "building" /\ UNCHANGED <<task, asked, words, thoughts, sources, queue, blocks, kept>>
      /\ turn'.pending = turn.pending /\ turn'.at = turn.at /\ CitesSame
      /\ turn'.final = turn.final /\ turn'.refused = turn.refused /\ turn'.left = turn.left
      /\ turn'.phase \in {"reading", "storing"}
  BY BuildFacts DEF ModelSame, CallsSame
<1>2. /\ turn.left = 0 /\ turn.reason = "cancelled" /\ kept = None /\ turn.final = FALSE
      /\ client.done = 0 /\ client.fault = FALSE
  BY <1>1, NothingShownYet DEF Before
<1>3. /\ writer'.text = writer.text /\ writer'.thought = writer.thought /\ writer'.tool = writer.tool
      /\ writer'.cites = writer.cites /\ writer'.artifacts = client'.message.artifacts
      /\ writer'.error = (turn'.reason = "error")
      /\ client'.message.text = client.message.text /\ client'.message.thought = client.message.thought
      /\ client'.message.tool = client.message.tool /\ client'.message.cites = client.message.cites
      /\ client'.message.error = client.message.error
      /\ client'.finish = client.finish /\ client'.done = client.done /\ client'.fault = FALSE
      /\ \/ turn'.phase = "reading" /\ turn'.reason = "cancelled"
         \/ turn'.phase = "storing" /\ turn'.reason = "error"
  <2>1. client.message.artifacts = writer.artifacts /\ writer.error = (turn.reason = "error")
    BY DEF ClientFits, TurnFits
  <2>2. CASE /\ turn'.phase = "reading" /\ turn'.reason = turn.reason
             /\ Kept(client, client')
             /\ writer'.artifacts = writer.artifacts \cup {turn.tool}
             /\ client'.message.artifacts = client.message.artifacts \cup {turn.tool}
             /\ \A field \in {"text", "thought", "tool", "cites", "error"} :
                  writer'[field] = writer[field] /\ client'.message[field] = client.message[field]
    <3>1. client'.fault = FALSE /\ client'.done = client.done /\ client'.finish = client.finish
      BY <1>2, <2>2, KeptFaultless
    <3>2. /\ writer'["text"] = writer["text"] /\ writer'["thought"] = writer["thought"]
          /\ writer'["tool"] = writer["tool"] /\ writer'["cites"] = writer["cites"]
          /\ writer'["error"] = writer["error"]
          /\ client'.message["text"] = client.message["text"]
          /\ client'.message["thought"] = client.message["thought"]
          /\ client'.message["tool"] = client.message["tool"]
          /\ client'.message["cites"] = client.message["cites"]
          /\ client'.message["error"] = client.message["error"]
      BY <2>2
    <3> QED
      BY <1>2, <2>1, <2>2, <3>1, <3>2
  <2>3. CASE turn'.phase = "reading" /\ turn'.reason = turn.reason /\ UNCHANGED <<writer, client>>
    BY <1>2, <2>1, <2>3
  <2>4. CASE /\ turn'.phase = "storing" /\ turn'.reason = "error"
             /\ writer' = AddError(writer) /\ UNCHANGED client
    BY <1>2, <2>1, <2>4, TypesUnfold, ErrorFacts
  <2> QED
    BY <2>2, <2>3, <2>4, BuildFacts
<1>4. QueueInv'
  BY <1>1, <1>3, QueueStays DEF SameCalls
<1>5. TasksFit'
  BY <1>1, <1>2, <1>3 DEF TasksFit, Fresh
<1>6. TurnFits'
  BY <1>1, <1>2, <1>3 DEF TurnFits, Open, Before
<1>7. CitesFit'
  BY <1>1, <1>3 DEF CitesFit, Before, Cited
<1>8. CallsMatch'
  BY <1>1, <1>3 DEF ClientFits, CallsMatch, CallMatches, ToRead, Before
<1>9. EndsFit'
  BY <1>1, <1>2, <1>3, EndsStay DEF ClientFits
<1>10. ClientFits'
  BY <1>3, <1>8, <1>9 DEF ClientFits
<1>11. OwnIndex'
  BY <1>1 DEF OwnIndex
<1> QED
  BY <1>4, <1>5, <1>6, <1>7, <1>10, <1>11, Folded

\* With the sentinel read, the message has all the model said.
LEMMA AllIsRead ==
  ASSUME TypeOK, QueueInv', \A i \in DOMAIN queue' : queue'[i].kind = "cited",
         words' \in Nat, thoughts' \in Nat, writer'.text \in Nat, writer'.thought \in Nat
  PROVE  writer'.text = words' /\ writer'.thought = thoughts'
<1>1. Places(queue', Spoken) = {} /\ Places(queue', {"think"}) = {}
  BY DEF Places, Spoken
<1>2. Cardinality(Places(queue', Spoken)) = 0 /\ Cardinality(Places(queue', {"think"})) = 0
  BY <1>1, FS_EmptySet
<1>3. Cardinality(Places(queue', Spoken)) + writer'.text = words'
      /\ Cardinality(Places(queue', {"think"})) + writer'.thought = thoughts'
  BY DEF QueueInv, Counted
<1> QED
  BY <1>2, <1>3

\* The blocks that were grounded stay so, whatever is started or cancelled.
LEMMA CitedStays ==
  ASSUME TypeOK, \/ blocks' = blocks
                 \/ blocks' = CancelBlocks
                 \/ blocks' = Waiting
  PROVE  /\ Cited \subseteq Cited'
         /\ blocks' = CancelBlocks => Running' = {} /\ (blocks = <<>> => blocks' = <<>>)
<1>1. blocks \in Seq(Block)
  BY TypesUnfold
<1>2. CASE blocks' = blocks /\ blocks' # CancelBlocks
  BY <1>2 DEF Cited
<1>3. CASE blocks' = CancelBlocks
  <2>1. /\ DOMAIN blocks' = DOMAIN blocks /\ blocks' \in Seq(Block) /\ Len(blocks') = Len(blocks)
        /\ \A b \in DOMAIN blocks :
             /\ blocks'[b].to = blocks[b].to
             /\ blocks'[b].at = IF blocks[b].at = "running" THEN "cancelled" ELSE blocks[b].at
    BY <1>1, <1>3, CancelFacts
  <2>2. Cited \subseteq Cited'
    BY <2>1 DEF Cited
  <2>3. Running' = {}
    BY <2>1 DEF Running
  <2>4. blocks = <<>> => blocks' = <<>>
    BY <1>1, <2>1
  <2> QED
    BY <2>2, <2>3, <2>4
<1>4. CASE blocks' = Waiting /\ blocks' # blocks /\ blocks' # CancelBlocks
  <2>1. blocks' = StartBlock(writer.text) /\ writer.text > Cursor
    BY <1>4 DEF Waiting
  <2>2. writer.text \in 1..MaxWords
    <3>1. Cursor \in Nat
      <4>1. blocks # <<>> => blocks[Len(blocks)] \in Block
        BY <1>1
      <4> QED
        BY <4>1, ChatTurnAssumption DEF Cursor, Block
    <3> QED
      BY <2>1, <3>1, ChatTurnAssumption DEF TypeOK, Message
  <2>3. DOMAIN blocks \subseteq DOMAIN blocks' /\ \A b \in DOMAIN blocks : blocks'[b] = blocks[b]
    BY <1>1, <2>1, <2>2, BlockStarts
  <2> QED
    BY <1>4, <2>3 DEF Cited
<1> QED
  BY <1>2, <1>3, <1>4

LEMMA SentinelHolds ==
  ASSUME TypeOK, TurnInv, ReadSentinel
  PROVE  TurnInv'
<1> USE Unfolded
<1>1. /\ ReadOff({"cited", "sentinel"}) /\ ModelSame
      /\ UNCHANGED <<task, asked, words, thoughts, sources, kept>>
      /\ turn.phase = "reading" /\ turn'.phase \in {"storing", "citing"}
      /\ \A i \in DOMAIN queue' : queue'[i].kind = "cited"
      /\ turn'.pending = turn.pending /\ turn'.at = turn.at /\ turn'.cites = turn.cites
      /\ turn'.final = turn.final /\ turn'.refused = turn.refused /\ turn'.left = turn.left
      /\ writer' \in Message /\ client' \in Client
      /\ \A i \in DOMAIN queue : i > 1 => queue[i].kind = "cited"
  <2>1. ReadOff({"sentinel"}) /\ queue \in Seq(Item) /\ (\A i \in DOMAIN queue' : queue'[i].kind = "cited")
    BY ReadSentinelFacts, TypesUnfold
  <2>2. \A i \in DOMAIN queue : i > 1 => i - 1 \in DOMAIN queue' /\ queue'[i - 1] = queue[i]
    BY <2>1 DEF ReadOff
  <2>3. \A i \in DOMAIN queue : i > 1 => queue[i].kind = "cited"
    BY <2>1, <2>2
  <2> QED
    BY <2>1, <2>3, ReadSentinelFacts DEF ReadOff, ModelSame, CallsSame, CitesSame
<1>2. /\ turn.left = 0 /\ turn.reason = "cancelled" /\ kept = None /\ turn.final = FALSE
      /\ client.done = 0 /\ client.fault = FALSE
  BY <1>1, NothingShownYet DEF Before
<1>3. Cited \subseteq Cited'
  BY CitedStays, ReadSentinelFacts
<1>4. words' \in Nat /\ thoughts' \in Nat /\ writer'.text \in Nat /\ writer'.thought \in Nat
  BY <1>1, ChatTurnAssumption DEF Message, TypeOK
<1>5. OwnIndex'
  BY <1>1 DEF OwnIndex
<1>6. CASE /\ task = "failed" /\ turn'.phase = "storing" /\ turn'.reason = "error"
           /\ writer' = AddError(writer) /\ UNCHANGED <<blocks, client>>
  <2>1. Excused(writer, writer') /\ writer'.error = TRUE
    BY <1>6, TypesUnfold, ErrorFacts DEF Excused
  <2>2. QueueInv'
    BY <1>1, <2>1, OtherReadQueue DEF Excused
  <2>3. TasksFit' /\ TurnFits'
    BY <1>1, <1>2, <1>6, <2>1 DEF TasksFit, Fresh, TurnFits, Open, Before
  <2>4. CitesFit'
    BY <1>1, <1>3, <1>6, <2>1 DEF CitesFit, Before, Excused
  <2>5. CallsMatch'
    BY <1>1, <1>6, <2>1 DEF ClientFits, CallsMatch, CallMatches, Excused, ToRead, Before
  <2>6. EndsFit'
    BY <1>1, <1>2, <1>6, EndsStay DEF ClientFits
  <2> QED
    BY <1>5, <1>6, <2>1, <2>2, <2>3, <2>4, <2>5, <2>6, Folded DEF ClientFits, Excused
<1>7. CASE /\ task = "done" /\ writer' = Unstreamed(writer) /\ client' = CloseBlocks(client)
           /\ \/ turn'.phase = "storing" /\ turn'.reason = "stop" /\ blocks' = blocks
              \/ turn'.phase = "citing" /\ turn'.reason = turn.reason /\ blocks' = Waiting
  <2>1. \A t \in Tool : asked[t] \in {"no", "ok", "failed", "skipped"}
    BY <1>7, ReadSentinelFacts
  <2>2. /\ writer'.text = writer.text /\ writer'.thought = writer.thought /\ writer'.cites = writer.cites
        /\ writer'.artifacts = writer.artifacts /\ writer'.error = writer.error
        /\ \A t \in Tool :
             /\ writer'.tool[t].begun = writer.tool[t].begun /\ writer'.tool[t].args = writer.tool[t].args
             /\ writer.tool[t].result # "none" => writer'.tool[t].result = writer.tool[t].result
             /\ asked[t] # "no" => writer'.tool[t].result # "none"
             /\ asked[t] = "no" => writer'.tool[t].result = writer.tool[t].result
    BY <1>7, <2>1, TypesUnfold, UnstreamedFacts
  <2>3. /\ client'.message = client.message /\ client'.finish = client.finish /\ client'.done = client.done
        /\ client'.fault = FALSE
    BY <1>2, <1>7, TypesUnfold, ClosingFacts
  <2>4. QueueInv'
    <3>1. \A t \in Tool, i \in DOMAIN queue : i > 1 => ~Of(i, t)
      BY <1>1 DEF Of, OfCalls, Answers
    <3> QED
      BY <1>1, <2>1, <2>2, <3>1, OtherReadQueue
  <2>5. Whole'
    BY <1>1, <1>4, <2>2, <2>4, AllIsRead DEF Whole
  <2>6. TasksFit'
    BY <1>1, <1>7, <2>1, <2>5 DEF TasksFit, Fresh
  <2>7. TurnFits'
    <3>1. writer'.error = (turn'.reason = "error")
      BY <1>2, <1>7, <2>2 DEF TurnFits
    <3> QED
      BY <1>1, <1>2, <1>7, <3>1 DEF TurnFits, Open, Before
  <2>8. CitesFit'
    BY <1>1, <1>3, <2>2, <2>3 DEF CitesFit, Before
  <2>9. CallsMatch'
    <3> SUFFICES ASSUME NEW t \in Tool PROVE CallMatches(t)'
      BY DEF CallsMatch
    <3>1. CallMatches(t) /\ turn'.phase \notin ToRead
      BY <1>1 DEF ClientFits, CallsMatch, ToRead, Before
    <3> QED
      BY <1>1, <2>2, <2>3, <3>1 DEF CallMatches
  <2>10. EndsFit'
    BY <1>1, <1>2, <1>7, <2>3, EndsStay DEF ClientFits
  <2> QED
    BY <1>5, <2>2, <2>3, <2>4, <2>6, <2>7, <2>8, <2>9, <2>10, Folded DEF ClientFits
<1> QED
  BY <1>6, <1>7, ReadSentinelFacts

\* Showing citations changes nothing else.
LEMMA CitationsKeepCalls ==
  ASSUME ClientFits, writer'.tool = writer.tool, client'.message.tool = client.message.tool,
         turn'.pending = turn.pending, turn'.phase \notin ToRead
  PROVE  CallsMatch'
<1> SUFFICES ASSUME NEW t \in Tool PROVE CallMatches(t)'
  BY DEF CallsMatch
<1>1. CallMatches(t)
  BY DEF ClientFits, CallsMatch
<1> QED
  BY <1>1 DEF CallMatches

LEMMA CiteHolds ==
  ASSUME TypeOK, TurnInv, Cite
  PROVE  TurnInv'
<1> USE Unfolded
<1>1. /\ turn.phase = "citing" /\ UNCHANGED <<task, asked, words, thoughts, sources, queue, writer, kept>>
      /\ turn'.pending = turn.pending /\ turn'.at = turn.at /\ turn'.phase \in {"citing", "placing"}
      /\ turn'.reason = turn.reason /\ turn'.final = turn.final /\ turn'.refused = turn.refused
      /\ turn'.left = turn.left
  BY CiteFacts DEF ModelSame, CallsSame, EndSame
<1>2. /\ turn.left = 0 /\ turn.reason = "cancelled" /\ kept = None /\ turn.final = FALSE
      /\ client.done = 0 /\ client.fault = FALSE
  BY <1>1, NothingShownYet DEF Before
<1>3. Cited \subseteq Cited'
  BY CitedStays, CiteFacts
<1>4. /\ CitesChanged(client.message, client'.message) /\ ClientKept(client, client')
      /\ \/ turn'.phase = "placing" /\ turn'.cites = Cited /\ client' = client
         \/ turn'.phase = "citing" /\ client'.message.cites \in {Cited, client.message.cites}
  BY TypesUnfold, CiteFacts, PartialFacts DEF CitesChanged, ClientKept
<1>5. QueueInv'
  BY <1>1, QueueStays DEF SameCalls
<1>6. TasksFit'
  BY <1>1 DEF TasksFit, Fresh, Whole
<1>7. TurnFits'
  BY <1>1 DEF TurnFits, Open, Before
<1>8. CitesFit'
  BY <1>1, <1>3, <1>4 DEF CitesFit, Before
<1>9. CallsMatch'
  BY <1>1, <1>4, CitationsKeepCalls DEF CitesChanged, ToRead
<1>10. EndsFit'
  <2>1. client'.message.error = client.message.error /\ client'.finish = client.finish
        /\ client'.done = client.done /\ ~client'.fault
    BY <1>2, <1>4 DEF CitesChanged, ClientKept
  <2> QED
    BY <1>1, <1>2, <2>1, EndsStay DEF ClientFits
<1>11. ClientFits'
  BY <1>1, <1>4, <1>9, <1>10 DEF ClientFits, CitesChanged
<1>12. OwnIndex'
  BY <1>1 DEF OwnIndex
<1> QED
  BY <1>5, <1>6, <1>7, <1>8, <1>11, <1>12, Folded

LEMMA PlaceHolds ==
  ASSUME TypeOK, TurnInv, Place
  PROVE  TurnInv'
<1> USE Unfolded
<1>1. /\ turn.phase = "placing" /\ UNCHANGED <<task, asked, words, thoughts, sources, queue, blocks, kept>>
      /\ turn'.pending = turn.pending /\ turn'.at = turn.at /\ turn'.phase = "storing"
      /\ turn'.reason = "stop" /\ turn'.final = turn.final /\ turn'.refused = turn.refused
      /\ turn'.left = turn.left
  BY PlaceFacts DEF ModelSame, CallsSame
<1>2. /\ turn.left = 0 /\ turn.reason = "cancelled" /\ kept = None /\ turn.final = FALSE
      /\ client.done = 0 /\ client.fault = FALSE
  BY <1>1, NothingShownYet DEF Before
<1>3. Cited = Cited'
  BY <1>1 DEF Cited
<1>4. /\ CitesChanged(client.message, client'.message) /\ ClientKept(client, client')
      /\ CitesChanged(writer, writer')
      /\ \/ writer'.cites = turn.cites /\ client'.message.cites = turn.cites
         \/ UNCHANGED <<writer, client>>
  BY TypesUnfold, PlaceFacts DEF CitesChanged, ClientKept
<1>5. QueueInv'
  BY <1>1, <1>4, QueueStays DEF SameCalls, CitesChanged
<1>6. TasksFit'
  BY <1>1, <1>4 DEF TasksFit, Fresh, Whole, CitesChanged
<1>7. TurnFits'
  <2>1. writer'.error = (turn'.reason = "error")
    BY <1>1, <1>2, <1>4 DEF TurnFits, CitesChanged
  <2> QED
    BY <1>1, <1>2, <2>1 DEF TurnFits, Open, Before
<1>8. CitesFit'
  BY <1>1, <1>3, <1>4 DEF CitesFit, Before
<1>9. CallsMatch'
  BY <1>1, <1>4, CitationsKeepCalls DEF CitesChanged, ToRead, Before
<1>10. EndsFit'
  <2>1. client'.message.error = client.message.error /\ client'.finish = client.finish
        /\ client'.done = client.done /\ ~client'.fault
    BY <1>2, <1>4 DEF CitesChanged, ClientKept
  <2> QED
    BY <1>1, <1>2, <2>1, EndsStay DEF ClientFits
<1>11. ClientFits'
  BY <1>4, <1>9, <1>10 DEF ClientFits, CitesChanged
<1>12. OwnIndex'
  BY <1>1 DEF OwnIndex
<1> QED
  BY <1>5, <1>6, <1>7, <1>8, <1>11, <1>12, Folded

LEMMA StoreHolds ==
  ASSUME TypeOK, TurnInv, Store
  PROVE  TurnInv'
<1> USE Unfolded
<1>1. /\ turn.phase = "storing" /\ UNCHANGED <<asked, words, thoughts, sources, queue, writer>>
      /\ turn'.pending = turn.pending /\ turn'.at = turn.at /\ turn'.cites = turn.cites
      /\ turn'.final = TRUE /\ turn'.reason = turn.reason /\ turn'.left = turn.left
      /\ StoredAs(turn.reason) /\ (~turn'.refused => kept' # None)
      /\ task' = task \/ task \in {"none", "running"}
      /\ task' = "done" <=> task = "done"
  BY StoreFacts DEF CallsSame, CitesSame, Turn
<1>2. /\ turn.left = 0 /\ turn.reason \in {"stop", "error"} /\ kept = None /\ client.done = 0
      /\ client.fault = FALSE /\ client.message.error = FALSE /\ client.finish = FALSE
  BY <1>1 DEF TurnFits, ClientFits, EndsFit, Open, TypeOK, Client
<1>3. /\ kept' # None => kept' = [message |-> writer, reason |-> turn.reason]
      /\ kept' # None => kept'.message = writer' /\ kept'.reason = turn'.reason
  BY <1>1, <1>2 DEF StoredAs
<1>4. /\ client'.message.text = client.message.text /\ client'.message.thought = client.message.thought
      /\ client'.message.tool = client.message.tool /\ client'.message.cites = client.message.cites
      /\ client'.message.artifacts = client.message.artifacts /\ client'.fault = FALSE
      /\ \/ /\ turn.reason = "error" /\ client'.message.error = TRUE /\ client'.finish = FALSE
            /\ blocks' = CancelBlocks
            /\ IF task = "running"
               THEN turn'.phase = "stopping" /\ task' = "stopping" /\ client'.done = 0
               ELSE /\ turn'.phase = "ended" /\ task' = task /\ client'.done = 1
                    /\ client'.block # "open" /\ ~client'.thinking
         \/ /\ turn.reason = "stop" /\ client'.message.error = FALSE /\ client'.finish = TRUE
            /\ turn'.phase = "suggesting" /\ task' = task /\ blocks' = blocks /\ client'.done = 0
  <2>1. client.message \in Message /\ client' \in Client
    BY TypesUnfold, StoreFacts
  <2>2. client'.finish \in BOOLEAN
    BY <2>1 DEF Client
  <2>3. CASE turn.reason = "error"
    <3>1. /\ client'.message = AddError(client.message) /\ client'.finish = client.finish
          /\ client'.fault = client.fault /\ blocks' = CancelBlocks
          /\ task' = (IF task = "running" THEN "stopping" ELSE task)
          /\ turn'.phase = (IF task = "running" THEN "stopping" ELSE "ended")
          /\ IF task # "running"
             THEN client'.done = client.done + 1 /\ client'.block # "open" /\ ~client'.thinking
             ELSE client'.done = client.done
      BY <1>2, <2>3, StoreFacts
    <3>2. /\ Excused(client.message, client'.message) /\ client'.message.error = TRUE
      BY <2>1, <3>1, ErrorFacts DEF Excused
    <3>3. client'.done = IF task # "running" THEN 1 ELSE 0
      BY <1>2, <3>1
    <3> QED
      BY <1>2, <2>3, <3>1, <3>2, <3>3 DEF Excused
  <2>4. CASE turn.reason # "error"
    BY <1>2, <2>1, <2>2, <2>4, StoreFacts
  <2> QED
    BY <2>3, <2>4
<1>5. Cited \subseteq Cited' /\ (blocks' = CancelBlocks => Running' = {})
  BY <1>4, CitedStays
<1>6. QueueInv'
  BY <1>1, QueueStays DEF SameCalls
<1>7. TasksFit'
  BY <1>1, <1>2, <1>4, <1>5 DEF TasksFit, Fresh, Whole
<1>8. TurnFits'
  BY <1>1, <1>2, <1>3, <1>4 DEF TurnFits, Open, Before
<1>9. CitesFit'
  BY <1>1, <1>4, <1>5 DEF CitesFit, Before
<1>10. CallsMatch'
  BY <1>1, <1>4, CitationsKeepCalls DEF ToRead, Before
<1>11. EndsFit'
  BY <1>1, <1>2, <1>4 DEF EndsFit
<1>12. ClientFits'
  BY <1>1, <1>4, <1>10, <1>11 DEF ClientFits
<1>13. OwnIndex'
  BY <1>1 DEF OwnIndex
<1> QED
  BY <1>6, <1>7, <1>8, <1>9, <1>12, <1>13, Folded

\* The finally block keeps the invariant: from the suggestions, or when left.
LEMMA HaltHolds ==
  ASSUME TypeOK, TurnInv, turn.phase \in Open \ {"idle", "preparing", "excusing", "warming"},
         HaltedFrom(turn'), turn'.left = 0 => turn.phase = "suggesting", turn'.left \in Nat,
         IF turn.phase = "storing" THEN StoredAs(turn.reason) ELSE UNCHANGED kept
  PROVE  TurnInv'
<1> USE Unfolded
<1>1. /\ UNCHANGED <<asked, words, thoughts, sources, queue, writer>>
      /\ turn'.pending = turn.pending /\ turn'.at = turn.at /\ turn'.cites = turn.cites
      /\ turn'.reason = turn.reason /\ turn'.final = turn.final /\ turn'.refused = turn.refused
      /\ task' = (IF task = "running" THEN "stopping" ELSE task)
      /\ turn'.phase = (IF task = "running" THEN "stopping" ELSE IF turn.final THEN "ended" ELSE "saving")
      /\ blocks' = CancelBlocks
      /\ client'.message = client.message /\ client'.finish = client.finish
  BY DEF HaltedFrom, CallsSame, CitesSame
<1>2. /\ turn.left = 0 /\ turn.final = (turn.phase = "suggesting")
      /\ turn.phase # "suggesting" => kept = None
      /\ client.done = 0 /\ client.fault = FALSE
  BY DEF TurnFits, ClientFits, EndsFit, Open, TypeOK, Client
<1>3. /\ client'.fault = FALSE
      /\ IF task # "running" /\ turn.final /\ turn'.left = 0
         THEN client'.done = 1 /\ client'.block # "open" /\ ~client'.thinking
         ELSE client'.done = 0
  BY <1>2 DEF HaltedFrom
<1>4. Cited \subseteq Cited' /\ Running' = {}
  BY <1>1, CitedStays
<1>5. QueueInv'
  BY <1>1, QueueStays DEF SameCalls
<1>6. TasksFit'
  BY <1>1, <1>4 DEF TasksFit, Fresh, Whole
<1>7. kept' # None => /\ kept'.message = writer'
                      /\ kept'.reason = "stop" => turn'.reason = "stop"
                      /\ turn'.left = 0 => kept'.reason = turn'.reason
  BY <1>1, <1>2 DEF TurnFits, StoredAs
<1>8. TurnFits'
  <2>1. turn'.phase \in {"stopping", "saving", "ended"} /\ (turn.final => turn.phase = "suggesting")
    BY <1>1, <1>2
  <2>2. turn'.final /\ ~turn'.refused => kept' # None
    BY <1>1, <1>2, <2>1 DEF TurnFits
  <2>3. writer'.error = (turn'.reason = "error")
    BY <1>1 DEF TurnFits
  <2>4. /\ turn'.phase \in {"stopping", "saving"} /\ turn'.left = 0 => turn'.final /\ turn'.phase = "stopping"
        /\ turn'.phase = "ended" => turn'.final
    BY <1>1, <1>2
  <2> QED
    BY <1>7, <2>1, <2>2, <2>3, <2>4 DEF TurnFits, Open, Before
<1>9. CitesFit'
  BY <1>1, <1>4 DEF CitesFit, Before
<1>10. CallsMatch'
  BY <1>1, CitationsKeepCalls DEF ToRead, Before
<1>11. EndsFit'
  <2>1. turn'.left = 0 => /\ client'.message.error = (turn'.reason = "error" /\ turn'.phase \notin {"storing", "excusing"})
                          /\ client'.finish = (turn'.reason = "stop" /\ turn'.phase # "storing")
    <3>1. CASE turn'.left = 0
      <4>1. turn.phase = "suggesting" /\ turn.reason = "stop"
        BY <3>1 DEF TurnFits
      <4> QED
        BY <1>1, <1>2, <4>1 DEF ClientFits, EndsFit
    <3> QED
      BY <3>1
  <2> QED
    BY <1>1, <1>2, <1>3, <2>1 DEF EndsFit
<1>12. ClientFits'
  BY <1>1, <1>10, <1>11 DEF ClientFits
<1>13. OwnIndex'
  BY <1>1 DEF OwnIndex
<1> QED
  BY <1>5, <1>6, <1>8, <1>9, <1>12, <1>13, Folded

LEMMA SuggestHolds ==
  ASSUME TypeOK, TurnInv, Suggest
  PROVE  TurnInv'
<1>1. turn.phase = "suggesting" /\ HaltedFrom(turn) /\ UNCHANGED kept /\ turn.left \in Nat
  BY SuggestFacts, ChatTurnAssumption DEF TypeOK, Turn
<1>2. HaltedFrom(turn') /\ turn'.left = turn.left
  BY <1>1 DEF HaltedFrom
<1> QED
  BY <1>1, <1>2, HaltHolds DEF Open

LEMMA StoppedHolds ==
  ASSUME TypeOK, TurnInv, Stopped
  PROVE  TurnInv'
<1> USE Unfolded
<1>1. /\ turn.phase = "stopping"
      /\ UNCHANGED <<task, asked, words, thoughts, sources, queue, blocks, writer, kept>>
      /\ turn'.pending = turn.pending /\ turn'.at = turn.at /\ turn'.cites = turn.cites
      /\ turn'.reason = turn.reason /\ turn'.final = turn.final /\ turn'.refused = turn.refused
      /\ turn'.left = turn.left /\ turn'.phase = (IF turn.final THEN "ended" ELSE "saving")
      /\ client'.message = client.message /\ client'.finish = client.finish
  BY StoppedFacts DEF ModelSame, CallsSame, CitesSame, EndSame
<1>2. client.done = 0 /\ client.fault = FALSE
  BY <1>1 DEF ClientFits, EndsFit, TypeOK, Client
<1>3. /\ client'.fault = FALSE
      /\ IF turn.final /\ turn.left = 0
         THEN client'.done = 1 /\ client'.block # "open" /\ ~client'.thinking
         ELSE client'.done = 0
  BY <1>2, StoppedFacts
<1>4. QueueInv'
  BY <1>1, QueueStays DEF SameCalls
<1>5. TasksFit'
  BY <1>1 DEF TasksFit, Fresh, Whole, Running
<1>6. TurnFits'
  BY <1>1 DEF TurnFits, Open, Before
<1>7. CitesFit'
  BY <1>1 DEF CitesFit, Before, Cited
<1>8. CallsMatch'
  BY <1>1, CitationsKeepCalls DEF ToRead, Before
<1>9. EndsFit'
  <2>1. turn'.left = 0 => turn.final
    BY <1>1 DEF TurnFits
  <2>2. turn'.left = 0 => /\ client'.message.error = (turn'.reason = "error" /\ turn'.phase \notin {"storing", "excusing"})
                          /\ client'.finish = (turn'.reason = "stop" /\ turn'.phase # "storing")
    BY <1>1 DEF ClientFits, EndsFit
  <2> QED
    BY <1>1, <1>3, <2>1, <2>2 DEF EndsFit
<1>10. ClientFits'
  BY <1>1, <1>8, <1>9 DEF ClientFits
<1>11. OwnIndex'
  BY <1>1 DEF OwnIndex
<1> QED
  BY <1>4, <1>5, <1>6, <1>7, <1>10, <1>11, Folded

\* A turn that was left goes on without its client.
LEMMA LeftHolds ==
  ASSUME TypeOK, TurnInv, turn'.left > 0, turn'.left \in Nat,
         UNCHANGED <<task, asked, words, thoughts, sources, queue, blocks, writer, client>>,
         turn'.pending = turn.pending, turn'.at = turn.at, turn'.cites = turn.cites, turn'.reason = turn.reason,
         \/ /\ turn.phase \in {"preparing", "warming", "excusing"} /\ turn'.phase = "raised"
            /\ turn'.final = turn.final /\ turn'.refused = turn.refused
            /\ IF turn.phase = "excusing" THEN StoredAs("error") ELSE UNCHANGED kept
         \/ /\ turn.phase = "stopping" /\ turn'.phase = (IF turn.final THEN "ended" ELSE "saving")
            /\ turn'.final = turn.final /\ turn'.refused = turn.refused /\ UNCHANGED kept
         \/ /\ turn.phase = "saving" /\ turn'.phase = "ended" /\ StoredAs("cancelled")
            /\ turn'.final \/ turn'.left > 1
            /\ turn'.final => turn'.refused \/ kept' # None
  PROVE  TurnInv'
<1> USE Unfolded
<1>1. client.done = 0 /\ client.fault = FALSE
  BY DEF ClientFits, EndsFit, TypeOK, Client
<1>2. kept' # None => kept' = kept \/ kept'.message = writer
  BY DEF StoredAs
<1>3. /\ kept' # None => kept'.message = writer' /\ (kept'.reason = "stop" => turn'.reason = "stop")
      /\ kept # None => kept' = kept
  BY DEF StoredAs, TurnFits
<1>4. QueueInv'
  BY QueueStays DEF SameCalls
<1>5. TasksFit'
  BY DEF TasksFit, Fresh, Whole, Running
<1>6. TurnFits'
  <2>1. turn'.left # 0 /\ turn'.phase \in {"raised", "ended", "saving"}
    OBVIOUS
  <2>2. writer'.error = (turn'.reason = "error")
    BY DEF TurnFits
  <2>3. turn'.final /\ ~turn'.refused => kept' # None
    BY <1>3 DEF TurnFits
  <2>4. turn'.phase = "ended" => turn'.final \/ turn'.left > 1
    OBVIOUS
  <2> QED
    BY <1>3, <2>1, <2>2, <2>3, <2>4 DEF TurnFits, Open, Before
<1>7. CitesFit'
  BY DEF CitesFit, Before, Cited
<1>8. CallsMatch'
  BY CitationsKeepCalls DEF ToRead, Before
<1>9. EndsFit'
  BY <1>1 DEF EndsFit
<1>10. ClientFits'
  BY <1>8, <1>9 DEF ClientFits
<1>11. OwnIndex'
  BY DEF OwnIndex
<1> QED
  BY <1>4, <1>5, <1>6, <1>7, <1>10, <1>11, Folded

LEMMA SaveHolds ==
  ASSUME TypeOK, TurnInv, Save
  PROVE  TurnInv'
<1>1. turn.left \in Nat /\ turn.left # 0 /\ turn'.left = turn.left
  BY Unfolded, SaveFacts, ChatTurnAssumption DEF TypeOK, Turn, TurnFits
<1> QED
  BY <1>1, SaveFacts, LeftHolds DEF ModelSame, CallsSame, CitesSame

LEMMA LeaveHolds ==
  ASSUME TypeOK, TurnInv, Leave
  PROVE  TurnInv'
<1>1. /\ turn.left \in Nat /\ turn'.left = turn.left + 1 /\ turn'.left > 0 /\ turn'.left \in Nat
      /\ turn'.left # 0
  BY LeaveFacts, ChatTurnAssumption DEF TypeOK, Turn
<1>2. CASE /\ turn.phase \in {"preparing", "warming", "excusing", "stopping", "saving"}
           /\ ModelSame /\ UNCHANGED <<queue, blocks, writer, client>>
           /\ CallsSame /\ CitesSame
           /\ turn'.reason = turn.reason /\ turn'.final = turn.final /\ turn'.refused = turn.refused
           /\ turn'.phase = CASE turn.phase = "stopping" -> (IF turn.final THEN "ended" ELSE "saving")
                              [] turn.phase = "saving" -> "ended"
                              [] OTHER -> "raised"
           /\ CASE turn.phase = "excusing" -> StoredAs("error")
                [] turn.phase = "saving" -> StoredAs("cancelled")
                [] OTHER -> UNCHANGED kept
  <2>1. /\ UNCHANGED <<task, asked, words, thoughts, sources, queue, blocks, writer, client>>
        /\ turn'.pending = turn.pending /\ turn'.at = turn.at /\ turn'.cites = turn.cites
    BY <1>2 DEF ModelSame, CallsSame, CitesSame
  <2>2. CASE turn.phase \in {"preparing", "warming", "excusing"}
    BY <1>1, <1>2, <2>1, <2>2, LeftHolds
  <2>3. CASE turn.phase = "stopping"
    BY <1>1, <1>2, <2>1, <2>3, LeftHolds
  <2>4. CASE turn.phase = "saving"
    <3>1. turn.left # 0 /\ turn'.left > 1
      BY <1>1, <2>4, Unfolded DEF TurnFits
    <3>2. turn'.final => turn'.refused \/ kept' # None
      BY <1>2, <2>4, Unfolded DEF TurnFits, StoredAs
    <3> QED
      BY <1>1, <1>2, <2>1, <2>4, <3>1, <3>2, LeftHolds
  <2> QED
    BY <1>2, <2>2, <2>3, <2>4
<1>3. CASE /\ turn.phase \in {"started", "reading", "building", "citing", "placing", "storing", "suggesting"}
           /\ HaltedFrom(turn')
           /\ IF turn.phase = "storing" THEN StoredAs(turn.reason) ELSE UNCHANGED kept
  BY <1>1, <1>3, HaltHolds DEF Open
<1> QED
  BY <1>2, <1>3, LeaveFacts

-----------------------------------------------------------------------------
(* The whole turn. *)

LEMMA InitHolds ==
  ASSUME Init
  PROVE  TypeOK /\ TurnInv
<1>1. queue = <<>> /\ blocks = <<>> /\ queue \in Seq(Item) /\ blocks \in Seq(Block)
      /\ DOMAIN queue = {} /\ DOMAIN blocks = {}
  BY DEF Init
<1>2. Blank \in Message /\ writer = Blank
  BY ChatTurnAssumption DEF Init, Blank, Message, Call, NoCall, Citations
<1>3. /\ Blank.text = 0 /\ Blank.thought = 0 /\ Blank.cites = {} /\ Blank.artifacts = {}
      /\ Blank.error = FALSE
      /\ \A t \in Tool : /\ Blank.tool[t].args = None /\ Blank.tool[t].result = "none"
                         /\ Blank.tool[t].begun = FALSE
  BY DEF Blank, NoCall
<1> HIDE DEF Blank
<1>4. client \in Client /\ client.message = Blank /\ client.block = "none" /\ client.thinking = FALSE
      /\ client.finish = FALSE /\ client.fault = FALSE /\ client.done = 0
  BY <1>2 DEF Init, Client
<1>5. /\ turn \in Turn /\ turn.phase = "idle" /\ turn.pending = {} /\ turn.awaited = {} /\ turn.cites = {}
      /\ turn.reason = "cancelled" /\ turn.final = FALSE /\ turn.refused = FALSE /\ turn.left = 0
      /\ \A i \in Indices : turn.at[i] = None
  BY ChatTurnAssumption DEF Init, Turn, Phase, Citations, Reason
<1>6. TypeOK
  <2>1. /\ task \in {"none", "running", "done", "failed", "stopping", "cancelled"}
        /\ asked \in [Tool -> {"no", "started", "asked", "ok", "failed", "skipped"}]
        /\ sources \in BOOLEAN /\ kept \in Row \cup {None}
    BY DEF Init
  <2>2. words \in 0..MaxWords /\ thoughts \in 0..MaxWords
    BY ChatTurnAssumption DEF Init
  <2> QED
    BY <1>1, <1>2, <1>4, <1>5, <2>1, <2>2 DEF TypeOK
<1>7. Counted
  <2>1. Places(queue, Spoken) = {} /\ Places(queue, {"think"}) = {}
    BY <1>1 DEF Places
  <2>2. words = 0 /\ thoughts = 0 /\ writer.text = 0 /\ writer.thought = 0
    BY <1>2, <1>3 DEF Init
  <2> QED
    BY <2>1, <2>2, FS_EmptySet DEF Counted
<1>8. SentinelIsLast /\ CallsInOrder
  BY <1>1, <1>2, <1>3 DEF Init, SentinelIsLast, CallsInOrder, CallFits, Begun
<1>9. TasksFit /\ TurnFits
  BY <1>1, <1>2, <1>3, <1>5 DEF Init, TasksFit, TurnFits, Fresh, Open, Before
<1>10. CallsMatch /\ EndsFit
  BY <1>2, <1>3, <1>4, <1>5 DEF CallsMatch, CallMatches, EndsFit
<1>11. ClientFits /\ CitesFit /\ OwnIndex
  BY <1>2, <1>3, <1>4, <1>5, <1>10 DEF ClientFits, CitesFit, OwnIndex, Before
<1> QED
  BY <1>6, <1>7, <1>8, <1>9, <1>11 DEF TurnInv

LEMMA StaysHold ==
  ASSUME TypeOK, TurnInv, UNCHANGED vars
  PROVE  TypeOK' /\ TurnInv'
<1>1. TypeOK'
  BY DEF vars, TypeOK
<1>2. QueueInv'
  BY Unfolded, QueueStays DEF vars, SameCalls
<1>3. TasksFit' /\ TurnFits' /\ CitesFit' /\ OwnIndex'
  BY Unfolded DEF vars, TasksFit, Running, Whole, TurnFits, CitesFit, Cited, OwnIndex
<1>4. ClientFits'
  BY Unfolded DEF vars, ClientFits, CallsMatch, CallMatches, EndsFit
<1> QED
  BY <1>1, <1>2, <1>3, <1>4, Folded

LEMMA StepHolds ==
  ASSUME TypeOK, TurnInv, [Next]_vars
  PROVE  TypeOK' /\ TurnInv'
<1>1. CASE \/ \E kind \in Word : Say(kind)
           \/ \E t \in Tool : CallTool(t) \/ SkipTool(t)
           \/ TaskEnds
  BY <1>1, ModelTypes, ModelHolds
<1>2. CASE \E b \in DOMAIN blocks : Ground(b)
  BY <1>2, StreamTypes, GroundHolds
<1>3. CASE Stream
  <2>1. TypeOK'
    BY <1>3, StreamTypes
  <2>2. TurnInv'
    BY <1>3, BeginningHolds, ExcuseHolds, WordHolds, StartHolds, FragmentHolds, ResultHolds, CitedHolds,
       SentinelHolds, BuildHolds, CiteHolds, PlaceHolds, StoreHolds, SuggestHolds, StoppedHolds, SaveHolds
       DEF Stream
  <2> QED
    BY <2>1, <2>2
<1>4. CASE Leave
  BY <1>4, StreamTypes, LeaveHolds
<1>5. CASE Over \/ UNCHANGED vars
  BY <1>5, StaysHold DEF Over
<1> QED
  BY <1>1, <1>2, <1>3, <1>4, <1>5 DEF Next

LEMMA InvariantHolds == Spec => [](TypeOK /\ TurnInv)
<1>1. Init => TypeOK /\ TurnInv
  BY InitHolds
<1>2. TypeOK /\ TurnInv /\ [Next]_vars => TypeOK' /\ TurnInv'
  BY StepHolds
<1> QED
  BY <1>1, <1>2, PTL DEF Spec

\* What the invariant says of a stored reply.
LEMMA SoundReply ==
  ASSUME TypeOK, TurnInv
  PROVE  ReplyIsSound
<1> USE Unfolded
<1>1. KeptIsShown
  <2> SUFFICES ASSUME kept # None
               PROVE  /\ Shown(client.message, kept.message)
                      /\ turn.left = 0 /\ turn.phase = "ended" =>
                           /\ client.message.text = kept.message.text
                           /\ client.message.thought = kept.message.thought
                           /\ client.message.artifacts = kept.message.artifacts
                           /\ client.message.error = kept.message.error
                           /\ client.finish = (kept.reason = "stop")
    BY DEF KeptIsShown
  <2>1. kept.message = writer /\ (turn.left = 0 => kept.reason = turn.reason)
    BY DEF TurnFits
  <2>2. Shown(client.message, writer)
    <3>1. writer.text \in Nat /\ writer.thought \in Nat
      BY ChatTurnAssumption DEF TypeOK, Message
    <3>2. \A t \in Tool : CallMatches(t)
      BY DEF ClientFits, CallsMatch
    <3>3. client.message.text <= writer.text /\ client.message.thought <= writer.thought
      BY <3>1 DEF ClientFits
    <3> QED
      BY <3>2, <3>3 DEF Shown, ClientFits, CallMatches
  <2>3. ASSUME turn.left = 0, turn.phase = "ended"
        PROVE  /\ client.message.text = writer.text /\ client.message.thought = writer.thought
               /\ client.message.artifacts = writer.artifacts
               /\ client.message.error = writer.error /\ client.finish = (turn.reason = "stop")
    BY <2>3 DEF ClientFits, EndsFit, TurnFits
  <2> QED
    BY <2>1, <2>2, <2>3
<1>2. WholeAnswer
  BY DEF WholeAnswer, TurnFits, TasksFit, Whole
<1>3. ReplyIsKept
  <2>1. turn.left \in Nat
    BY ChatTurnAssumption DEF TypeOK, Turn
  <2> QED
    BY <2>1 DEF ReplyIsKept, TurnFits
<1>4. NoOrphans
  BY DEF NoOrphans, TasksFit
<1> QED
  BY <1>1, <1>2, <1>3, <1>4 DEF ReplyIsSound

\* Where a step gives calls their input, it is by the index of their fragments,
\* or from the call itself.
OwnInput(m, n, t) ==
    \/ n.tool[t].args = m.tool[t].args
    \/ n.tool[t].args = t
    \/ \E of \in Tool : Index[of] = Index[t] /\ n.tool[t].args = of
OwnInputs == \A t \in Tool : OwnInput(writer, writer', t) /\ OwnInput(client.message, client'.message, t)

LEMMA StepKeeps ==
  ASSUME TypeOK, TurnInv, [Next]_vars
  PROVE  /\ kept # None => kept' = kept
         /\ client.message.cites \subseteq client'.message.cites
         /\ OwnInputs
<1> DEFINE Keeps == /\ kept # None => kept' = kept
                    /\ client.message.cites \subseteq client'.message.cites
                    /\ OwnInputs
<1> USE Unfolded
<1> SUFFICES Keeps
  OBVIOUS
<1>0. /\ client.message.cites \subseteq Cited
      /\ turn.phase = "placing" => client.message.cites \subseteq turn.cites
      /\ client.message \in Message /\ writer \in Message
  BY TypesUnfold DEF CitesFit
<1>1. CASE UNCHANGED <<writer, kept, client>>
  BY <1>1 DEF OwnInputs, OwnInput
<1>2. CASE /\ writer'.tool = writer.tool /\ client'.message.tool = client.message.tool
           /\ client.message.cites \subseteq client'.message.cites
           /\ kept # None => kept' = kept
  BY <1>2 DEF OwnInputs, OwnInput
<1> HIDE DEF Keeps
<1>3. CASE \/ \E kind \in Word : Say(kind)
           \/ \E t \in Tool : CallTool(t) \/ SkipTool(t)
           \/ TaskEnds
           \/ \E b \in DOMAIN blocks : Ground(b)
  BY <1>1, <1>3 DEF Say, CallTool, SkipTool, TaskEnds, Ground
<1>4. CASE Begin \/ Prepare \/ WarmUp \/ Launch
  BY <1>0, <1>2, <1>4, BeginningFacts, ErrorFacts
<1>5. CASE Excuse
  BY <1>0, <1>2, <1>5, ExcuseFacts, ErrorFacts DEF StoredAs
<1>6. CASE ReadWord
  BY <1>2, <1>6, ReadWordFacts DEF WordsChanged, ReadOff
<1>7. CASE ReadStart
  <2>1. PICK t \in Tool :
          /\ CallChanged(writer, writer', t) /\ writer'.tool[t].args = writer.tool[t].args
          /\ CallChanged(client.message, client'.message, t) /\ kept' = kept
          /\ client'.message.tool[t].args = client.message.tool[t].args
    BY <1>7, ReadStartFacts DEF ReadOff
  <2>2. \A u \in Tool : /\ writer'.tool[u].args = writer.tool[u].args
                        /\ client'.message.tool[u].args = client.message.tool[u].args
    BY <2>1 DEF CallChanged
  <2> QED
    BY <2>1, <2>2 DEF Keeps, OwnInputs, OwnInput, CallChanged
<1>8. CASE ReadFragment
  <2> DEFINE of == Head(queue).tool
  <2>1. \/ UNCHANGED <<writer, client>> /\ kept' = kept
        \/ \E t \in Tool :
             /\ t = turn.at[Index[of]] /\ kept' = kept /\ of \in Tool
             /\ CallChanged(writer, writer', t) /\ writer'.tool[t].args = of
             /\ CallChanged(client.message, client'.message, t) /\ client'.message.tool[t].args = of
    BY <1>8, ReadFragmentFacts DEF ReadOff
  <2> HIDE DEF of
  <2>2. ASSUME NEW t \in Tool, t = turn.at[Index[of]], kept' = kept, of \in Tool,
               CallChanged(writer, writer', t), writer'.tool[t].args = of,
               CallChanged(client.message, client'.message, t), client'.message.tool[t].args = of
        PROVE  Keeps
    <3>1. Index[of] = Index[t]
      BY <2>2, ChatTurnAssumption DEF OwnIndex, Indices
    <3>2. \A u \in Tool \ {t} : writer'.tool[u] = writer.tool[u] /\ client'.message.tool[u] = client.message.tool[u]
      BY <2>2 DEF CallChanged
    <3>3. OwnInputs
      BY <2>2, <3>1, <3>2 DEF OwnInputs, OwnInput
    <3> QED
      BY <2>2, <3>3 DEF Keeps, CallChanged
  <2> QED
    BY <1>1, <2>1, <2>2
<1>9. CASE ReadResult
  <2>1. PICK t \in Tool :
          /\ CallChanged(writer, writer', t) /\ writer'.tool[t].args \in {t, writer.tool[t].args}
          /\ CallChanged(client.message, client'.message, t) /\ kept' = kept
          /\ client'.message.tool[t].args \in {t, client.message.tool[t].args}
    BY <1>9, ReadResultFacts DEF ReadOff
  <2>2. OwnInputs
    BY <2>1 DEF OwnInputs, OwnInput, CallChanged
  <2> QED
    BY <2>1, <2>2 DEF Keeps, CallChanged
<1>10. CASE ReadCited
  BY <1>0, <1>2, <1>10, ReadCitedFacts, PartialFacts DEF CitesChanged, ReadOff
<1>11. CASE ReadSentinel
  <2>1. kept' = kept
    BY <1>11, ReadSentinelFacts DEF ReadOff
  <2>2. CASE writer' = AddError(writer) /\ UNCHANGED client
    BY <1>0, <1>2, <2>1, <2>2, ErrorFacts
  <2>3. CASE task = "done" /\ writer' = Unstreamed(writer) /\ client' = CloseBlocks(client)
    <3>1. client'.message = client.message /\ \A t \in Tool : writer'.tool[t].args = writer.tool[t].args
      BY <1>0, <1>11, <2>3, TypesUnfold, ReadSentinelFacts, ClosingFacts, UnstreamedFacts
    <3> QED
      BY <2>1, <3>1 DEF Keeps, OwnInputs, OwnInput
  <2> QED
    BY <1>11, <2>2, <2>3, ReadSentinelFacts
<1>12. CASE Build
  <2>1. kept' = kept
    BY <1>12, BuildFacts
  <2>2. CASE \A field \in {"text", "thought", "tool", "cites", "error"} :
               writer'[field] = writer[field] /\ client'.message[field] = client.message[field]
    BY <1>2, <2>1, <2>2
  <2>3. CASE UNCHANGED <<writer, client>>
    BY <1>1, <2>1, <2>3
  <2>4. CASE writer' = AddError(writer) /\ UNCHANGED client
    BY <1>0, <1>2, <2>1, <2>4, ErrorFacts
  <2> QED
    BY <1>12, <2>2, <2>3, <2>4, BuildFacts
<1>13. CASE Cite
  BY <1>0, <1>1, <1>2, <1>13, CiteFacts, PartialFacts DEF CitesChanged
<1>14. CASE Place
  BY <1>0, <1>1, <1>2, <1>14, PlaceFacts DEF CitesChanged
<1>15. CASE Store
  <2>1. client'.message = AddError(client.message) \/ client'.message = client.message
    BY <1>15, StoreFacts
  <2> QED
    BY <1>0, <1>2, <1>15, <2>1, StoreFacts, ErrorFacts DEF StoredAs
<1>16. CASE Suggest \/ Stopped
  BY <1>2, <1>16, SuggestFacts, StoppedFacts DEF HaltedFrom
<1>17. CASE Save
  BY <1>2, <1>17, SaveFacts DEF StoredAs
<1>18. CASE Leave
  <2>1. (kept # None => kept' = kept) /\ writer' = writer /\ client'.message = client.message
    BY <1>18, LeaveFacts DEF StoredAs, HaltedFrom
  <2> QED
    BY <1>2, <2>1
<1>19. CASE Over \/ UNCHANGED vars
  BY <1>1, <1>19 DEF Over, vars
<1> QED
  BY <1>3, <1>4, <1>5, <1>6, <1>7, <1>8, <1>9, <1>10, <1>11, <1>12, <1>13, <1>14, <1>15, <1>16, <1>17,
     <1>18, <1>19 DEF Next, Stream

-----------------------------------------------------------------------------
(* What holds of every reply. *)

\* The chunks, the tasks, the message and what the client made of it have their
\* types, whatever the model says and whenever the client leaves.
THEOREM TypeCorrect == Spec => []TypeOK
<1>1. TypeOK /\ TurnInv => TypeOK
  OBVIOUS
<1> QED
  BY <1>1, InvariantHolds, PTL

\* What Stream.stream stores is what the client was shown; a complete answer
\* has every chunk the model wrote and the result of every call; a reply is
\* stored unless the database refused it or the stream was cancelled twice; and
\* neither the pipeline's task nor one that grounds a block outlives it.
THEOREM RepliesAreSound == Spec => []ReplyIsSound
<1>1. TypeOK /\ TurnInv => ReplyIsSound
  BY SoundReply
<1> QED
  BY <1>1, InvariantHolds, PTL

\* The row of a turn is stored once (the insert of the finally block is refused
\* where the answer was stored), and citations that were shown stay.
THEOREM NothingIsTakenBack == Spec => NothingTakenBack
<1>1. TypeOK /\ TurnInv /\ [Next]_vars =>
        [/\ kept # None => kept' = kept
         /\ client.message.cites \subseteq client'.message.cites]_vars
  BY StepKeeps
<1> QED
  BY <1>1, InvariantHolds, PTL DEF Spec, NothingTakenBack

\* A client that stays is sent one end marker, after every other part, with no
\* block left open (VercelProtocolHandler.handle_stream and sse).
THEOREM PartsComeInOrder == Spec => []PartsInOrder
<1>1. TypeOK /\ TurnInv => PartsInOrder
  BY Unfolded DEF PartsInOrder, ClientFits, EndsFit
<1> QED
  BY <1>1, InvariantHolds, PTL

\* No two calls stream their fragments at one index.
IndexesApart == \A t \in Tool, u \in Tool : Index[t] = Index[u] => t = u

\* The input shown and stored for a call is its own, although fragments carry
\* an index only: as long as no two calls have the same one.
THEOREM InputsAreOwn == IndexesApart => (Spec => []InputIsOwn)
<1> SUFFICES ASSUME IndexesApart PROVE Spec => []InputIsOwn
  OBVIOUS
<1>1. Init => InputIsOwn
  <2> SUFFICES ASSUME Init, NEW t \in Tool
               PROVE  writer.tool[t].args = None /\ client.message.tool[t].args = None
    BY DEF InputIsOwn
  <2>1. writer = Blank /\ client.message = Blank
    BY DEF Init
  <2>2. Blank.tool[t].args = None
    BY DEF Blank, NoCall
  <2> QED
    BY <2>1, <2>2
<1>2. TypeOK /\ TurnInv /\ InputIsOwn /\ [Next]_vars => InputIsOwn'
  <2> SUFFICES ASSUME TypeOK, TurnInv, InputIsOwn, [Next]_vars, NEW t \in Tool
               PROVE  writer'.tool[t].args \in {t, None} /\ client'.message.tool[t].args \in {t, None}
    BY DEF InputIsOwn
  <2>1. writer.tool[t].args \in {t, None} /\ client.message.tool[t].args \in {t, None}
    BY DEF InputIsOwn
  <2>2. OwnInput(writer, writer', t) /\ OwnInput(client.message, client'.message, t)
    BY StepKeeps DEF OwnInputs
  <2> QED
    BY <2>1, <2>2 DEF OwnInput, IndexesApart
<1> QED
  BY <1>1, <1>2, InvariantHolds, PTL DEF Spec

\* The message a client gets when it opens the thread again (Agent.history) is
\* the one it was shown, except for calls whose output it was not sent.
THEOREM ReopenedRepliesAreAsShown == Spec => []ReopenedAsShown
<1>1. ASSUME TypeOK, TurnInv, kept # None, turn.phase = "ended", turn.left = 0
      PROVE  /\ \A field \in {"text", "thought", "artifacts", "error"} : Live[field] = Reopened[field]
             /\ Reopened.cites # {} => Live.cites = Reopened.cites
             /\ DOMAIN Live.tools = DOMAIN Reopened.tools
             /\ \A t \in DOMAIN Live.tools :
                  Live.tools[t].state \in {"output-available", "output-error"} =>
                    Live.tools[t] = Reopened.tools[t]
  <2> USE Unfolded
  <2>1. /\ kept.message = writer /\ client.message.text = writer.text
        /\ client.message.thought = writer.thought /\ client.message.artifacts = writer.artifacts
        /\ client.message.error = writer.error
        /\ writer.cites # {} => client.message.cites = writer.cites
        /\ \A t \in Tool : CallMatches(t)
    BY <1>1 DEF TurnFits, ClientFits, EndsFit, CallsMatch, CitesFit
  <2> DEFINE begun == {t \in Tool : writer.tool[t].begun}
  <2>2. /\ Live.text = client.message.text /\ Live.thought = client.message.thought
        /\ Live.cites = client.message.cites /\ Live.artifacts = client.message.artifacts
        /\ Live.error = client.message.error
        /\ Reopened.text = writer.text /\ Reopened.thought = writer.thought /\ Reopened.cites = writer.cites
        /\ Reopened.artifacts = writer.artifacts /\ Reopened.error = writer.error
    BY <2>1 DEF Live, Reopened, View
  <2>3. {t \in Tool : client.message.tool[t].begun} = begun
    BY <2>1 DEF CallMatches
  <2>4. /\ Live.tools = [t \in begun |-> LivePart(client.message.tool[t])]
        /\ Reopened.tools = [t \in begun |-> StoredPart(writer.tool[t])]
    BY <2>1, <2>3 DEF Live, Reopened, View
  <2>5. ASSUME NEW t \in begun, LivePart(client.message.tool[t]).state \in {"output-available", "output-error"}
        PROVE  LivePart(client.message.tool[t]) = StoredPart(writer.tool[t])
    <3>1. client.message.tool[t].result \in {"ok", "failed"}
      <4>1. client.message.tool[t].result \in {"none", "ok", "failed"}
        BY <1>1, TypesUnfold DEF Message, Call
      <4> QED
        BY <2>5, <4>1 DEF LivePart, Failed
    <3>2. client.message.tool[t].result = writer.tool[t].result /\ client.message.tool[t].args = writer.tool[t].args
      BY <2>1, <3>1 DEF CallMatches
    <3> QED
      BY <3>1, <3>2 DEF LivePart, StoredPart, Failed
  <2> HIDE DEF begun
  <2> QED
    BY <2>1, <2>2, <2>4, <2>5
<1>2. TypeOK /\ TurnInv => ReopenedAsShown
  BY <1>1 DEF ReopenedAsShown
<1> QED
  BY <1>2, InvariantHolds, PTL

(***************************************************************************)
(* What the client and the model are told of the reply in the next turn.   *)
(***************************************************************************)

\* The sequence of a set has each of its elements once.
LEMMA SetToSeqIs ==
    ASSUME NEW C, IsFiniteSet(C)
    PROVE  /\ Cardinality(C) \in Nat
           /\ SetToSeq(C) \in [1..Cardinality(C) -> C]
           /\ \A i \in 1..Cardinality(C), j \in 1..Cardinality(C) :
                 SetToSeq(C)[i] = SetToSeq(C)[j] => i = j
           /\ \A t \in C : \E i \in 1..Cardinality(C) : SetToSeq(C)[i] = t
<1> DEFINE n == Cardinality(C)
           s == SetToSeq(C)
<1>1. n \in Nat /\ ExistsBijection(1..n, C)
  BY FS_CardinalityType
<1>2. PICK b \in [1..n -> C] : IsInjective(b)
  BY <1>1 DEF ExistsBijection, Bijection, Injection
<1>3. s \in [1..n -> C] /\ IsInjective(s)
  BY <1>2 DEF SetToSeq
<1>4. IsFiniteSet(1..n) /\ Cardinality(1..n) = n
  BY <1>1, FS_Interval
<1>5. s \in Injection(1..n, C)
  BY <1>3 DEF Injection
<1>6. s \in Surjection(1..n, C)
  BY <1>4, <1>5, FS_Injection
<1> QED
  BY <1>1, <1>3, <1>6 DEF Surjection, IsInjective

\* What a message with text or files is to the protocol, it is again from it.
LEMMA MessageReturns ==
    ASSUME NEW m, m.text \in BOOLEAN, m.files \in BOOLEAN
    PROVE  FromProtocol(ProtocolMessage(m)) =
              [role |-> m.role, text |-> m.text, files |-> m.files, calls |-> {}, results |-> <<>>]
<1> DEFINE p == ProtocolMessage(m)
<1>1. p.role = m.role /\ p.parts = FileParts(m) \o TextParts(m)
  BY DEF ProtocolMessage
<1> DEFINE T == {"file", "text"}
<1>2. <<"file">> \in Seq(T) /\ <<"text">> \in Seq(T) /\ <<>> \in Seq(T)
  OBVIOUS
<1> HIDE DEF T
<1>3. /\ Contains(p.parts, "text") = m.text
      /\ Contains(p.parts, "file") = m.files
  <2>1. CASE m.files /\ m.text
    <3>1. p.parts = <<"file">> \o <<"text">>
      BY <1>1, <2>1 DEF FileParts, TextParts
    <3>2. Len(p.parts) = 2 /\ p.parts[1] = "file" /\ p.parts[2] = "text"
      BY <1>2, <3>1, ConcatProperties
    <3> HIDE DEF p
    <3> QED
      BY <2>1, <3>2 DEF Contains
  <2>2. CASE m.files /\ ~m.text
    <3>1. p.parts = <<"file">> \o <<>>
      BY <1>1, <2>2 DEF FileParts, TextParts
    <3>2. Len(p.parts) = 1 /\ p.parts[1] = "file"
      BY <1>2, <3>1, ConcatProperties
    <3> HIDE DEF p
    <3>3. 1..Len(p.parts) = {1}
      BY <3>2
    <3>4. Contains(p.parts, "text") = FALSE /\ Contains(p.parts, "file") = TRUE
      BY <3>2, <3>3 DEF Contains
    <3> QED
      BY <2>2, <3>4
  <2>3. CASE ~m.files /\ m.text
    <3>1. p.parts = <<>> \o <<"text">>
      BY <1>1, <2>3 DEF FileParts, TextParts
    <3>2. Len(p.parts) = 1 /\ p.parts[1] = "text"
      BY <1>2, <3>1, ConcatProperties
    <3> HIDE DEF p
    <3>3. 1..Len(p.parts) = {1}
      BY <3>2
    <3>4. Contains(p.parts, "text") = TRUE /\ Contains(p.parts, "file") = FALSE
      BY <3>2, <3>3 DEF Contains
    <3> QED
      BY <2>3, <3>4
  <2>4. CASE ~m.files /\ ~m.text
    <3>1. p.parts = <<>> \o <<>>
      BY <1>1, <2>4 DEF FileParts, TextParts
    <3>2. Len(p.parts) = 0
      BY <1>2, <3>1, ConcatProperties
    <3> HIDE DEF p
    <3>3. \A i \in 1..Len(p.parts) : FALSE
      BY <3>2
    <3> QED
      BY <2>4, <3>3 DEF Contains
  <2> QED
    BY <2>1, <2>2, <2>3, <2>4
<1> QED
  BY <1>1, <1>3 DEF FromProtocol

\* One message, read back.
LEMMA ReadOne ==
    ASSUME NEW a
    PROVE  ToChatMessages(<<a>>) = WithMessage(<<>>, FromProtocol(a))
<1> DEFINE messages == <<a>>
           Says(f, n) == IF n = 0 THEN <<>> ELSE WithMessage(f[n - 1], FromProtocol(messages[n]))
           from == CHOOSE f : f = [n \in 0..Len(messages) |-> Says(f, n)]
           one == WithMessage(<<>>, FromProtocol(a))
           g == [n \in 0..1 |-> IF n = 0 THEN <<>> ELSE one]
<1>1. ToChatMessages(messages) = from[Len(messages)]
  BY DEF ToChatMessages
<1>2. Len(messages) = 1 /\ messages[1] = a /\ 0..1 = {0, 1}
  OBVIOUS
<1>3. g = [n \in 0..1 |-> Says(g, n)]
  <2>1. g[0] = <<>> /\ g[1] = one /\ g = [n \in 0..1 |-> g[n]]
    OBVIOUS
  <2> HIDE DEF g
  <2>2. Says(g, 0) = <<>> /\ Says(g, 1) = one
    BY <1>2, <2>1
  <2> HIDE DEF Says, one
  <2>3. \A n \in 0..1 : g[n] = Says(g, n)
    BY <1>2, <2>1, <2>2
  <2> QED
    BY <2>1, <2>3
<1> HIDE DEF g
<1>4. from = [n \in 0..1 |-> Says(from, n)]
  <2> HIDE DEF Says
  <2>1. from = CHOOSE f : f = [n \in 0..1 |-> Says(f, n)]
    BY <1>2
  <2> HIDE DEF from
  <2> QED
    BY <1>3, <2>1
<1> HIDE DEF from
<1>5. from[0] = Says(from, 0) /\ from[1] = Says(from, 1)
  <2> HIDE DEF Says
  <2> QED
    BY <1>2, <1>4
<1>6. from[1] = one
  BY <1>2, <1>5
<1> QED
  BY <1>1, <1>2, <1>6

\* A message of the user is itself again.
LEMMA UserReturns ==
    ASSUME NEW u \in UserMessage
    PROVE  FromProtocol(ProtocolMessage(u)) = u
<1>1. u.text \in BOOLEAN /\ u.files \in BOOLEAN
  BY DEF UserMessage
<1>2. u = [role |-> u.role, text |-> u.text, files |-> u.files, calls |-> {}, results |-> <<>>]
  BY DEF UserMessage
<1>3. FromProtocol(ProtocolMessage(u)) =
         [role |-> u.role, text |-> u.text, files |-> u.files, calls |-> {}, results |-> <<>>]
  BY <1>1, MessageReturns
<1> QED
  BY <1>2, <1>3

\* A file and a text sent by the user come back as they were sent.
LEMMA UserMessagesDoReturn == UserMessagesReturn
<1> SUFFICES ASSUME NEW u \in UserMessage
             PROVE  ToChatMessages(<<ProtocolMessage(u)>>) = IF u.text \/ u.files THEN <<u>> ELSE <<>>
  BY DEF UserMessagesReturn
<1>1. FromProtocol(ProtocolMessage(u)) = u
  BY UserReturns
<1>2. Append(<<>>, u) = <<u>>
  OBVIOUS
<1> QED
  BY <1>1, <1>2, ReadOne DEF WithMessage

\* Three messages, read back.
LEMMA ReadThree ==
    ASSUME NEW a, NEW b, NEW c
    PROVE  ToChatMessages(<<a, b, c>>) =
              WithMessage(WithMessage(WithMessage(<<>>, FromProtocol(a)), FromProtocol(b)), FromProtocol(c))
<1> DEFINE messages == <<a, b, c>>
           Says(f, n) == IF n = 0 THEN <<>> ELSE WithMessage(f[n - 1], FromProtocol(messages[n]))
           from == CHOOSE f : f = [n \in 0..Len(messages) |-> Says(f, n)]
           x1 == WithMessage(<<>>, FromProtocol(a))
           x2 == WithMessage(x1, FromProtocol(b))
           x3 == WithMessage(x2, FromProtocol(c))
           g == [n \in 0..3 |-> IF n = 0 THEN <<>> ELSE IF n = 1 THEN x1 ELSE IF n = 2 THEN x2 ELSE x3]
<1>1. ToChatMessages(messages) = from[Len(messages)]
  BY DEF ToChatMessages
<1>2. /\ Len(messages) = 3 /\ 0..3 = {0, 1, 2, 3}
      /\ messages[1] = a /\ messages[2] = b /\ messages[3] = c
  OBVIOUS
<1>3. g = [n \in 0..3 |-> Says(g, n)]
  <2> HIDE DEF messages, x1, x2, x3
  <2>1. g[0] = <<>> /\ g[1] = x1 /\ g[2] = x2 /\ g[3] = x3 /\ g = [n \in 0..3 |-> g[n]]
    OBVIOUS
  <2> HIDE DEF g
  <2>2. Says(g, 0) = <<>>
    OBVIOUS
  <2>3. Says(g, 1) = x1
    BY <1>2, <2>1 DEF x1
  <2>4. Says(g, 2) = x2
    BY <1>2, <2>1 DEF x2
  <2>5. Says(g, 3) = x3
    BY <1>2, <2>1 DEF x3
  <2> HIDE DEF Says
  <2>6. \A n \in 0..3 : g[n] = Says(g, n)
    BY <1>2, <2>1, <2>2, <2>3, <2>4, <2>5
  <2> QED
    BY <2>1, <2>6
<1> HIDE DEF g, messages, x1, x2, x3
<1>4. from = [n \in 0..3 |-> Says(from, n)]
  <2> HIDE DEF Says
  <2>1. from = CHOOSE f : f = [n \in 0..3 |-> Says(f, n)]
    BY <1>2
  <2> HIDE DEF from
  <2> QED
    BY <1>3, <2>1
<1> HIDE DEF from
<1>5. from[0] = Says(from, 0) /\ from[1] = Says(from, 1) /\ from[2] = Says(from, 2) /\ from[3] = Says(from, 3)
  <2> HIDE DEF Says
  <2> QED
    BY <1>2, <1>4
<1>6. from[0] = <<>>
  BY <1>5
<1>7. from[1] = x1
  BY <1>2, <1>5, <1>6 DEF x1
<1>8. from[2] = x2
  BY <1>2, <1>5, <1>7 DEF x2
<1>9. from[3] = x3
  BY <1>2, <1>5, <1>8 DEF x3
<1> QED
  BY <1>1, <1>2, <1>9 DEF messages, x1, x2, x3

\* The prompt of two messages.
LEMMA PromptOfTwo ==
    ASSUME NEW a, NEW b
    PROVE  Added(Added(<<>>, a), b) # <<>> =>
              Prompt(<<a, b>>) = Added(Added(<<>>, a), b)
<1> DEFINE messages == <<a, b>>
           Says(f, n) == IF n = 0 THEN <<>> ELSE Added(f[n - 1], messages[n])
           prompt == CHOOSE f : f = [n \in 0..Len(messages) |-> Says(f, n)]
           x1 == Added(<<>>, a)
           x2 == Added(x1, b)
           g == [n \in 0..2 |-> IF n = 0 THEN <<>> ELSE IF n = 1 THEN x1 ELSE x2]
<1>1. prompt[Len(messages)] # <<>> => Prompt(messages) = prompt[Len(messages)]
  BY DEF Prompt
<1>2. /\ Len(messages) = 2 /\ 0..2 = {0, 1, 2}
      /\ messages[1] = a /\ messages[2] = b
  OBVIOUS
<1>3. g = [n \in 0..2 |-> Says(g, n)]
  <2> HIDE DEF messages, x1, x2
  <2>1. g[0] = <<>> /\ g[1] = x1 /\ g[2] = x2 /\ g = [n \in 0..2 |-> g[n]]
    OBVIOUS
  <2> HIDE DEF g
  <2>2. Says(g, 0) = <<>>
    OBVIOUS
  <2>3. Says(g, 1) = x1
    BY <1>2, <2>1 DEF x1
  <2>4. Says(g, 2) = x2
    BY <1>2, <2>1 DEF x2
  <2> HIDE DEF Says
  <2>5. \A n \in 0..2 : g[n] = Says(g, n)
    BY <1>2, <2>1, <2>2, <2>3, <2>4
  <2> QED
    BY <2>1, <2>5
<1> HIDE DEF g, messages, x1, x2
<1>4. prompt = [n \in 0..2 |-> Says(prompt, n)]
  <2> HIDE DEF Says
  <2>1. prompt = CHOOSE f : f = [n \in 0..2 |-> Says(f, n)]
    BY <1>2
  <2> HIDE DEF prompt
  <2> QED
    BY <1>3, <2>1
<1> HIDE DEF prompt
<1>5. /\ prompt[0] = Says(prompt, 0) /\ prompt[1] = Says(prompt, 1) /\ prompt[2] = Says(prompt, 2)
  <2> HIDE DEF Says
  <2> QED
    BY <1>2, <1>4
<1>6. prompt[0] = <<>>
  BY <1>5
<1>7. prompt[1] = x1
  BY <1>2, <1>5, <1>6 DEF x1
<1>8. prompt[2] = x2
  BY <1>2, <1>5, <1>7 DEF x2
<1> QED
  BY <1>1, <1>2, <1>8 DEF messages, x1, x2

\* The prompt of three messages.
LEMMA PromptOfThree ==
    ASSUME NEW a, NEW b, NEW c
    PROVE  Added(Added(Added(<<>>, a), b), c) # <<>> =>
              Prompt(<<a, b, c>>) = Added(Added(Added(<<>>, a), b), c)
<1> DEFINE messages == <<a, b, c>>
           Says(f, n) == IF n = 0 THEN <<>> ELSE Added(f[n - 1], messages[n])
           prompt == CHOOSE f : f = [n \in 0..Len(messages) |-> Says(f, n)]
           x1 == Added(<<>>, a)
           x2 == Added(x1, b)
           x3 == Added(x2, c)
           g == [n \in 0..3 |-> IF n = 0 THEN <<>> ELSE IF n = 1 THEN x1 ELSE IF n = 2 THEN x2 ELSE x3]
<1>1. prompt[Len(messages)] # <<>> => Prompt(messages) = prompt[Len(messages)]
  BY DEF Prompt
<1>2. /\ Len(messages) = 3 /\ 0..3 = {0, 1, 2, 3}
      /\ messages[1] = a /\ messages[2] = b /\ messages[3] = c
  OBVIOUS
<1>3. g = [n \in 0..3 |-> Says(g, n)]
  <2> HIDE DEF messages, x1, x2, x3
  <2>1. g[0] = <<>> /\ g[1] = x1 /\ g[2] = x2 /\ g[3] = x3 /\ g = [n \in 0..3 |-> g[n]]
    OBVIOUS
  <2> HIDE DEF g
  <2>2. Says(g, 0) = <<>>
    OBVIOUS
  <2>3. Says(g, 1) = x1
    BY <1>2, <2>1 DEF x1
  <2>4. Says(g, 2) = x2
    BY <1>2, <2>1 DEF x2
  <2>5. Says(g, 3) = x3
    BY <1>2, <2>1 DEF x3
  <2> HIDE DEF Says
  <2>6. \A n \in 0..3 : g[n] = Says(g, n)
    BY <1>2, <2>1, <2>2, <2>3, <2>4, <2>5
  <2> QED
    BY <2>1, <2>6
<1> HIDE DEF g, messages, x1, x2, x3
<1>4. prompt = [n \in 0..3 |-> Says(prompt, n)]
  <2> HIDE DEF Says
  <2>1. prompt = CHOOSE f : f = [n \in 0..3 |-> Says(f, n)]
    BY <1>2
  <2> HIDE DEF prompt
  <2> QED
    BY <1>3, <2>1
<1> HIDE DEF prompt
<1>5. /\ prompt[0] = Says(prompt, 0) /\ prompt[1] = Says(prompt, 1) /\ prompt[2] = Says(prompt, 2)
      /\ prompt[3] = Says(prompt, 3)
  <2> HIDE DEF Says
  <2> QED
    BY <1>2, <1>4
<1>6. prompt[0] = <<>>
  BY <1>5
<1>7. prompt[1] = x1
  BY <1>2, <1>5, <1>6 DEF x1
<1>8. prompt[2] = x2
  BY <1>2, <1>5, <1>7 DEF x2
<1>9. prompt[3] = x3
  BY <1>2, <1>5, <1>8 DEF x3
<1> QED
  BY <1>1, <1>2, <1>9 DEF messages, x1, x2, x3

\* Appending to one.
LEMMA AppendToOne ==
    ASSUME NEW a, NEW b
    PROVE  Append(<<a>>, b) = <<a, b>>
<1> DEFINE T == {a, b}
<1>1. <<a>> \in Seq(T) /\ <<a, b>> \in Seq(T) /\ b \in T
  OBVIOUS
<1>2. /\ Append(<<a>>, b) \in Seq(T) /\ Len(Append(<<a>>, b)) = 2
      /\ \A i \in 1..2 : Append(<<a>>, b)[i] = <<a, b>>[i]
  BY <1>1, AppendProperties
<1> QED
  BY <1>1, <1>2, SeqEqual

\* Appending to two.
LEMMA AppendToTwo ==
    ASSUME NEW a, NEW b, NEW c
    PROVE  Append(<<a, b>>, c) = <<a, b, c>>
<1> DEFINE T == {a, b, c}
<1>1. <<a, b>> \in Seq(T) /\ <<a, b, c>> \in Seq(T) /\ c \in T
  OBVIOUS
<1>2. /\ Append(<<a, b>>, c) \in Seq(T) /\ Len(Append(<<a, b>>, c)) = 3
      /\ \A i \in 1..3 : Append(<<a, b>>, c)[i] = <<a, b, c>>[i]
  BY <1>1, AppendProperties
<1> QED
  BY <1>1, <1>2, SeqEqual

\* The messages of a prompt.
PromptMessage == [role : {"user", "assistant", "tool"}, text : BOOLEAN, of : SUBSET Handoff]

\* What a user says and what a reply says that did not delegate.
IsQuestion(m) == m.role = "user" /\ m.text = TRUE /\ m.calls = {}
IsAnswer(m) == m.role = "assistant" /\ m.text \in BOOLEAN /\ m.calls = {}

\* As they are in the prompt.
Asked == [role |-> "user", text |-> TRUE, of |-> {}]
Said(text) == [role |-> "assistant", text |-> text, of |-> {}]

\* A plain message in the prompt.
LEMMA PlainIs ==
    /\ \A m : IsQuestion(m) => Plain(m) = Asked
    /\ \A m : IsAnswer(m) => Plain(m) = Said(m.text)
BY DEF IsQuestion, IsAnswer, Plain, Asked, Said

\* The first question of a prompt.
LEMMA AddFirst ==
    ASSUME NEW q, IsQuestion(q)
    PROVE  Added(<<>>, q) = <<Asked>>
<1>1. Plain(q) = Asked /\ q.calls = {} /\ Append(<<>>, Asked) = <<Asked>>
  BY PlainIs DEF IsQuestion
<1>2. Merged(<<>>, Asked) = <<Asked>>
  BY <1>1 DEF Merged
<1> QED
  BY <1>1, <1>2 DEF Added

\* A plain answer to it.
LEMMA AddAnswer ==
    ASSUME NEW r, IsAnswer(r)
    PROVE  Added(<<Asked>>, r) = <<Asked, Said(r.text)>>
<1>1. Plain(r) = Said(r.text) /\ r.calls = {}
  BY PlainIs DEF IsAnswer
<1>2. Append(<<Asked>>, Said(r.text)) = <<Asked, Said(r.text)>>
  BY AppendToOne
<1>3. Last(<<Asked>>) = Asked
  BY DEF Last
<1>4. Merged(<<Asked>>, Said(r.text)) = Append(<<Asked>>, Said(r.text))
  BY <1>3 DEF Merged, Asked, Said
<1> QED
  BY <1>1, <1>2, <1>4 DEF Added

\* A question after an answer.
LEMMA AddLast ==
    ASSUME NEW q, IsQuestion(q), NEW text
    PROVE  Added(<<Asked, Said(text)>>, q) = <<Asked, Said(text), Asked>>
<1>1. Plain(q) = Asked /\ q.calls = {}
  BY PlainIs DEF IsQuestion
<1>2. Append(<<Asked, Said(text)>>, Asked) = <<Asked, Said(text), Asked>>
  BY AppendToTwo
<1>3. Last(<<Asked, Said(text)>>).role # Asked.role
  BY DEF Last, Asked, Said
<1>4. Merged(<<Asked, Said(text)>>, Asked) = Append(<<Asked, Said(text)>>, Asked)
  BY <1>3 DEF Merged
<1> QED
  BY <1>1, <1>2, <1>4 DEF Added

\* A question after a question: merged into it, or behind it.
LEMMA AddAgain ==
    ASSUME NEW q, IsQuestion(q)
    PROVE  Added(<<Asked>>, q) = IF Merge THEN <<Asked>> ELSE <<Asked, Asked>>
<1>1. Plain(q) = Asked /\ q.calls = {}
  BY PlainIs DEF IsQuestion
<1>2. Append(<<Asked>>, Asked) = <<Asked, Asked>>
  BY AppendToOne
<1>3. Last(<<Asked>>) = Asked /\ Asked.of = {} /\ Asked.role = "user" /\ Asked.text = TRUE
  BY DEF Last, Asked
<1>4. Merged(<<Asked>>, Asked) = [<<Asked>> EXCEPT ![1].text = TRUE]
  <2>1. Len(<<Asked>>) = 1 /\ <<Asked>>[1].text = TRUE /\ <<Asked>> # <<>>
    BY <1>3
  <2>2. Merged(<<Asked>>, Asked) = [<<Asked>> EXCEPT ![1].text = @ \/ TRUE]
    BY <1>3, <2>1 DEF Merged
  <2> QED
    BY <2>2
<1>5. [<<Asked>> EXCEPT ![1].text = TRUE] = <<Asked>>
  <2>1. [Asked EXCEPT !.text = TRUE] = Asked
    <3>1. \A role, t, of : [[role |-> role, text |-> t, of |-> of] EXCEPT !.text = t]
                              = [role |-> role, text |-> t, of |-> of]
      OBVIOUS
    <3> QED
      BY <3>1 DEF Asked
  <2>2. [<<Asked>> EXCEPT ![1] = [Asked EXCEPT !.text = TRUE]] = <<Asked>>
    <3> HIDE DEF Asked
    <3>1. [<<Asked>> EXCEPT ![1] = Asked] = <<Asked>>
      OBVIOUS
    <3> QED
      BY <2>1, <3>1
  <2> QED
    BY <2>2
<1> QED
  BY <1>1, <1>2, <1>4, <1>5 DEF Added

\* What PromptFits says of one prompt.
Fits(prompt, text) ==
    /\ ResultsFollowCalls(prompt)
    /\ Cardinality({i \in DOMAIN prompt : prompt[i].role = "assistant" /\ prompt[i].text})
          = IF text THEN 1 ELSE 0
    /\ Last(prompt).role = "user"

\* A prompt without calls.
LEMMA PlainPromptFits ==
    ASSUME NEW text \in BOOLEAN
    PROVE  Fits(<<Asked, Said(text), Asked>>, text)
<1> DEFINE p == <<Asked, Said(text), Asked>>
<1>1. /\ Asked.role = "user" /\ Asked.of = {} /\ Said(text).role = "assistant"
      /\ Said(text).of = {} /\ Said(text).text = text
  BY DEF Asked, Said
<1>2. DOMAIN p = 1..3 /\ Len(p) = 3 /\ p[1] = Asked /\ p[2] = Said(text) /\ p[3] = Asked
  OBVIOUS
<1> HIDE DEF p
<1>3. \A i \in DOMAIN p : p[i].role # "tool" /\ p[i].of = {}
  BY <1>1, <1>2
<1>4. ResultsFollowCalls(p)
  BY <1>3 DEF ResultsFollowCalls
<1>5. {i \in DOMAIN p : p[i].role = "assistant" /\ p[i].text} = IF text THEN {2} ELSE {}
  BY <1>1, <1>2
<1>6. Last(p).role = "user"
  BY <1>1, <1>2 DEF Last
<1>7. Cardinality({2}) = 1 /\ Cardinality({}) = 0
  BY FS_Singleton, FS_EmptySet
<1>8. Fits(p, text)
  BY <1>4, <1>5, <1>6, <1>7 DEF Fits
<1> QED
  BY <1>8 DEF p

\* A prompt of which the reply is gone, having no text.
LEMMA UnansweredFits == Fits(<<Asked>>, FALSE) /\ Fits(<<Asked, Asked>>, FALSE)
<1>1. Asked.role = "user" /\ Asked.of = {}
  BY DEF Asked
<1>2. ASSUME NEW p \in {<<Asked>>, <<Asked, Asked>>} PROVE Fits(p, FALSE)
  <2>1. /\ \A i \in DOMAIN p : p[i] = Asked
        /\ Last(p) = Asked
    BY <1>2 DEF Last
  <2>2. ResultsFollowCalls(p)
    BY <1>1, <2>1 DEF ResultsFollowCalls
  <2>3. {i \in DOMAIN p : p[i].role = "assistant" /\ p[i].text} = {}
    BY <1>1, <2>1
  <2> QED
    BY <1>1, <2>1, <2>2, <2>3, FS_EmptySet DEF Fits
<1> QED
  BY <1>2

\* What a reply that delegated leaves in the prompt.
Delegated(r) == [role |-> "assistant", text |-> r.text, of |-> r.calls]
Result(r, t) == [role |-> "tool", text |-> r.results[t] # "none", of |-> {t}]

\* A handoff is replayed as the call and the results behind it.
LEMMA ReplayIs ==
    ASSUME NEW r, r.role = "assistant", r.text \in BOOLEAN, r.calls \in SUBSET Handoff, r.calls # {}
    PROVE  LET n == Cardinality(r.calls)
               c == SetToSeq(r.calls)
               h == ReplayHandoff(r)
           IN  /\ n \in Nat /\ n > 0 /\ h \in Seq(PromptMessage) /\ Len(h) = n + 1
               /\ h[1] = Delegated(r)
               /\ \A i \in 1..n : h[i + 1] = Result(r, c[i])
<1> DEFINE n == Cardinality(r.calls)
           c == SetToSeq(r.calls)
           tools == [i \in 1..n |-> Result(r, c[i])]
           h == <<Delegated(r)>> \o tools
<1>1. IsFiniteSet(r.calls)
  BY ConversationAssumption, FS_Subset
<1>2. n \in Nat /\ n > 0
  <2>1. n \in Nat /\ n # 0
    BY <1>1, SetToSeqIs, FS_EmptySet
  <2> QED
    BY <2>1
<1>3. c \in [1..n -> r.calls]
  BY <1>1, SetToSeqIs
<1>4. DOMAIN c = 1..n
  BY <1>3
<1>5. ReplayHandoff(r) = h
  BY <1>4 DEF ReplayHandoff, Delegated, Result
<1>6. Delegated(r) \in PromptMessage
  BY DEF Delegated, PromptMessage
<1>7. \A t \in r.calls : Result(r, t) \in PromptMessage
  BY DEF Result, PromptMessage
<1>8. \A i \in 1..n : Result(r, c[i]) \in PromptMessage
  BY <1>3, <1>7
<1> HIDE DEF n, c
<1>9. tools \in Seq(PromptMessage) /\ Len(tools) = n /\ \A i \in 1..n : tools[i] = Result(r, c[i])
  BY <1>2, <1>8
<1>10. /\ <<Delegated(r)>> \in Seq(PromptMessage) /\ Len(<<Delegated(r)>>) = 1
       /\ <<Delegated(r)>>[1] = Delegated(r)
  BY <1>6
<1> HIDE DEF tools
<1>11. /\ h \in Seq(PromptMessage) /\ Len(h) = 1 + n
       /\ \A i \in 1..(1 + n) : h[i] = IF i <= 1 THEN <<Delegated(r)>>[i] ELSE tools[i - 1]
  BY <1>9, <1>10, ConcatProperties
<1> HIDE DEF h
<1>12. h[1] = Delegated(r)
  BY <1>2, <1>10, <1>11
<1>13. ASSUME NEW i \in 1..n PROVE h[i + 1] = Result(r, c[i])
  <2>1. i + 1 \in 1..(1 + n) /\ ~(i + 1 <= 1) /\ (i + 1) - 1 = i
    BY <1>2
  <2> QED
    BY <1>9, <1>11, <2>1
<1>14. Len(h) = n + 1
  BY <1>2, <1>11
<1> QED
  BY <1>2, <1>5, <1>11, <1>12, <1>13, <1>14 DEF n, c

\* A question, a reply that delegated and a question.
LEMMA ReplayedPrompt ==
    ASSUME NEW q, IsQuestion(q), NEW r, r.role = "assistant", r.text \in BOOLEAN,
           r.calls \in SUBSET Handoff, r.calls # {}
    PROVE  LET n == Cardinality(r.calls)
               c == SetToSeq(r.calls)
               p == Added(Added(<<Asked>>, r), q)
           IN  /\ DOMAIN p = 1..(n + 3) /\ Len(p) = n + 3
               /\ p[1] = Asked /\ p[2] = Delegated(r) /\ p[n + 3] = Asked
               /\ \A i \in 3..(n + 2) : p[i] = Result(r, c[i - 2])
<1> DEFINE n == Cardinality(r.calls)
           c == SetToSeq(r.calls)
           h == ReplayHandoff(r)
           so == <<Asked>> \o h
           p == Append(so, Asked)
<1>1. /\ n \in Nat /\ n > 0 /\ h \in Seq(PromptMessage) /\ Len(h) = n + 1
      /\ h[1] = Delegated(r)
      /\ \A i \in 1..n : h[i + 1] = Result(r, c[i])
  BY ReplayIs
<1>2. Added(<<Asked>>, r) = so
  BY DEF Added
<1> HIDE DEF n, c, h
<1>3. Asked \in PromptMessage
  BY DEF Asked, PromptMessage
<1>4. <<Asked>> \in Seq(PromptMessage) /\ Len(<<Asked>>) = 1 /\ <<Asked>>[1] = Asked
  BY <1>3
<1>5. /\ so \in Seq(PromptMessage) /\ Len(so) = 1 + (n + 1)
      /\ \A i \in 1..(1 + (n + 1)) : so[i] = IF i <= 1 THEN <<Asked>>[i] ELSE h[i - 1]
  BY <1>1, <1>4, ConcatProperties
<1> HIDE DEF so
<1>6. so[1] = Asked /\ so[2] = Delegated(r)
  <2>1. 1 \in 1..(1 + (n + 1)) /\ 2 \in 1..(1 + (n + 1)) /\ 2 - 1 = 1
    BY <1>1
  <2> QED
    BY <1>1, <1>4, <1>5, <2>1
<1>7. ASSUME NEW i \in 3..(n + 2) PROVE so[i] = Result(r, c[i - 2])
  <2>1. i \in 1..(1 + (n + 1)) /\ ~(i <= 1) /\ i - 2 \in 1..n /\ i - 1 = (i - 2) + 1
    BY <1>1
  <2>2. so[i] = h[i - 1] /\ h[(i - 2) + 1] = Result(r, c[i - 2])
    BY <1>1, <1>5, <2>1
  <2> QED
    BY <2>1, <2>2
<1>8. Last(so).role = "tool"
  <2>1. n + 2 \in 3..(n + 2) /\ Len(so) = n + 2
    BY <1>1, <1>5
  <2>2. Last(so) = so[n + 2]
    BY <2>1 DEF Last
  <2>3. so[n + 2] = Result(r, c[(n + 2) - 2])
    BY <1>7, <2>1
  <2> QED
    BY <2>2, <2>3 DEF Result
<1>9. Added(so, q) = p
  <2>1. Plain(q) = Asked /\ q.calls = {}
    BY PlainIs DEF IsQuestion
  <2>2. Merged(so, Asked) = Append(so, Asked)
    BY <1>8 DEF Merged, Asked
  <2> QED
    BY <2>1, <2>2 DEF Added
<1>10. /\ p \in Seq(PromptMessage) /\ Len(p) = (1 + (n + 1)) + 1
       /\ \A i \in 1..(1 + (n + 1)) : p[i] = so[i]
       /\ p[(1 + (n + 1)) + 1] = Asked
  BY <1>3, <1>5, AppendProperties
<1> HIDE DEF p
<1>11. DOMAIN p = 1..(n + 3) /\ Len(p) = n + 3 /\ p[n + 3] = Asked
  <2>1. (1 + (n + 1)) + 1 = n + 3
    BY <1>1
  <2> QED
    BY <1>10, <2>1, LenProperties
<1>12. p[1] = Asked /\ p[2] = Delegated(r)
  BY <1>1, <1>6, <1>10
<1>13. ASSUME NEW i \in 3..(n + 2) PROVE p[i] = Result(r, c[i - 2])
  <2>1. i \in 1..(1 + (n + 1))
    BY <1>1
  <2> QED
    BY <1>7, <1>10, <2>1
<1> QED
  BY <1>2, <1>9, <1>11, <1>12, <1>13 DEF n, c

\* Its results follow its call, each once, and its text is there once.
LEMMA ReplayedFits ==
    ASSUME NEW q, IsQuestion(q), NEW r, r.role = "assistant", r.text \in BOOLEAN,
           r.calls \in SUBSET Handoff, r.calls # {}
    PROVE  LET p == Added(Added(<<Asked>>, r), q)
           IN  p # <<>> /\ Fits(p, r.text)
<1> DEFINE n == Cardinality(r.calls)
           c == SetToSeq(r.calls)
           p == Added(Added(<<Asked>>, r), q)
<1>1. IsFiniteSet(r.calls)
  BY ConversationAssumption, FS_Subset
<1>2. n \in Nat /\ n > 0
  BY ReplayIs
<1>3. /\ c \in [1..n -> r.calls]
      /\ \A i \in 1..n, j \in 1..n : c[i] = c[j] => i = j
      /\ \A t \in r.calls : \E i \in 1..n : c[i] = t
  BY <1>1, SetToSeqIs
<1>4. /\ DOMAIN p = 1..(n + 3) /\ Len(p) = n + 3
      /\ p[1] = Asked /\ p[2] = Delegated(r) /\ p[n + 3] = Asked
      /\ \A i \in 3..(n + 2) : p[i] = Result(r, c[i - 2])
  BY ReplayedPrompt
<1> HIDE DEF n, c, p
<1>5. /\ Asked.role = "user" /\ Asked.of = {}
      /\ Delegated(r).role = "assistant" /\ Delegated(r).of = r.calls /\ Delegated(r).text = r.text
      /\ \A t : Result(r, t).role = "tool" /\ Result(r, t).of = {t}
  BY DEF Asked, Delegated, Result
<1>6. \A i \in DOMAIN p : i = 1 \/ i = 2 \/ i = n + 3 \/ i \in 3..(n + 2)
  BY <1>2, <1>4
<1>7. \A i \in 3..(n + 2) : p[i].role = "tool" /\ p[i].of = {c[i - 2]} /\ i \in DOMAIN p
  BY <1>2, <1>4, <1>5
<1>8. /\ p[1].role = "user" /\ p[1].of = {} /\ p[n + 3].role = "user" /\ p[n + 3].of = {}
      /\ p[2].role = "assistant" /\ p[2].of = r.calls /\ p[2].text = r.text /\ 2 \in DOMAIN p
  BY <1>2, <1>4, <1>5
<1>9. ASSUME NEW i \in DOMAIN p, p[i].role = "tool"
      PROVE  \E j \in 1..(i - 1) : /\ p[i].of \subseteq p[j].of /\ p[j].role = "assistant"
                                   /\ \A k \in (j + 1)..i : p[k].role = "tool"
  <2>1. i \in 3..(n + 2)
    BY <1>6, <1>8, <1>9
  <2>2. p[i].of \subseteq p[2].of
    <3>1. i - 2 \in 1..n
      BY <1>2, <2>1
    <3> QED
      BY <1>3, <1>7, <1>8, <2>1, <3>1
  <2>3. 2 \in 1..(i - 1) /\ \A k \in (2 + 1)..i : k \in 3..(n + 2)
    BY <1>2, <2>1
  <2> QED
    BY <1>7, <1>8, <2>2, <2>3
<1>10. ASSUME NEW j \in DOMAIN p, NEW t \in p[j].of, p[j].role = "assistant"
       PROVE  Cardinality({i \in DOMAIN p : p[i].role = "tool" /\ p[i].of = {t}}) = 1
  <2>1. t \in r.calls
    BY <1>6, <1>7, <1>8, <1>10
  <2>2. PICK k \in 1..n : c[k] = t
    BY <1>3, <2>1
  <2>3. k + 2 \in 3..(n + 2) /\ (k + 2) - 2 = k
    BY <1>2
  <2>4. p[k + 2].role = "tool" /\ p[k + 2].of = {t} /\ k + 2 \in DOMAIN p
    BY <1>7, <2>2, <2>3
  <2>5. ASSUME NEW i \in DOMAIN p, p[i].role = "tool", p[i].of = {t} PROVE i = k + 2
    <3>1. i \in 3..(n + 2)
      BY <1>6, <1>8, <2>5
    <3>2. i - 2 \in 1..n /\ c[i - 2] = t
      BY <1>2, <1>7, <2>5, <3>1
    <3>3. i - 2 = k
      BY <1>3, <2>2, <3>2
    <3> QED
      BY <1>2, <3>1, <3>3
  <2>6. {i \in DOMAIN p : p[i].role = "tool" /\ p[i].of = {t}} = {k + 2}
    BY <2>4, <2>5
  <2> QED
    BY <2>6, FS_Singleton
<1>11. ResultsFollowCalls(p)
  BY <1>9, <1>10 DEF ResultsFollowCalls
<1>12. {i \in DOMAIN p : p[i].role = "assistant" /\ p[i].text} = IF r.text THEN {2} ELSE {}
  BY <1>6, <1>7, <1>8
<1>13. Last(p).role = "user"
  BY <1>4, <1>8 DEF Last
<1>14. Cardinality({2}) = 1 /\ Cardinality({}) = 0
  BY FS_Singleton, FS_EmptySet
<1>15. Fits(p, r.text)
  BY <1>11, <1>12, <1>13, <1>14 DEF Fits
<1>16. p # <<>>
  BY <1>2, <1>4
<1> QED
  BY <1>15, <1>16 DEF p

\* A question comes back as it is.
LEMMA QuestionIs ==
    /\ IsQuestion(Question) /\ Question.text = TRUE /\ Question.files = FALSE
    /\ FromProtocol(ProtocolMessage(Question)) = Question
<1>1. /\ IsQuestion(Question) /\ Question.text = TRUE /\ Question.files = FALSE
  BY DEF IsQuestion, Question
<1>2. Question \in UserMessage
  BY DEF Question, UserMessage
<1>3. FromProtocol(ProtocolMessage(Question)) = Question
  BY <1>2, UserReturns
<1> QED
  BY <1>1, <1>3

\* The prompt fits, whatever the reply and whichever way it comes back.
LEMMA PromptDoesFit == PromptFits
<1> SUFFICES ASSUME kept # None, NEW messages \in {Stored, SentBack}
             PROVE  Fits(Prompt(messages), kept.message.text > 0)
  BY DEF PromptFits, Fits
<1> DEFINE q == Question
           r == Reply(kept.message)
           said == kept.message.text > 0
<1>1. IsQuestion(q) /\ Added(<<>>, q) = <<Asked>>
  BY QuestionIs, AddFirst
<1>2. /\ r.role = "assistant" /\ r.text = said /\ r.files = FALSE
      /\ r.calls \in SUBSET Handoff /\ said \in BOOLEAN
  BY DEF Reply
<1>3. Stored = <<q, r, q>>
  BY DEF Stored
<1>4. Fits(Prompt(Stored), said)
  <2>1. CASE r.calls = {}
    <3>1. Added(Added(Added(<<>>, q), r), q) = <<Asked, Said(said), Asked>>
      BY <1>1, <1>2, <2>1, AddAnswer, AddLast DEF IsAnswer
    <3>2. Prompt(Stored) = <<Asked, Said(said), Asked>>
      BY <1>3, <3>1, PromptOfThree
    <3> QED
      BY <1>2, <3>2, PlainPromptFits
  <2>2. CASE r.calls # {}
    <3> DEFINE p == Added(Added(<<Asked>>, r), q)
    <3>1. p # <<>> /\ Fits(p, said)
      BY <1>1, <1>2, <2>2, ReplayedFits
    <3>2. Added(Added(Added(<<>>, q), r), q) = p
      BY <1>1
    <3> HIDE DEF p
    <3>3. Prompt(Stored) = p
      BY <1>3, <3>1, <3>2, PromptOfThree
    <3> QED
      BY <3>1, <3>3
  <2> QED
    BY <2>1, <2>2
<1>5. Fits(Prompt(SentBack), said)
  <2> DEFINE a == [role |-> "assistant", text |-> said, files |-> FALSE, calls |-> {}, results |-> <<>>]
  <2>1. FromProtocol(ProtocolMessage(r)) = a
    <3>1. r.text \in BOOLEAN /\ r.files \in BOOLEAN
      BY <1>2
    <3>2. PICK m : m = r
      OBVIOUS
    <3>3. m.text \in BOOLEAN /\ m.files \in BOOLEAN
      BY <3>1, <3>2
    <3>4. FromProtocol(ProtocolMessage(m)) =
             [role |-> m.role, text |-> m.text, files |-> m.files, calls |-> {}, results |-> <<>>]
      BY <3>3, MessageReturns
    <3> QED
      BY <1>2, <3>2, <3>4
  <2>2. a.text = said /\ a.files = FALSE /\ IsAnswer(a)
    BY <1>2 DEF IsAnswer
  <2>3. [i \in DOMAIN Stored |-> ProtocolMessage(Stored[i])]
           = <<ProtocolMessage(q), ProtocolMessage(r), ProtocolMessage(q)>>
    <3> HIDE DEF q, r
    <3> QED
      BY <1>3
  <2>4. SentBack = WithMessage(WithMessage(WithMessage(<<>>, q), a), q)
    BY <2>1, <2>3, ReadThree, QuestionIs DEF SentBack
  <2>5. WithMessage(<<>>, q) = <<q>>
    BY QuestionIs DEF WithMessage
  <2> HIDE DEF a, q, r, said
  <2>6. CASE said
    <3>1. WithMessage(<<q>>, a) = <<q, a>>
      BY <2>2, <2>6, AppendToOne DEF WithMessage
    <3>2. WithMessage(<<q, a>>, q) = <<q, a, q>>
      BY QuestionIs, AppendToTwo DEF WithMessage, q
    <3>3. SentBack = <<q, a, q>>
      BY <2>4, <2>5, <3>1, <3>2
    <3>4. Added(Added(Added(<<>>, q), a), q) = <<Asked, Said(said), Asked>>
      BY <1>1, <2>2, AddAnswer, AddLast
    <3>5. Prompt(SentBack) = <<Asked, Said(said), Asked>>
      BY <3>3, <3>4, PromptOfThree
    <3> QED
      BY <1>2, <3>5, PlainPromptFits
  <2>7. CASE ~said
    <3>1. WithMessage(<<q>>, a) = <<q>>
      BY <2>2, <2>7 DEF WithMessage
    <3>2. WithMessage(<<q>>, q) = <<q, q>>
      BY QuestionIs, AppendToOne DEF WithMessage, q
    <3>3. SentBack = <<q, q>>
      BY <2>4, <2>5, <3>1, <3>2
    <3>4. Added(Added(<<>>, q), q) \in {<<Asked>>, <<Asked, Asked>>}
      BY <1>1, AddAgain
    <3>5. Prompt(SentBack) \in {<<Asked>>, <<Asked, Asked>>}
      BY <3>3, <3>4, PromptOfTwo
    <3> QED
      BY <1>2, <2>7, <3>5, UnansweredFits
  <2> QED
    BY <2>6, <2>7
<1> QED
  BY <1>4, <1>5

\* A client that stays is told its parts in order and each call's own input,
\* finds the reply again as it saw it, and the model is given it in the next
\* turn, from the client or from the storage: the text once, every call with its
\* results right behind it, and a question last.
THEOREM TurnsAreToldWhole == IndexesApart => (Spec => []PartsAreSound)
<1> SUFFICES ASSUME IndexesApart PROVE Spec => []PartsAreSound
  OBVIOUS
<1>1. PartsInOrder /\ InputIsOwn /\ ReopenedAsShown => PartsAreSound
  BY UserMessagesDoReturn, PromptDoesFit DEF PartsAreSound
<1>2. Spec => []InputIsOwn
  BY InputsAreOwn
<1> QED
  BY <1>1, <1>2, PartsComeInOrder, ReopenedRepliesAreAsShown, PTL
=============================================================================
