------------------------------ MODULE ChatTurn ------------------------------
(* One reply of an agent: Stream.stream (adapters/base.py) reads the chunks   *)
(* the pipeline's task queues, turns them into events, grounds the answer's   *)
(* citations block by block in tasks of their own and stores the message      *)
(* through the StreamWriter (common.py); the Vercel handler                   *)
(* (protocols/vercel.py) turns the events into the parts a client follows.    *)
(* The client may go away wherever the stream awaits or yields.               *)
(*                                                                            *)
(* Text is counted in chunks; a block of the answer is the chunks up to its   *)
(* end. A tool call is named by its id, its arguments by the call they are    *)
(* of. The message is kept in the database, whose insert refuses a second row *)
(* with the same id.                                                          *)
EXTENDS Naturals, Sequences

CONSTANTS
    Tool,      \* the ids of the tool calls the model may make
    Index,     \* the delta index their fragments carry
    Mapped,    \* the calls whose tool has an artifact (tool_artifacts)
    MaxWords,  \* how many chunks of text and reasoning the model writes
    Ahead,     \* how many items the queue may hold
    MaxLeaves, \* how often the stream may be cancelled
    None

VARIABLES
    task,      \* the pipeline's task
    asked,     \* how far the pipeline is with each tool call
    words,     \* how many chunks of text the model wrote
    thoughts,  \* how many chunks of reasoning the model wrote
    sources,   \* whether a tool registered a source for this turn
    queue,     \* what the stream has still to read
    turn,      \* the stream's coroutine
    blocks,    \* the Grounder's tasks, one per block of the answer
    writer,    \* the StreamWriter's message
    kept,      \* the stored row
    client     \* what a client made of the parts it was sent

vars == <<task, asked, words, thoughts, sources, queue, turn, blocks, writer, kept, client>>
model == <<task, asked, words, thoughts, sources>>

Phase == {"idle", "preparing", "excusing", "warming", "started", "reading", "building", "citing", "placing",
          "storing", "suggesting", "stopping", "saving", "ended", "raised"}
Going == Phase \ {"idle", "ended", "raised"}
Word == {"text", "para", "think"}
Item == [kind : Word \cup {"cited", "sentinel"}]
        \cup [kind : {"start", "fragment", "result", "error"}, tool : Tool]
Indices == {Index[t] : t \in Tool}
Reason == {"stop", "error", "cancelled"}
Call == [args : Tool \cup {None}, result : {"none", "ok", "failed"}, begun : BOOLEAN]
Citations == SUBSET (1..MaxWords)
Message == [text : 0..MaxWords, thought : 0..MaxWords, tool : [Tool -> Call], cites : Citations,
            artifacts : SUBSET Tool, error : BOOLEAN]
Block == [to : 1..MaxWords, at : {"running", "cited", "empty", "cancelled"}]
Turn == [phase : Phase, pending : SUBSET Tool, at : [Indices -> Tool \cup {None}],
         tool : Tool \cup {None}, awaited : SUBSET Nat, cites : Citations,
         reason : Reason, final : BOOLEAN, refused : BOOLEAN, left : 0..MaxLeaves]
Client == [message : Message, block : {"none", "open", "ended"}, thinking : BOOLEAN,
           finish : BOOLEAN, fault : BOOLEAN, done : Nat]

Row == [message : Message, reason : Reason]

ASSUME ChatTurnAssumption ==
    /\ Index \in [Tool -> Nat] /\ Mapped \subseteq Tool
    /\ MaxWords \in Nat /\ Ahead \in Nat \ {0} /\ MaxLeaves \in Nat
    /\ None \notin Tool \cup Row

NoCall == [args |-> None, result |-> "none", begun |-> FALSE]
Blank == [text |-> 0, thought |-> 0, tool |-> [t \in Tool |-> NoCall], cites |-> {},
          artifacts |-> {}, error |-> FALSE]

TypeOK ==
    /\ task \in {"none", "running", "done", "failed", "stopping", "cancelled"}
    /\ asked \in [Tool -> {"no", "started", "asked", "ok", "failed", "skipped"}]
    /\ words \in 0..MaxWords /\ thoughts \in 0..MaxWords
    /\ sources \in BOOLEAN
    /\ queue \in Seq(Item)
    /\ turn \in Turn /\ turn.awaited \subseteq DOMAIN blocks
    /\ blocks \in Seq(Block)
    /\ writer \in Message
    /\ kept \in Row \cup {None}
    /\ client \in Client

Init ==
    /\ task = "none" /\ asked = [t \in Tool |-> "no"] /\ words = 0 /\ thoughts = 0
    /\ sources = FALSE /\ queue = <<>> /\ blocks = <<>> /\ kept = None /\ writer = Blank
    /\ turn = [phase |-> "idle", pending |-> {}, at |-> [i \in Indices |-> None],
               tool |-> None, awaited |-> {}, cites |-> {}, reason |-> "cancelled",
               final |-> FALSE, refused |-> FALSE, left |-> 0]
    /\ client = [message |-> Blank, block |-> "none", thinking |-> FALSE, finish |-> FALSE,
                 fault |-> FALSE, done |-> 0]

-----------------------------------------------------------------------------
(* The pipeline: external, seen through its streaming callback and its task. *)

Queued(item) == queue' = Append(queue, item)

\* The callback queues a chunk of the answer, or of its reasoning.
Say(kind) ==
    /\ task = "running" /\ Len(queue) < Ahead /\ words + thoughts < MaxWords
    /\ words' = words + (IF kind = "think" THEN 0 ELSE 1)
    /\ thoughts' = thoughts + (IF kind = "think" THEN 1 ELSE 0)
    /\ Queued([kind |-> kind])
    /\ UNCHANGED <<task, asked, sources, turn, blocks, writer, kept, client>>

\* A tool call streams its name, then its arguments, or fragments that never
\* parse; its result streams when the tool ran, and a source it found is
\* registered before that.
CallTool(t) ==
    /\ task = "running" /\ Len(queue) < Ahead
    /\ \/ asked[t] = "no" /\ asked' = [asked EXCEPT ![t] = "started"]
          /\ Queued([kind |-> "start", tool |-> t]) /\ UNCHANGED sources
       \/ asked[t] = "started" /\ asked' = [asked EXCEPT ![t] = "asked"]
          /\ (Queued([kind |-> "fragment", tool |-> t]) \/ UNCHANGED queue) /\ UNCHANGED sources
       \/ asked[t] = "asked" /\ asked' = [asked EXCEPT ![t] = "ok"]
          /\ Queued([kind |-> "result", tool |-> t]) /\ sources' = TRUE
       \/ asked[t] = "asked" /\ asked' = [asked EXCEPT ![t] = "failed"]
          /\ Queued([kind |-> "error", tool |-> t]) /\ UNCHANGED sources
    /\ UNCHANGED <<task, words, thoughts, turn, blocks, writer, kept, client>>

\* A call the budget refuses is answered in the run's messages only.
SkipTool(t) ==
    /\ task = "running" /\ asked[t] = "asked"
    /\ asked' = [asked EXCEPT ![t] = "skipped"]
    /\ UNCHANGED <<task, words, thoughts, sources, queue, turn, blocks, writer, kept, client>>

\* Mutant of SentinelLast: the sentinel overtakes the chunks.
SentinelFirst(q) == <<[kind |-> "sentinel"]>> \o q

\* The task ends, by itself or because it was cancelled; its callback queues
\* the sentinel.
SentinelLast(q) == Append(q, [kind |-> "sentinel"])
TaskEnds ==
    /\ \/ /\ task = "running" /\ task' \in {"done", "failed"}
          /\ task' = "done" => \A t \in Tool : asked[t] \notin {"started", "asked"}
       \/ task = "stopping" /\ task' = "cancelled"
    /\ queue' = SentinelLast(queue)
    /\ UNCHANGED <<asked, words, thoughts, sources, turn, blocks, writer, kept, client>>

-----------------------------------------------------------------------------
(* The Grounder. *)

Cursor == IF blocks = <<>> THEN 0 ELSE blocks[Len(blocks)].to
StartBlock(upTo) == Append(blocks, [to |-> upTo, at |-> "running"])
Running == {b \in DOMAIN blocks : blocks[b].at = "running"}
Cited == {blocks[b].to : b \in {b \in DOMAIN blocks : blocks[b].at = "cited"}}

\* Grounder.feed: a block that is complete is grounded while the text streams.
Feed(kind, text) ==
    IF kind = "para" /\ sources THEN StartBlock(text) ELSE blocks

\* A block's task ends, with citations or, when placing them failed, without.
Ground(b) ==
    /\ b \in Running
    /\ \E at \in {"cited", "empty"} : blocks' = [blocks EXCEPT ![b].at = at]
    /\ Queued([kind |-> "cited"])
    /\ UNCHANGED <<model, turn, writer, kept, client>>

CancelBlocks == [b \in DOMAIN blocks |->
                    IF b \in Running THEN [blocks[b] EXCEPT !.at = "cancelled"] ELSE blocks[b]]

-----------------------------------------------------------------------------
(* StreamWriter.add_chunk: the chunks of the stored message. A call's input  *)
(* and output are taken from its start to its first output.                  *)

AddText(m) == [m EXCEPT !.text = @ + 1]
AddReasoning(m) == [m EXCEPT !.thought = @ + 1]
AddStart(m, t) == [m EXCEPT !.tool[t].begun = TRUE]
Pending(m, t) == m.tool[t].begun /\ m.tool[t].result = "none"
AddInput(m, t, of) == IF Pending(m, t) THEN [m EXCEPT !.tool[t].args = of] ELSE m
AddOutput(m, t, r) == IF Pending(m, t) THEN [m EXCEPT !.tool[t].result = r] ELSE m
AddError(m) == [m EXCEPT !.error = TRUE]

(* VercelProtocolHandler.handle_stream: the parts as the client takes them.   *)
(* A fault is a part after [DONE], or the output of a call without input.     *)

Sent(c) == [c EXCEPT !.fault = @ \/ c.done > 0]
TextPart(c) ==
    [Sent(c) EXCEPT !.message.text = @ + 1, !.thinking = FALSE, !.block = "open"]
ReasoningPart(c) == [Sent(c) EXCEPT !.message.thought = @ + 1, !.thinking = TRUE]
StartPart(c, t) == [Sent(c) EXCEPT !.message.tool[t].begun = TRUE]
InputPart(c, t, of) == [Sent(c) EXCEPT !.message.tool[t].args = of]
OutputPart(c, t, r) ==
    [c EXCEPT !.message.tool[t].result = r,
              !.fault = @ \/ c.done > 0 \/ c.message.tool[t].args = None]
CitationsPart(c, to) == [Sent(c) EXCEPT !.message.cites = to]
ArtifactParts(c, t) == [Sent(c) EXCEPT !.message.artifacts = @ \cup {t}]
ErrorPart(c) == [Sent(c) EXCEPT !.message.error = TRUE]
CloseBlocks(c) == [c EXCEPT !.thinking = FALSE, !.block = IF @ = "open" THEN "ended" ELSE @]
FinishPart(c) == [Sent(CloseBlocks(c)) EXCEPT !.finish = TRUE]
\* sse closes what is still open, after the end marker.
EndMarker(c) == CloseBlocks([Sent(c) EXCEPT !.done = @ + 1])

-----------------------------------------------------------------------------
(* Stream.stream: each step runs to the next await or yield. *)

Go(phase) == turn' = [turn EXCEPT !.phase = phase]

\* The response begins (responses.py): the agent warms up and its adapter is
\* built inside it, so that a failure is an answer too.
Begin ==
    /\ turn.phase = "idle"
    /\ Go("preparing")
    /\ UNCHANGED <<model, queue, blocks, writer, kept, client>>

Prepare ==
    /\ turn.phase = "preparing"
    /\ \/ Go("warming") /\ UNCHANGED writer
       \/ /\ turn' = [turn EXCEPT !.phase = "excusing", !.reason = "error"]
          /\ writer' = AddError(writer)
    /\ UNCHANGED <<model, queue, blocks, kept, client>>

\* _FailedStream: nothing but the error.
ErrorAnswer(c) == EndMarker(ErrorPart(c))

\* The generator warms up in a thread, outside the try block.
WarmUp ==
    /\ turn.phase = "warming"
    /\ \/ Go("started") \/ Go("raised")
    /\ UNCHANGED <<model, queue, blocks, writer, kept, client>>

\* MessageStart was sent: the task starts, and its chunks are awaited; a task
\* that cannot be made is an error like those of Build.
Launch ==
    /\ turn.phase = "started"
    /\ \/ task' = "running" /\ Go("reading") /\ UNCHANGED writer
       \/ /\ turn' = [turn EXCEPT !.phase = "storing", !.reason = "error"]
          /\ writer' = AddError(writer) /\ UNCHANGED task
    /\ UNCHANGED <<asked, words, thoughts, sources, queue, blocks, kept, client>>

Read(kinds) ==
    /\ turn.phase = "reading" /\ queue # <<>> /\ Head(queue).kind \in kinds
    /\ queue' = Tail(queue)
    /\ UNCHANGED <<model, kept>>

ReadWord ==
    /\ Read(Word)
    /\ IF Head(queue).kind = "think"
       THEN /\ writer' = AddReasoning(writer) /\ client' = ReasoningPart(client)
            /\ UNCHANGED blocks
       ELSE /\ writer' = AddText(writer) /\ client' = TextPart(client)
            /\ blocks' = Feed(Head(queue).kind, writer.text + 1)
    /\ UNCHANGED turn

ReadStart ==
    /\ Read({"start"})
    /\ LET t == Head(queue).tool IN
       /\ turn' = [turn EXCEPT !.pending = @ \cup {t}, !.at[Index[t]] = t]
       /\ writer' = AddStart(writer, t) /\ client' = StartPart(client, t)
    /\ UNCHANGED blocks

\* Mutant of CallAt: the index is ignored.
AnyPending(i) == IF turn.pending = {} THEN None ELSE CHOOSE t \in turn.pending : TRUE

\* A fragment carries no name, and in Chat Completions no id: it belongs to
\* the last call started at its index, unless that has its input already.
CallAt(i) == turn.at[i]
ReadFragment ==
    /\ Read({"fragment"})
    /\ LET of == Head(queue).tool
           t == CallAt(Index[of])
       IN IF t \in turn.pending
          THEN /\ turn' = [turn EXCEPT !.pending = @ \ {t}]
               /\ writer' = AddInput(writer, t, of) /\ client' = InputPart(client, t, of)
          ELSE UNCHANGED <<turn, writer, client>>
    /\ UNCHANGED blocks

\* The call that ran carries the input of a call still without one.
Incomplete(t) == t \in turn.pending
ReadResult ==
    /\ Read({"result", "error"})
    /\ LET t == Head(queue).tool
           r == IF Head(queue).kind = "result" THEN "ok" ELSE "failed"
           w == IF Incomplete(t) THEN AddInput(writer, t, t) ELSE writer
           c == IF Incomplete(t) THEN InputPart(client, t, t) ELSE client
           build == r = "ok" /\ t \in Mapped
       IN /\ turn' = [turn EXCEPT !.pending = @ \ {t},
                                  !.phase = IF build THEN "building" ELSE "reading",
                                  !.tool = IF build THEN t ELSE None]
          /\ writer' = AddOutput(w, t, r) /\ client' = OutputPart(c, t, r)
    /\ UNCHANGED blocks

\* build_artifact: stored and shown as a call of its own, or nothing, or an
\* exception it does not catch.
Build ==
    /\ turn.phase = "building"
    /\ \/ /\ writer' = [writer EXCEPT !.artifacts = @ \cup {turn.tool}]
          /\ client' = ArtifactParts(client, turn.tool)
          /\ turn' = [turn EXCEPT !.phase = "reading", !.tool = None]
       \/ /\ turn' = [turn EXCEPT !.phase = "reading", !.tool = None]
          /\ UNCHANGED <<writer, client>>
       \/ /\ turn' = [turn EXCEPT !.phase = "storing", !.tool = None, !.reason = "error"]
          /\ writer' = AddError(writer) /\ UNCHANGED client
    /\ UNCHANGED <<model, queue, blocks, kept>>

Partial == IF Cited = {} THEN client ELSE CitationsPart(client, Cited)

ReadCited ==
    /\ Read({"cited"})
    /\ client' = Partial
    /\ UNCHANGED <<turn, blocks, writer>>

\* get_pipeline_result: results that were not streamed are stored, not sent.
Persisted(m, t) == asked[t] = "no" \/ m.tool[t].result # "none"
FromResponse(t) == IF asked[t] = "skipped" THEN "failed" ELSE asked[t]
Unstreamed(m) == [m EXCEPT !.tool = [t \in Tool |->
    IF Persisted(m, t) THEN m.tool[t] ELSE [m.tool[t] EXCEPT !.result = FromResponse(t)]]]

\* The wait for the citations begins: the rest of the answer is a block too.
Waiting == IF writer.text > Cursor THEN StartBlock(writer.text) ELSE blocks
ReadSentinel ==
    /\ Read({"sentinel"})
    /\ IF task = "failed"
       THEN /\ turn' = [turn EXCEPT !.phase = "storing", !.reason = "error"]
            /\ writer' = AddError(writer) /\ UNCHANGED <<blocks, client>>
       ELSE /\ writer' = Unstreamed(writer) /\ client' = CloseBlocks(client)
            /\ IF ~sources
               THEN /\ turn' = [turn EXCEPT !.phase = "storing", !.reason = "stop"]
                    /\ UNCHANGED blocks
               ELSE /\ blocks' = Waiting
                    /\ turn' = [turn EXCEPT !.phase = "citing",
                         !.awaited = {b \in DOMAIN blocks' : blocks'[b].at = "running"}]

\* The citations of the blocks grounded so far, not of those awaited only.
AllCited == Cited

\* Grounder.wait: a block that ended is shown while others are still awaited;
\* the wait ends with the last one, or at the timeout, and cancels the rest.
Cite ==
    /\ turn.phase = "citing"
    /\ LET still == turn.awaited \cap Running
           over == still = {} \/ still = turn.awaited
       IN IF over
          THEN /\ turn' = [turn EXCEPT !.phase = "placing", !.awaited = {}, !.cites = AllCited]
               /\ blocks' = CancelBlocks /\ UNCHANGED client
          ELSE /\ turn' = [turn EXCEPT !.awaited = still]
               /\ client' = Partial /\ UNCHANGED blocks
    /\ UNCHANGED <<model, queue, writer, kept>>

\* CitationsArtifact.store, and the whole answer's citations in the call that
\* showed the partial ones; a failure is logged.
Place ==
    /\ turn.phase = "placing"
    /\ turn' = [turn EXCEPT !.phase = "storing", !.reason = "stop"]
    /\ \/ /\ writer' = [writer EXCEPT !.cites = turn.cites]
          /\ client' = CitationsPart(client, turn.cites)
       \/ UNCHANGED <<writer, client>>
    /\ UNCHANGED <<model, queue, blocks, kept>>

-----------------------------------------------------------------------------
(* Storing the message and ending the stream. *)

\* Mutant of Insert: an update or insert.
Upsert(reason) == kept' = [message |-> writer, reason |-> reason]

\* Message.asave inserts: an id that is there already is refused.
Insert(reason) ==
    IF kept = None THEN kept' = [message |-> writer, reason |-> reason] ELSE UNCHANGED kept

\* No pipeline ran to store the reply: it is stored before it is shown.
Excuse ==
    /\ turn.phase = "excusing"
    /\ \E refused \in BOOLEAN :
         /\ IF refused THEN UNCHANGED kept ELSE Insert("error")
         /\ turn' = [turn EXCEPT !.phase = "ended", !.final = TRUE, !.refused = refused]
    /\ client' = ErrorAnswer(client)
    /\ UNCHANGED <<model, queue, blocks, writer>>

\* The finally block, up to its first await: the Grounder and the task are
\* cancelled; without a task to wait for the message is stored, unless it was.
Halt(t, c) ==
    LET wait == task = "running" IN
    /\ blocks' = CancelBlocks
    /\ task' = IF wait THEN "stopping" ELSE task
    /\ turn' = [t EXCEPT !.phase = IF wait THEN "stopping"
                                   ELSE IF t.final THEN "ended" ELSE "saving",
                         !.tool = None, !.awaited = {}]
    /\ client' = IF ~wait /\ t.final /\ t.left = 0 THEN EndMarker(c) ELSE c
    /\ UNCHANGED <<asked, words, thoughts, sources, queue, writer>>

\* finalize: the row is stored, or the database refuses it, which is logged.
\* A stored answer is followed by MessageEnd and the suggestions, an error is
\* shown and ends the stream.
Store ==
    /\ turn.phase = "storing"
    /\ \E refused \in BOOLEAN :
         /\ IF refused THEN UNCHANGED kept ELSE Insert(turn.reason)
         /\ LET t == [turn EXCEPT !.final = TRUE, !.refused = refused] IN
            IF turn.reason = "error"
            THEN Halt(t, ErrorPart(client))
            ELSE /\ turn' = [t EXCEPT !.phase = "suggesting"]
                 /\ client' = FinishPart(client)
                 /\ UNCHANGED <<model, queue, blocks, writer>>

\* The suggestions come, fail or time out.
Suggest ==
    /\ turn.phase = "suggesting"
    /\ Halt(turn, client)
    /\ UNCHANGED kept

\* Mutant of Waited: the wait for the task has no timeout.
Unbounded == task # "stopping"

\* The cancelled task ended, or took longer than a second.
Waited == TRUE
AfterStop == IF turn.final THEN "ended" ELSE "saving"
Stopped ==
    /\ turn.phase = "stopping" /\ Waited
    /\ Go(AfterStop)
    /\ client' = IF turn.final /\ turn.left = 0 THEN EndMarker(client) ELSE client
    /\ UNCHANGED <<model, queue, blocks, writer, kept>>

Save ==
    /\ turn.phase = "saving"
    /\ \E refused \in BOOLEAN :
         /\ IF refused THEN UNCHANGED kept ELSE Insert("cancelled")
         /\ turn' = [turn EXCEPT !.phase = "ended", !.final = TRUE, !.refused = @ \/ refused]
    /\ UNCHANGED <<model, queue, blocks, writer, client>>

\* The client goes away, or the server stops: the coroutine is cancelled where
\* it waits. An insert that is under way in its thread may still happen; the
\* wait for the task only swallows it.
Leave ==
    /\ turn.phase \in Going /\ turn.left < MaxLeaves
    /\ LET t == [turn EXCEPT !.left = @ + 1] IN
       CASE turn.phase \in {"preparing", "warming"} ->
              turn' = [t EXCEPT !.phase = "raised"] /\ UNCHANGED <<model, queue, blocks, writer, kept, client>>
         [] turn.phase = "excusing" ->
              /\ (UNCHANGED kept \/ Insert("error"))
              /\ turn' = [t EXCEPT !.phase = "raised"]
              /\ UNCHANGED <<model, queue, blocks, writer, client>>
         [] turn.phase = "storing" ->
              (UNCHANGED kept \/ Insert(turn.reason)) /\ Halt(t, client)
         [] turn.phase = "stopping" ->
              /\ turn' = [t EXCEPT !.phase = AfterStop]
              /\ UNCHANGED <<model, queue, blocks, writer, kept, client>>
         [] turn.phase = "saving" ->
              /\ (UNCHANGED kept \/ Insert("cancelled"))
              /\ turn' = [t EXCEPT !.phase = "ended"]
              /\ UNCHANGED <<model, queue, blocks, writer, client>>
         [] OTHER -> UNCHANGED kept /\ Halt(t, client)

Stream ==
    \/ Begin \/ Prepare \/ Excuse \/ WarmUp \/ Launch
    \/ ReadWord \/ ReadStart \/ ReadFragment \/ ReadResult \/ ReadCited \/ ReadSentinel
    \/ Build \/ Cite \/ Place \/ Store \/ Suggest \/ Stopped \/ Save

Over == turn.phase \in {"ended", "raised"} /\ task # "stopping" /\ UNCHANGED vars

Next ==
    \/ \E kind \in Word : Say(kind)
    \/ \E t \in Tool : CallTool(t) \/ SkipTool(t)
    \/ TaskEnds
    \/ \E b \in DOMAIN blocks : Ground(b)
    \/ Stream \/ Leave \/ Over

Spec == Init /\ [][Next]_vars

\* The event loop runs a coroutine that can go on: the stream's waits other
\* than the queue are for the database, a thread or a timeout. Nothing is
\* assumed of the model, of the grounding or of the client.
FairSpec == Spec /\ WF_vars(Stream)

-----------------------------------------------------------------------------
\* A message that was stored is what the client was shown: its text, its
\* reasoning, the input and result of every call, its artifacts and its error.
\* (get_events and get_citations_artifact store and send in one place each; a
\* client that went away may have seen less.)
Shown(c, m) ==
    /\ c.text <= m.text /\ c.thought <= m.thought
    /\ c.artifacts \subseteq m.artifacts
    /\ \A t \in Tool : /\ c.tool[t].begun => m.tool[t].begun
                       /\ c.tool[t].args # None => m.tool[t].args = c.tool[t].args
                       /\ c.tool[t].result # "none" => m.tool[t].result = c.tool[t].result

KeptIsShown ==
    kept # None =>
        /\ Shown(client.message, kept.message)
        /\ turn.left = 0 /\ turn.phase = "ended" =>
             /\ client.message.text = kept.message.text
             /\ client.message.thought = kept.message.thought
             /\ client.message.artifacts = kept.message.artifacts
             /\ client.message.error = kept.message.error
             /\ client.finish = (kept.reason = "stop")

\* A complete answer has all the model said: the sentinel is behind the last
\* chunk (Stream.stream's done callback), and no chunk is left unread.
WholeAnswer ==
    kept # None /\ kept.reason = "stop" =>
        /\ kept.message.text = words /\ kept.message.thought = thoughts
        /\ \A t \in Tool : asked[t] # "no" => kept.message.tool[t].result # "none"

\* A reply that began, or could not, is stored once its stream has ended, unless the
\* database refused it or the stream was cancelled twice.
ReplyIsKept ==
    turn.phase = "ended" /\ turn.left < 2 /\ ~turn.refused => kept # None

\* A client that stays is sent one end marker, parts in their order, and no
\* block is left open (VercelProtocolHandler.handle_stream and sse).
PartsInOrder ==
    /\ ~client.fault
    /\ turn.phase = "ended" /\ turn.left = 0 =>
         client.done = 1 /\ client.block # "open" /\ ~client.thinking

\* The input shown and stored for a call is the one the call was made with,
\* although fragments carry an index only.
InputIsOwn ==
    \A t \in Tool : {writer.tool[t].args, client.message.tool[t].args} \subseteq {t, None}

\* No task outlives the stream uncancelled: neither the pipeline's nor one
\* that grounds a block.
NoOrphans == turn.phase = "ended" => task # "running" /\ Running = {}

\* What is stored when a turn is over, and that nothing of it still runs.
ReplyIsSound == TypeOK /\ KeptIsShown /\ WholeAnswer /\ ReplyIsKept /\ NoOrphans

\* The stored message of a turn does not change (going away while the answer
\* is being stored makes the finally block store it again as cancelled), and
\* citations shown while the answer streams are not taken back.
NothingTakenBack ==
    [][/\ kept # None => kept' = kept
       /\ client.message.cites \subseteq client'.message.cites]_vars

\* A stream that was left, or whose pipeline ended, ends, whatever the model
\* and the grounding do.
StreamEnds == turn.left > 0 \/ task \in {"done", "failed"} ~> turn.phase \in {"ended", "raised"}

\* Every reply ends with the end marker the client waits for.
EndMarkerSent == turn.phase \in {"ended", "raised"} /\ turn.left = 0 => client.done = 1
=============================================================================
