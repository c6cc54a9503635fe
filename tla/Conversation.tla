---------------------------- MODULE Conversation ----------------------------
(* What a stored reply is afterwards: the message a client gets when it opens *)
(* the thread again (Agent.history and VercelProtocolHandler), and the        *)
(* messages the model gets with the next question (Stream.get_messages), from *)
(* the client, which sends the conversation back, or from the storage.        *)
EXTENDS ChatTurn, SequencesExt, FiniteSetsExt

CONSTANTS
    Handoff,   \* the calls that delegate to a subagent
    Merge      \* merge_messages

ASSUME ConversationAssumption == Handoff \subseteq Tool /\ IsFiniteSet(Handoff) /\ Merge \in BOOLEAN

-----------------------------------------------------------------------------
(* Messages as a client holds them. *)

\* unwrap_tool_output
Failed(result) == result = "failed"

\* The state of a tool part, while the parts arrive.
LivePart(call) ==
    [input |-> call.args,
     state |-> CASE Failed(call.result) -> "output-error"
                 [] call.result = "ok" -> "output-available"
                 [] call.result = "none" /\ call.args # None -> "input-available"
                 [] OTHER -> "input-streaming"]

\* from_chat_messages knows two states.
StoredPart(call) ==
    [input |-> call.args,
     state |-> IF Failed(call.result) THEN "output-error" ELSE "output-available"]

View(m, parts) ==
    [text |-> m.text, thought |-> m.thought, cites |-> m.cites, artifacts |-> m.artifacts,
     error |-> m.error, tools |-> [t \in {t \in Tool : m.tool[t].begun} |-> parts[t]]]

Live == View(client.message, [t \in Tool |-> LivePart(client.message.tool[t])])
Reopened == View(kept.message, [t \in Tool |-> StoredPart(kept.message.tool[t])])

-----------------------------------------------------------------------------
(* Messages of a conversation: text, files and the calls that delegated.      *)

UserMessage == [role : {"user"}, text : BOOLEAN, files : BOOLEAN, calls : {{}}, results : {<<>>}]

\* The reply as the storage gives it back.
Reply(m) ==
    LET calls == {t \in Handoff : m.tool[t].begun}
    IN  [role |-> "assistant", text |-> m.text > 0, files |-> FALSE, calls |-> calls,
         results |-> [t \in calls |-> m.tool[t].result]]

\* A file's part has the id of its document, which is all that is read of it.
FileParts(message) == IF message.files THEN <<"file">> ELSE <<>>
TextParts(message) == IF message.text THEN <<"text">> ELSE <<>>
ProtocolMessage(message) ==
    [role |-> message.role, parts |-> FileParts(message) \o TextParts(message)]

\* to_chat_messages: the text and the files; a message with neither is gone.
FromProtocol(message) ==
    [role |-> message.role, text |-> Contains(message.parts, "text"),
     files |-> Contains(message.parts, "file"), calls |-> {}, results |-> <<>>]
WithMessage(so, message) == IF message.text \/ message.files THEN Append(so, message) ELSE so
ToChatMessages(messages) ==
    LET from[n \in 0..Len(messages)] ==
            IF n = 0 THEN <<>> ELSE WithMessage(from[n - 1], FromProtocol(messages[n]))
    IN  from[Len(messages)]

-----------------------------------------------------------------------------
(* Stream.get_messages: the prompt.  Its user and assistant messages are       *)
(* plain, an assistant's message that delegated is followed by its results.    *)

Plain(message) == [role |-> message.role, text |-> message.text, of |-> {}]

ReplayHandoff(message) ==
    LET calls == SetToSeq(message.calls)
    IN  <<[role |-> "assistant", text |-> message.text, of |-> message.calls]>>
        \o [i \in DOMAIN calls |-> [role |-> "tool", text |-> message.results[calls[i]] # "none",
                                    of |-> {calls[i]}]]

\* Consecutive plain messages of a role become one.
Merged(prompt, message) ==
    IF prompt # <<>> /\ Last(prompt).role = message.role /\ Last(prompt).of = {}
    THEN [prompt EXCEPT ![Len(prompt)].text = @ \/ message.text]
    ELSE Append(prompt, message)

Added(prompt, message) ==
    IF message.calls # {} THEN prompt \o ReplayHandoff(message)
    ELSE IF Merge THEN Merged(prompt, Plain(message))
    ELSE Append(prompt, Plain(message))

Prompt(messages) ==
    LET prompt[n \in 0..Len(messages)] ==
            IF n = 0 THEN <<>> ELSE Added(prompt[n - 1], messages[n])
    IN  IF prompt[Len(messages)] = <<>> THEN <<[role |-> "system", text |-> TRUE, of |-> {}]>>
        ELSE prompt[Len(messages)]

\* The next turn: a question, the reply and another question.
Question == [role |-> "user", text |-> TRUE, files |-> FALSE, calls |-> {}, results |-> <<>>]
Stored == <<Question, Reply(kept.message), Question>>
SentBack == ToChatMessages([i \in DOMAIN Stored |-> ProtocolMessage(Stored[i])])

-----------------------------------------------------------------------------
\* A client that stayed to the end finds the reply again as it saw it: what
\* was said and thought, its artifacts, its error and its citations, unless
\* they could not be stored; and every call that ended, with its input.
\* (A call without a result reopens as one that returned nothing; README.)
ReopenedAsShown ==
    kept # None /\ turn.phase = "ended" /\ turn.left = 0 =>
        /\ \A field \in {"text", "thought", "artifacts", "error"} : Live[field] = Reopened[field]
        /\ Reopened.cites # {} => Live.cites = Reopened.cites
        /\ DOMAIN Live.tools = DOMAIN Reopened.tools
        /\ \A t \in DOMAIN Live.tools :
              Live.tools[t].state \in {"output-available", "output-error"} =>
                 Live.tools[t] = Reopened.tools[t]

\* A file and a text sent by the user come back as they were sent.
UserMessagesReturn ==
    \A u \in UserMessage :
        ToChatMessages(<<ProtocolMessage(u)>>) = IF u.text \/ u.files THEN <<u>> ELSE <<>>

\* A model is never given the result of a call it was not given, nor a call
\* without its result right behind it; and it is given the reply's text once.
ResultsFollowCalls(prompt) ==
    /\ \A i \in DOMAIN prompt : prompt[i].role = "tool" =>
          \E j \in 1..(i - 1) : /\ prompt[i].of \subseteq prompt[j].of /\ prompt[j].role = "assistant"
                                /\ \A k \in (j + 1)..i : prompt[k].role = "tool"
    /\ \A j \in DOMAIN prompt : \A t \in prompt[j].of : prompt[j].role = "assistant" =>
          Cardinality({i \in DOMAIN prompt : prompt[i].role = "tool" /\ prompt[i].of = {t}}) = 1

PromptFits ==
    kept # None =>
        \A messages \in {Stored, SentBack} :
            /\ ResultsFollowCalls(Prompt(messages))
            /\ Cardinality({i \in DOMAIN Prompt(messages) :
                              Prompt(messages)[i].role = "assistant" /\ Prompt(messages)[i].text})
                 = IF kept.message.text > 0 THEN 1 ELSE 0
            /\ Last(Prompt(messages)).role = "user"

\* What a client that stays is told, what it is told when it returns, and what
\* the model is told of it in the next turn.
PartsAreSound ==
    PartsInOrder /\ InputIsOwn /\ ReopenedAsShown /\ UserMessagesReturn /\ PromptFits

\* "`Stream.get_messages` rebuilds each handoff as the assistant/tool pair it
\* originally was" (docs/content/manual/agent.md): of a reply that delegated,
\* the next turn is given the report.
HandoffsAreReplayed ==
    kept # None => \A t \in Reply(kept.message).calls :
                      \E i \in DOMAIN Prompt(SentBack) : Prompt(SentBack)[i].of = {t}
=============================================================================
