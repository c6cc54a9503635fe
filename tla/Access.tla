------------------------------- MODULE Access -------------------------------
(***************************************************************************)
(* What a request may reach: the default permission rules of every domain  *)
(* (permissions.py) and each service call that asks them, as the steps it  *)
(* takes: rows it looks up, questions it asks, conditions it checks and    *)
(* what it then reads or writes.  A call stops at the first step that      *)
(* fails, and that step decides the answer.                                *)
(*                                                                         *)
(* The memory or the agent that is shared, and with whom, is the state of  *)
(* Sharing.  In a world with a shared memory the thread's agent is one     *)
(* declared in code; in one with a shared agent it is that one.            *)
(***************************************************************************)
EXTENDS Sharing, SequencesExt

Caller == User \cup {None}      \* None: an anonymous request

\* Who asks, whether the thread (workflow, run) named is theirs, whether they
\* are staff, and which of the rows and conditions named below hold.
Worlds(names) ==
    {w \in [who : Caller, mine : BOOLEAN, staff : BOOLEAN, have : SUBSET names] :
        w.who = None => ~w.mine /\ ~w.staff}

(***************************************************************************)
(* Steps.                                                                  *)
(***************************************************************************)
Find(what)           == [do |-> "need", what |-> what, answer |-> "missing"]
Need(what, answer)   == [do |-> "need", what |-> what, answer |-> answer]
Ask(domain, op, of)  == [do |-> "ask", domain |-> domain, op |-> op, of |-> of, answer |-> "denied"]
\* The refusal is answered as if there were no such row.
Hide(domain, op, of) == [Ask(domain, op, of) EXCEPT !.answer = "missing"]
Read(of, tier)       == [do |-> "read", of |-> of, tier |-> tier]
Write(of, tier)      == [do |-> "write", of |-> of, tier |-> tier]

(***************************************************************************)
(* The rules, by domain.                                                   *)
(***************************************************************************)
ThreadTiers ==
    [read   |-> {"VIEW_THREAD", "VIEW_HISTORY", "VIEW_MESSAGES", "LIST_THREADS"},
     write  |-> {"CHAT", "SEND_MESSAGE", "UPLOAD_FILE", "RATE_MESSAGE"},
     manage |-> {"DELETE_THREAD", "UPDATE_THREAD", "DELETE_MESSAGE", "RESTORE_MESSAGE",
                 "DELETE_FILE", "DELETE_ALL_THREADS"}]

ThreadAnswer(w, op, of) == w.who # None /\ (of = "thread" => w.mine)

MemoryTiers ==
    [read   |-> {"VIEW_MEMORY", "VIEW_DOCUMENT", "LIST_DOCUMENTS", "LIST_THREAD_MEMORIES",
                 "LINK_MEMORY", "UNLINK_MEMORY"},
     write  |-> {"UPLOAD_DOCUMENT", "DELETE_DOCUMENT"},
     manage |-> {"UPDATE_MEMORY"},
     delete |-> {"DELETE_MEMORY"}]

\* The tier the rule goes by: deleting takes what managing takes.
RuleTier(op) ==
    CASE op \in MemoryTiers.read -> "read"
      [] op \in MemoryTiers.manage \cup MemoryTiers.delete -> "manage"
      [] OTHER -> "write"

\* The memory of a thread's files is private and has one row, its owner's,
\* that does not say can_manage.
MemoryAnswer(w, op, of) ==
    /\ w.who # None
    /\ of = "memory" => MemoryRule(w.who, RuleTier(op))
    /\ of = "file_memory" => w.mine /\ RuleTier(op) # "manage"

AgentTiers ==
    [read |-> {"VIEW_AGENT"}, write |-> {"CREATE_AGENT"}, manage |-> {"UPDATE_AGENT", "DELETE_AGENT"}]

UseOperations == {"CHAT", "VIEW_THREAD", "UPLOAD_FILE", "VIEW_FILE", "DELETE_FILE"}

\* Using an agent is asked of the `agent` keyword, and refused without one;
\* administering it, of its row (of = "agent").  Code agents have no row.
AgentAnswer(w, op, of) ==
    LET member(tier) == kind = "agent" => w.who # None /\ AgentRule(w.who, tier)
    IN  IF op \in UseOperations
        THEN of = "keyword" /\ member("read")
        ELSE /\ w.who # None
             /\ of = "agent" => member(IF op \in AgentTiers.manage THEN "manage" ELSE "read")

\* A stored workflow is its author's to manage and anybody's to run; a run is
\* its owner's.  Staff are both.
WorkflowAnswer(w, op, of) ==
    /\ w.who # None
    /\ \/ w.staff \/ of = "nothing"
       \/ of = "workflow" /\ (op = "MANAGE_WORKFLOW" => w.mine)
       \/ of = "run" /\ w.mine

\* has_perms: the question, and then the one about the object if there is one.
Permits(w, s) ==
    CASE s.domain = "thread"       -> ThreadAnswer(w, s.op, s.of)
      [] s.domain = "memory"       -> MemoryAnswer(w, s.op, s.of)
      [] s.domain = "agent"        -> AgentAnswer(w, s.op, s.of)
      [] s.domain = "integrations" -> w.who # None
      [] s.domain = "workflow"     -> WorkflowAnswer(w, s.op, s.of)

\* AgentService.get: an agent of the code, or an active row.
Holds(w, what) ==
    CASE what = "memory"    -> kind = "memory" /\ object # Gone
      [] what = "agent"     -> kind = "agent" => object = TRUE
      [] what = "agent_row" -> kind = "agent" /\ object # Gone
      [] OTHER              -> what \in w.have

Fails(w, s) ==
    \/ s.do = "need" /\ ~Holds(w, s.what)
    \/ s.do = "ask" /\ ~Permits(w, s)

\* The steps a request takes: all of them, or those up to the first failure.
Stops(w, steps) == {i \in DOMAIN steps : Fails(w, steps[i])}
First(indexes) == CHOOSE i \in indexes : \A j \in indexes : i <= j
Taken(w, steps) ==
    LET stops == Stops(w, steps)
    IN  IF stops = {} THEN steps ELSE SubSeq(steps, 1, First(stops) - 1)
Outcome(w, steps) ==
    LET stops == Stops(w, steps)
    IN  IF stops = {} THEN "ok" ELSE steps[First(stops)].answer

(***************************************************************************)
(* The flags an object is shown with: one operation of each tier is asked, *)
(* whichever comes first in the set.                                       *)
(***************************************************************************)
Tiers(domain) ==
    CASE domain = "thread" -> ThreadTiers
      [] domain = "memory" -> MemoryTiers
      [] domain = "agent"  -> AgentTiers

\* Every flag the choice of the representative allows.
Flags(w, domain, of, tier) == {Permits(w, Ask(domain, op, of)) : op \in Tiers(domain)[tier]}

(***************************************************************************)
(* memories/services.py.                                                   *)
(***************************************************************************)
Of(memory, op) == <<Find(memory), Ask("memory", op, memory)>>

MemoryCalls ==
    [create_memory |-> <<Ask("memory", "CREATE_MEMORY", "nothing"), Write("new_row", "own")>>,
     get_memory    |-> Append(Of("memory", "VIEW_MEMORY"), Read("memory", "read")),
     update_memory |-> Append(Of("memory", "UPDATE_MEMORY"), Write("memory", "manage")),
     delete_memory |-> Append(Of("memory", "DELETE_MEMORY"), Write("memory", "delete"))]

MemorySharing ==
    LET list   == Append(Of("memory", "VIEW_MEMORY"), Read("memory", "read"))
        change == Append(Of("memory", "UPDATE_MEMORY"), Write("memory", "manage"))
        named(row) == Of("memory", "UPDATE_MEMORY") \o <<Find(row), Write("memory", "manage")>>
    IN  [list_memory_users |-> list, list_memory_groups |-> list,
         add_memory_user |-> named("target"), add_memory_group |-> named("target"),
         update_memory_user |-> named("share"), remove_memory_user |-> named("share"),
         remove_memory_group |-> change]

DocumentCalls ==
    [upload_document |-> Of("memory", "UPLOAD_DOCUMENT")
        \o <<Need("small", "invalid"), Need("new_file", "conflict"), Write("memory", "write")>>,
     list_documents  |-> Append(Of("memory", "LIST_DOCUMENTS"), Read("memory", "read")),
     get_document    |-> Of("memory", "VIEW_DOCUMENT") \o <<Find("document"), Read("memory", "read")>>,
     delete_document |-> Of("memory", "DELETE_DOCUMENT") \o <<Find("document"), Write("memory", "write")>>]

\* Linking asks about the thread first, then about the memory.
LinkCalls ==
    LET asked(op) == <<Find("thread"), Ask("thread", "UPDATE_THREAD", "thread")>> \o Of("memory", op)
        write == <<Write("thread", "manage"), Read("memory", "read")>>
    IN  [link_memory_to_thread     |-> asked("LINK_MEMORY") \o write,
         unlink_memory_from_thread |-> asked("UNLINK_MEMORY") \o <<Find("link")>> \o write,
         bulk_connect_memories     |-> asked("LINK_MEMORY") \o write,
         list_thread_memories      |-> <<Find("thread"), Ask("thread", "VIEW_THREAD", "thread"),
                                         Read("thread", "read")>>]

SwitchCalls ==
    LET asked(op) == <<Find("thread"), Ask("thread", "UPDATE_THREAD", "thread"), Find("link")>>
                     \o Of("memory", op) \o <<Write("thread", "manage"), Read("memory", "read")>>
    IN  [toggle_memory_active          |-> asked("LINK_MEMORY"),
         disconnect_memory_from_thread |-> asked("UNLINK_MEMORY")]

\* The agent's memories the caller may read come and go with the thread's
\* agent; nobody is refused here.
AgentMemories ==
    [link_memories |-> <<Write("thread", "manage")>>, unlink_memories |-> <<Write("thread", "manage")>>,
     link_new_thread |-> <<Write("new_row", "own")>>]

\* The files of a thread are asked of the thread and of its agent.  A thread
\* without files has nothing to delete, which is then no error (not here).
FileOf(op) ==
    <<Find("thread"), Find("agent"), Ask("thread", op, "thread"), Ask("agent", op, "keyword")>>
FileCalls ==
    LET upload == FileOf("UPLOAD_FILE") \o <<Need("uploads", "denied"), Need("small", "invalid")>>
    IN  [upload_first_file  |-> Append(upload, Write("thread", "write")),  \* makes the file memory
         upload_thread_file |-> upload \o <<Need("new_file", "conflict"), Write("thread", "write")>>,
         list_thread_files  |-> Append(FileOf("VIEW_FILE"), Read("thread", "read")),
         get_thread_file    |-> FileOf("VIEW_FILE") \o <<Find("file"), Read("thread", "read")>>,
         delete_thread_file |-> FileOf("DELETE_FILE") \o <<Find("file"), Write("thread", "manage")>>]

\* A document is found by its own id and asked of its own memory, whatever
\* memory the URL names; a poll may find it orphaned and fail it.
StatusCalls ==
    LET status(memory) == <<Find("document"), Ask("memory", "VIEW_DOCUMENT", memory), Read(memory, "read")>>
        of_memory == <<Find("memory")>> \o status("memory")
    IN  [get_document_status |-> of_memory, get_task_status |-> of_memory,
         get_file_status |-> status("file_memory")]

RetryCalls ==
    [retry_document |-> <<Find("memory"), Find("document"), Need("retryable", "invalid"),
                          Ask("memory", "UPLOAD_DOCUMENT", "memory"), Write("memory", "write")>>,
     retry_file |-> <<Find("thread"), Find("document"), Need("retryable", "invalid"), Find("agent"),
                      Ask("thread", "UPLOAD_FILE", "thread"), Ask("agent", "UPLOAD_FILE", "keyword"),
                      Write("thread", "write")>>]
CancelCalls ==
    [cancel_document |-> <<Find("memory"), Find("document"), Ask("memory", "UPLOAD_DOCUMENT", "memory"),
                           Need("cancellable", "invalid"), Write("memory", "write")>>,
     cancel_file |-> <<Find("thread"), Find("document"), Find("agent"),
                       Ask("thread", "UPLOAD_FILE", "thread"), Ask("agent", "UPLOAD_FILE", "keyword"),
                       Need("cancellable", "invalid"), Write("thread", "write")>>]

\* Behind a citation: an entry's text, its document, the file and its pages.
SourceCalls ==
    LET source == <<Find("memory"), Find("document"), Ask("memory", "VIEW_DOCUMENT", "memory"),
                    Find("preview"), Read("memory", "read")>>
    IN  [get_chunk_content   |-> <<Find("memory"), Find("entry"), Ask("memory", "VIEW_DOCUMENT", "memory"),
                                   Read("memory", "read")>>,
         get_source_document |-> source, get_source_file |-> source,
         render_source_page  |-> Append(source, Find("page"))]

(***************************************************************************)
(* storage/services.py and the calls of Agent on a thread (agents/base.py). *)
(***************************************************************************)
OwnThread(op) == <<Find("thread"), Ask("thread", op, "thread")>>

ThreadCalls ==
    [create_thread |-> <<Find("agent"), Ask("thread", "CREATE_THREAD", "nothing"), Write("new_row", "own")>>,
     get_thread    |-> Append(OwnThread("VIEW_THREAD"), Read("thread", "read")),
     update_thread |-> Append(OwnThread("UPDATE_THREAD"), Write("thread", "manage")),
     delete_thread |-> Append(OwnThread("DELETE_THREAD"), Write("thread", "manage"))]

\* The storage is that of the thread's agent, which is looked up for it
\* (services.py:34-38); an agent has one, if only the default (base.py:344).
MessageCalls ==
    LET message(op, tier) == OwnThread(op) \o <<Find("agent"), Find("message"), Write("thread", tier)>>
    IN  [rate_message    |-> message("RATE_MESSAGE", "write"),
         delete_message  |-> message("DELETE_MESSAGE", "manage"),
         restore_message |-> message("RESTORE_MESSAGE", "manage")]

ThreadViews ==
    LET view == Append(OwnThread("VIEW_THREAD"), Read("thread", "read"))
    IN  [thread_file_meta |-> view, thread_sources |-> view]

\* tracing/services.py: the traces and tokens of a thread, or of the thread of
\* a message.
TraceCalls ==
    LET view == Append(OwnThread("VIEW_THREAD"), Read("thread", "read"))
    IN  [thread_traces |-> view, thread_token_usage |-> view,
         message_traces |-> <<Find("message")>> \o view, message_token_usage |-> <<Find("message")>> \o view]

ThreadAgent == [get_agent |-> Append(OwnThread("VIEW_THREAD"), Find("agent"))]

\* Attachments, if a message has any, are looked for among the thread's files.
ResolveAttachments ==
    <<Find("thread"), Ask("thread", "VIEW_FILE", "thread"), Ask("agent", "VIEW_FILE", "keyword")>>

History ==
    LET asked == <<Ask("agent", "VIEW_THREAD", "keyword")>> \o OwnThread("VIEW_THREAD")
        read  == <<Read("thread", "read"), Read("agent", "read")>>
    IN  [history |-> asked \o read, history_with_files |-> asked \o ResolveAttachments \o read]

\* Mutant of AsView: a message with attachments is stored before anything is asked.
StoredFirst ==
    LET asked == <<Ask("agent", "CHAT", "keyword")>> \o OwnThread("VIEW_THREAD")
        store == <<Write("thread", "write"), Read("agent", "read")>>
    IN  [as_view |-> asked \o store, as_view_with_files |-> store \o asked \o ResolveAttachments]

\* "Before anything is stored: a refused chat must leave no trace in the thread."
AsView ==
    LET asked == <<Ask("agent", "CHAT", "keyword")>> \o OwnThread("VIEW_THREAD")
        store == <<Write("thread", "write"), Read("agent", "read")>>
    IN  [as_view |-> asked \o store, as_view_with_files |-> asked \o ResolveAttachments \o store]

(***************************************************************************)
(* agents/services.py.                                                     *)
(***************************************************************************)
\* AgentService.has_perms takes the agent to find its permission classes and
\* does not pass it on: an operation of use is asked without the keyword.
AgentChecks ==
    [find_agent  |-> <<Find("agent")>>,
     find_new_agent |-> <<Find("new_agent")>>,
     check_view  |-> <<Ask("agent", "VIEW_AGENT", "agent"), Read("agent", "read")>>,
     check_admin |-> <<Ask("agent", "UPDATE_AGENT", "agent"), Write("agent", "manage")>>,
     check_chat  |-> <<Ask("agent", "CHAT", "nothing")>>,
     run         |-> <<Read("agent", "read")>>]

AgentViews ==
    LET view == <<Find("agent"), Ask("agent", "VIEW_AGENT", "agent"), Read("agent", "read")>>
    IN  [get_agent_info |-> view, get_integration_status |-> view]

\* Sharing finds an agent only while it is active.
AgentSharing ==
    LET managed == <<Find("agent"), Find("agent_row"), Ask("agent", "UPDATE_AGENT", "agent")>>
        list    == Append(managed, Read("agent", "manage"))
        named(row) == managed \o <<Find(row), Write("agent", "manage")>>
    IN  [list_agent_users |-> list, list_agent_groups |-> list,
         add_agent_user |-> named("target"), add_agent_group |-> named("target"),
         update_agent_user |-> named("share"), remove_agent_user |-> named("share"),
         remove_agent_group |-> named("share")]

RuntimeCalls ==
    LET row(op) == <<Find("agent_row"), Ask("agent", op, "agent")>>
    IN  [get_runtime_agent    |-> Append(row("VIEW_AGENT"), Read("agent", "read")),
         create_runtime_agent |-> <<Ask("agent", "CREATE_AGENT", "nothing"), Write("new_row", "own")>>,
         update_runtime_agent |-> row("UPDATE_AGENT") \o <<Need("valid", "invalid"), Write("agent", "manage")>>,
         delete_runtime_agent |-> Append(row("DELETE_AGENT"), Write("agent", "manage"))]

(***************************************************************************)
(* workflows/services.py and integrations/services.py.                     *)
(***************************************************************************)
\* A stored definition is validated again: one that is no longer read is an
\* error of its data, one the deployment has outgrown an error of its settings.
\* No endpoint sends `force`.
WorkflowRuns ==
    LET may == <<Ask("workflow", "RUN_WORKFLOW", "nothing")>>
        record == may \o <<Find("workflow"), Find("active"), Ask("workflow", "RUN_WORKFLOW", "workflow"),
                           Need("readable", "invalid"), Need("legal", "configuration")>>
    IN  [run_workflow |-> may \o <<Need("valid", "invalid"), Need("fits", "invalid"), Write("new_row", "own")>>,
         run_by_id    |-> record \o <<Need("fits", "invalid"), Read("workflow", "read"), Write("new_row", "own")>>,
         resume_run   |-> <<Need("no_inputs", "invalid")>> \o record
            \o <<Find("run"), Hide("workflow", "VIEW_WORKFLOW", "run"), Write("run", "write")>>]

WorkflowCalls ==
    LET managed == <<Find("workflow"), Hide("workflow", "MANAGE_WORKFLOW", "workflow")>>
    IN  [create_workflow |-> <<Ask("workflow", "MANAGE_WORKFLOW", "nothing"), Need("valid", "invalid"),
                               Write("new_row", "own")>>,
         get_workflow    |-> Append(managed, Read("workflow", "manage")),
         update_workflow |-> managed \o <<Need("valid", "invalid"), Write("workflow", "manage")>>,
         delete_workflow |-> Append(managed, Write("workflow", "manage")),
         get_run         |-> <<Find("run"), Hide("workflow", "VIEW_WORKFLOW", "run"), Read("run", "read")>>]

IntegrationCalls ==
    LET may(op) == <<Find("integration"), Ask("integrations", op, "nothing")>>
    IN  [connect_integration    |-> may("MANAGE_INTEGRATION") \o <<Need("connectable", "invalid"), Write("connection", "own")>>,
         disconnect_integration |-> may("MANAGE_INTEGRATION") \o <<Find("connection"), Write("connection", "own")>>,
         reconnect_integration  |-> Append(may("USE_INTEGRATION"), Read("connection", "own"))]

\* One table of several that have no name in common.
Together(tables) ==
    [name \in UNION {DOMAIN t : t \in tables} |-> (CHOOSE t \in tables : name \in DOMAIN t)[name]]

CallTables ==
    {MemoryCalls, MemorySharing, DocumentCalls, LinkCalls, SwitchCalls, AgentMemories,
     FileCalls, StatusCalls, RetryCalls, CancelCalls, SourceCalls,
     ThreadCalls, MessageCalls, ThreadViews, TraceCalls, ThreadAgent, History, AsView,
     AgentChecks, AgentViews, AgentSharing, RuntimeCalls,
     WorkflowRuns, WorkflowCalls, IntegrationCalls}
Calls == Together(CallTables)

(***************************************************************************)
(* What a list shows.                                                      *)
(***************************************************************************)
Lists == {"memories", "thread_memories", "threads", "agents", "runtime_agents", "workflows", "runs",
          "integrations"}

ShowsMemory(w) == Holds(w, "memory") /\ Listed(w.who, "read")
ShowsLinked(w) ==
    ShowsMemory(w) /\ "link" \in w.have /\ MemoryAnswer(w, "LIST_THREAD_MEMORIES", "memory")
ShowsThread(w) == "thread" \in w.have /\ w.mine
ShowsAgent(w) == Holds(w, "agent") /\ AgentAnswer(w, "VIEW_AGENT", "agent")
ShowsRuntimeAgent(w) == Holds(w, "agent_row") /\ AgentAnswer(w, "VIEW_AGENT", "agent")
ShowsWorkflow(w) == {"workflow", "active"} \subseteq w.have /\ (w.staff \/ w.mine)
ShowsRun(w) == "run" \in w.have /\ (w.staff \/ w.mine)
ShowsIntegration(w) == "integration" \in w.have

Shows(w, list) ==
    /\ w.who # None
    /\ CASE list = "memories"        -> ShowsMemory(w)
         [] list = "thread_memories" -> ShowsLinked(w)
         [] list = "threads"         -> ShowsThread(w)
         [] list = "agents"          -> ShowsAgent(w)
         [] list = "runtime_agents"  -> ShowsRuntimeAgent(w)
         [] list = "workflows"       -> ShowsWorkflow(w)
         [] list = "runs"            -> ShowsRun(w)
         [] list = "integrations"    -> ShowsIntegration(w)

\* The call that opens one item of the list, and what the list leaves out.
Opener(list) ==
    CASE list \in {"memories", "thread_memories"} -> "get_memory"
      [] list = "threads"        -> "thread_file_meta"
      [] list = "agents"         -> "get_agent_info"
      [] list = "runtime_agents" -> "get_runtime_agent"
      [] list = "workflows"      -> "get_workflow"
      [] list = "runs"           -> "get_run"
      [] list = "integrations"   -> "reconnect_integration"
LeftOut(w, list) ==
    \/ list = "workflows" /\ "active" \notin w.have
    \/ list = "thread_memories" /\ "link" \notin w.have
=============================================================================
