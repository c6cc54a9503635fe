----------------------------- MODULE Endpoints -----------------------------
(***************************************************************************)
(* The HTTP layers: every endpoint of the Ninja routers (contrib/ninja) and *)
(* of the DRF viewsets (contrib/drf/views.py) that reaches the services, as *)
(* the service calls it makes, one after another.  Both layers are named    *)
(* by the operation; an endpoint that acts differently on what it is sent   *)
(* has one entry for each case.                                             *)
(***************************************************************************)
EXTENDS Access, Errors, Tools

\* Endpoints that make the service call of their own name and no other.
Itself(names) == [e \in names |-> <<e>>]

(***************************************************************************)
(* Django Ninja.                                                           *)
(***************************************************************************)

\* A thread moves to another agent, which is looked up first, with the
\* memories of the old one unlinked and those of the new one linked.
NinjaThreads ==
    [create_thread |-> <<"create_thread", "link_new_thread">>,
     get_thread_history |-> <<"get_agent", "history">>,
     get_thread_history_with_files |-> <<"get_agent", "history_with_files">>,
     chat |-> <<"get_agent", "as_view">>, chat_with_files |-> <<"get_agent", "as_view_with_files">>,
     switch_thread |-> <<"find_new_agent", "get_thread", "unlink_memories", "update_thread", "link_memories">>,
     rename_thread |-> <<"get_thread", "update_thread">>,
     run_thread |-> <<"get_agent", "check_chat", "run">>, delete_thread |-> <<"delete_thread">>]

NinjaThreadViews ==
    Itself({"thread_file_meta", "thread_sources", "rate_message", "delete_message", "restore_message",
            "thread_traces", "thread_token_usage", "message_traces", "message_token_usage"})

NinjaAgentSharing ==
    Itself({"create_runtime_agent", "get_runtime_agent", "update_runtime_agent", "delete_runtime_agent",
            "list_agent_users", "add_agent_user", "update_agent_user", "remove_agent_user",
            "list_agent_groups", "add_agent_group", "remove_agent_group"})

\* What the tools endpoint cannot load it leaves out.
NinjaAgents ==
    [get_agent_info  |-> <<"find_agent", "get_agent_info">>,
     get_agent_tools |-> <<"find_agent", "check_view", "get_integration_status">>,
     run_agent       |-> <<"find_agent", "check_chat", "run">>,
     reindex_agent   |-> <<"find_agent", "check_admin">>]

NinjaMemories ==
    Itself({"create_memory", "get_memory", "update_memory", "delete_memory", "upload_document",
            "get_document_status", "cancel_document", "get_task_status", "list_documents",
            "get_document", "delete_document", "link_memory_to_thread", "unlink_memory_from_thread",
            "list_thread_memories"})

NinjaMemoryThreads ==
    Itself({"bulk_connect_memories", "upload_first_file", "upload_thread_file", "get_file_status",
            "cancel_file", "list_thread_files", "delete_thread_file", "toggle_memory_active",
            "disconnect_memory_from_thread", "list_memory_users", "add_memory_user"})

\* In both layers a file is looked up before it is opened.
FileDownload == [download_thread_file |-> <<"get_thread_file">>]

NinjaMemorySharing ==
    Itself({"update_memory_user", "remove_memory_user", "list_memory_groups", "add_memory_group",
            "remove_memory_group", "get_chunk_content", "get_source_document", "get_source_file",
            "render_source_page"})

NinjaWorkflows ==
    Itself({"run_workflow", "create_workflow", "get_workflow", "update_workflow", "delete_workflow",
            "run_by_id", "resume_run", "get_run"})

NinjaIntegrations ==
    Itself({"connect_integration", "disconnect_integration", "reconnect_integration"})

NinjaTables ==
    {NinjaThreads, NinjaThreadViews, NinjaAgentSharing, NinjaAgents, NinjaMemories, NinjaMemoryThreads,
     FileDownload, NinjaMemorySharing, NinjaWorkflows, NinjaIntegrations}
Ninja == Together(NinjaTables)

(***************************************************************************)
(* Django REST framework.                                                  *)
(***************************************************************************)

\* Chatting is a view of its own (views/chat.py), here and under Ninja; the
\* changed thread is read again to be shown.
DrfThreads ==
    [create_thread |-> <<"create_thread", "link_new_thread">>,
     get_thread_history |-> <<"get_agent", "history">>,
     get_thread_history_with_files |-> <<"get_agent", "history_with_files">>,
     switch_thread |-> <<"find_new_agent", "get_thread", "unlink_memories", "update_thread",
                         "link_memories", "get_thread">>,
     rename_thread |-> <<"get_thread", "update_thread", "get_thread">>,
     run_thread    |-> <<"get_agent", "check_chat", "run">>,
     delete_thread |-> <<"delete_thread">>, thread_sources |-> <<"thread_sources">>,
     thread_file_meta |-> <<"thread_file_meta">>, thread_traces |-> <<"thread_traces">>]

ChatView == [chat |-> <<"get_agent", "as_view">>, chat_with_files |-> <<"get_agent", "as_view_with_files">>]

DrfThreadParts ==
    Itself({"thread_token_usage", "rate_message", "delete_message", "restore_message",
            "list_thread_memories", "bulk_connect_memories", "toggle_memory_active",
            "disconnect_memory_from_thread", "list_thread_files", "upload_first_file",
            "upload_thread_file", "delete_thread_file", "get_file_status"})

DrfMessages == Itself({"message_traces", "message_token_usage"})

\* Mutant of DrfAgents: reindexing is not asked about.
DrfAgentsUnasked ==
    [get_agent_info  |-> <<"find_agent", "get_agent_info">>,
     get_agent_tools |-> <<"find_agent", "check_view", "get_integration_status">>,
     run_agent       |-> <<"find_agent", "check_chat", "run">>,
     reindex_agent   |-> <<"find_agent">>]

DrfAgents ==
    [get_agent_info  |-> <<"find_agent", "get_agent_info">>,
     get_agent_tools |-> <<"find_agent", "check_view", "get_integration_status">>,
     run_agent       |-> <<"find_agent", "check_chat", "run">>,
     reindex_agent   |-> <<"find_agent", "check_admin">>]

DrfRuntimeAgents ==
    Itself({"create_runtime_agent", "get_runtime_agent", "update_runtime_agent", "delete_runtime_agent",
            "list_agent_users", "add_agent_user", "update_agent_user", "remove_agent_user",
            "list_agent_groups", "add_agent_group", "remove_agent_group"})

DrfMemories ==
    Itself({"create_memory", "get_memory", "update_memory", "delete_memory", "get_chunk_content",
            "get_source_document", "get_source_file", "render_source_page", "list_documents",
            "upload_document", "get_document", "delete_document", "get_document_status"})

DrfMemorySharing ==
    Itself({"cancel_document", "cancel_file", "get_task_status", "link_memory_to_thread",
            "unlink_memory_from_thread", "list_memory_users", "add_memory_user", "update_memory_user",
            "remove_memory_user", "list_memory_groups", "add_memory_group", "remove_memory_group"})

DrfWorkflows ==
    Itself({"run_workflow", "create_workflow", "get_workflow", "update_workflow", "delete_workflow",
            "run_by_id", "resume_run", "get_run"})

DrfIntegrations ==
    Itself({"connect_integration", "disconnect_integration", "reconnect_integration"})

DrfTables ==
    {DrfThreads, ChatView, DrfThreadParts, FileDownload, DrfMessages, DrfAgents, DrfRuntimeAgents,
     DrfMemories, DrfMemorySharing, DrfWorkflows, DrfIntegrations}
Drf == Together(DrfTables)

(***************************************************************************)
(* Requests: the steps of all their calls.  The rest of the services' calls *)
(* are there for other code, and count as requests of one call.            *)
(***************************************************************************)
StepsOf(calls) == FlattenSeq([i \in DOMAIN calls |-> Calls[calls[i]]])

NinjaRequest == [e \in DOMAIN Ninja |-> StepsOf(Ninja[e])]
DrfRequest   == [e \in DOMAIN Drf |-> StepsOf(Drf[e])]
Requests     == Range(NinjaRequest) \cup Range(DrfRequest) \cup {Calls.retry_document, Calls.retry_file}

IsEffect(s) == s.do \in {"read", "write"}
Conditions(steps) == {steps[i].what : i \in {j \in DOMAIN steps : steps[j].do = "need"}}
WorldsOf(steps) == Worlds(Conditions(steps) \ {"memory", "agent", "agent_row"})

(***************************************************************************)
(* Properties, of every state in which no other request is under way.      *)
(***************************************************************************)
Quiet == \A c \in Call : call[c] = Idle

\* What the rows say somebody may do, whatever the rules make of them.
HasRow(u, tier) ==
    LET opens(manage) == tier \in {"manage", "delete"} => manage
    IN  \/ users[u] # None /\ opens(users[u])
        \/ \E r \in RowsFor(u) : opens(r.manage)

Right(w, s) ==
    CASE s.of = "memory" -> w.who # None /\ (HasRow(w.who, s.tier) \/ (s.tier = "read" /\ object = TRUE))
      [] s.of = "agent"  -> kind = "agent" => w.who # None /\ HasRow(w.who, s.tier)
      [] s.of \in {"thread", "file_memory"} -> w.mine
      [] s.of = "workflow" -> w.who # None /\ (s.tier = "read" \/ w.staff \/ w.mine)
      [] s.of = "run" -> w.staff \/ w.mine
      [] s.of \in {"new_row", "connection"} -> w.who # None

\* Along every path through the calls of an endpoint, whatever is missing or
\* invalid: what is read or written is what its caller has a right to, and a
\* request that is refused or fails has written nothing (no endpoint goes on,
\* after its first write, to a question or a lookup that can fail).
RequestsAreSound ==
    Quiet => \A steps \in Requests : \A w \in WorldsOf(steps) :
                \A s \in Range(Taken(w, steps)) :
                   /\ IsEffect(s) => Right(w, s)
                   /\ s.do = "write" => Outcome(w, steps) = "ok"

\* The two HTTP layers answer alike, to anybody, on anything; what stops a
\* request, or fails beneath it, has the code and the status of its kind.
ApisAgree ==
    /\ CauseIsTold /\ RefusalsAreTold
    /\ DOMAIN Ninja = DOMAIN Drf
    /\ Quiet => \A e \in DOMAIN Ninja : \A w \in WorldsOf(NinjaRequest[e]) :
                   Outcome(w, NinjaRequest[e]) = Outcome(w, DrfRequest[e])

\* What a request does to the objects that are shown with flags, as the flags
\* it takes.  An agent that is used, and not administered, is only to be read;
\* the flags of an agent of the code are all off, whatever may be done with it.
FlagsOf(steps) ==
    {f \in {[of |-> s.of, tier |-> s.tier] : s \in {e \in Range(steps) : IsEffect(e)}}
           \cup {[of |-> "agent", tier |-> "read"] : s \in {e \in Range(steps) : e.do = "ask" /\ e.of = "keyword"}} :
        f.of \in {"memory", "thread"} \/ (f.of = "agent" /\ kind = "agent")}

\* The flags a client is shown are what it is then answered, whichever
\* operation of a tier stands for it: a request is denied exactly when a flag
\* it takes is off.  The endpoints that run an agent are not among them (see
\* UsersMayRun), and an agent may take no files.
FlagsTell(w, steps) ==
    LET taken  == FlagsOf(steps)
        on(f)  == Flags(w, f.of, f.of, f.tier) = {TRUE}
        off(f) == Flags(w, f.of, f.of, f.tier) = {FALSE}
        files  == "uploads" \in Conditions(steps) => "uploads" \in w.have
    IN  /\ \A f \in taken : on(f) \/ off(f)
        /\ Outcome(w, steps) = "ok" => \A f \in taken : on(f)
        /\ (Outcome(w, steps) = "denied" /\ taken # {} /\ files) => \E f \in taken : off(f)

\* A list shows exactly the items that its own GET opens.
ListTells(w, list) ==
    Shows(w, list) <=> (Outcome(w, Calls[Opener(list)]) = "ok" /\ ~LeftOut(w, list))

\* A run on somebody's behalf is given the knowledge they could open: of the
\* memories linked to a thread, whose link may outlive their right to read it.
KnowledgeIsAllowed(w) ==
    LET linked == [id |-> "memory", slug |-> "laws", active |-> TRUE, documents |-> TRUE]
        readable == {m \in {"memory"} : Permits(w, Ask("memory", "VIEW_MEMORY", m))}
        given == RagTools(ThreadMemories(<<linked>>, readable), "file_memory")
    IN  Holds(w, "memory") => (given # <<>> <=> Outcome(w, Calls.get_memory) = "ok")

\* What a client is shown is what it may do: the flags, the lists and what a
\* model is given to search tell it, and the two rules for the rows of groups
\* agree (RulesAgree).
ShownIsAllowed ==
    /\ RulesAgree
    /\ Quiet => \A w \in Worlds({}) : KnowledgeIsAllowed(w)
    /\ Quiet => \A e \in DOMAIN Ninja \ {"run_thread", "run_agent"} :
                   \A w \in WorldsOf(NinjaRequest[e]) : FlagsTell(w, NinjaRequest[e])
    /\ Quiet => \A list \in Lists :
                   \A w \in Worlds({"link", "thread", "workflow", "active", "run", "integration"}) :
                      ListTells(w, list)

\* "Owner (can_manage=False): can view and use the agent."  Whoever may chat
\* with the agent of a thread may also run it.
UsersMayRun ==
    Quiet /\ kind = "agent" => \A w \in Worlds({"thread"}) :
        Outcome(w, NinjaRequest.chat) = "ok" => Outcome(w, NinjaRequest.run_thread) = "ok"
=============================================================================
