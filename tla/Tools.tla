------------------------------- MODULE Tools --------------------------------
(***************************************************************************)
(* The tools an agent is given for a run (agents/base.py): those of its     *)
(* class, of its integrations, for its artifacts, for its subagents, each   *)
(* built with tools of its own, for attached files, and for the memories of *)
(* the thread; and what a client is told while they are got ready.          *)
(*                                                                         *)
(* A setting c has the classes' declarations (agents, integrations, display *)
(* names), what the user may view and use, and which integrations work.     *)
(***************************************************************************)
EXTENDS Naturals, Sequences, FiniteSets, SequencesExt, FiniteSetsExt

\* An order's first occurrences, as `seen_classes` and a dictionary's keys.
Once(seq) ==
    LET firsts == SelectSeq([i \in DOMAIN seq |-> i], LAMBDA i : \A j \in 1..(i - 1) : seq[j] # seq[i])
    IN  [i \in DOMAIN firsts |-> seq[firsts[i]]]

(***************************************************************************)
(* Integrations.                                                           *)
(***************************************************************************)
\* get_integrations: what an app registers, else an enabled row of the
\* database; a name of neither is skipped.
Registered(c, names) == SelectSeq(Once(names), LAMBDA n : n \in c.apps \cup c.rows)

AllowedIntegrations(c, agent) ==
    SelectSeq(Registered(c, c.integrations[agent]), LAMBDA n : n \in c.mayUse)

Namespaced(integration, tool) == integration \o "_" \o tool

\* One that fails is logged, and is without tools.
IntegrationTools(c, agent) ==
    LET working == SelectSeq(AllowedIntegrations(c, agent), LAMBDA n : n \in c.working)
    IN  [i \in DOMAIN working |-> [name |-> Namespaced(working[i], "list"), of |-> working[i]]]

(***************************************************************************)
(* Subagents.  `chain` has the classes being built around this one.         *)
(***************************************************************************)
SubagentToolName(c, agent) == c.names[agent]

\* Mutant of Declared: nobody is asked whether the user may view it.
DeclaredUnasked(c, agent) == SelectSeq(Once(c.agents[agent]), LAMBDA s : s # agent)

\* Declared, once, and not the agent itself; and that the user may view.
Declared(c, agent) == SelectSeq(Once(c.agents[agent]), LAMBDA s : s # agent /\ s \in c.mayView)

\* Not one that is being built already.
Delegates(c, agent, chain) == SelectSeq(Declared(c, agent), LAMBDA s : s \notin chain)

\* The tools' names, the second of two taking a part of its agent's id.
DelegateNames(c, delegates) ==
    FoldLeft(LAMBDA names, s : Append(names,
                 LET name == SubagentToolName(c, s)
                 IN  IF Contains(names, name) THEN name \o "_" \o s ELSE name),
             <<>>, delegates)

\* An image of the thread is asked about by the vision model, if there is one.
AttachmentTools(c) == IF c.thread /\ c.vision THEN <<[name |-> "ask_image", of |-> "thread"]>> ELSE <<>>

\* A subagent is built around its own tools, for the same user.
GetTools(c, of) ==
    LET tools[agent \in DOMAIN c.agents, chain \in SUBSET DOMAIN c.agents] ==
            LET delegates == Delegates(c, agent, chain)
                agentTools == [i \in DOMAIN delegates |->
                    [name |-> DelegateNames(c, delegates)[i], of |-> delegates[i],
                     tools |-> tools[delegates[i], chain \cup {delegates[i]}]]]
            IN  IntegrationTools(c, agent) \o agentTools \o AttachmentTools(c)
    IN  tools[of, {}]

\* Agent.run: a loop over the tools only when asked for, with free text for an
\* answer, by an agent that runs as the SDK's own do; one call otherwise.
RunOwnTools(c, agent, asked, formatted, own) ==
    IF asked /\ ~formatted /\ own THEN GetTools(c, agent) ELSE <<>>

(***************************************************************************)
(* Memories.                                                               *)
(***************************************************************************)
\* Active links of the thread, to memories the user may read.
ThreadMemories(links, readable) ==
    LET kept[n \in 0..Len(links)] ==
            IF n = 0 THEN <<>>
            ELSE IF links[n].active /\ links[n].id \in readable THEN Append(kept[n - 1], links[n])
            ELSE kept[n - 1]
    IN  kept[Len(links)]

ToolName(m) == IF m.slug = "" THEN "search_memory_" \o m.id ELSE "search_" \o m.slug

Uploaded == "search_uploaded_documents"

\* The file memory takes a name of its own, unless another has taken it;
\* a name stays taken by a memory that turns out to have no documents.
AddKnowledge(file, so, m) ==
    LET spec == IF m.id = file /\ Uploaded \notin so.used THEN Uploaded ELSE ToolName(m)
        name == IF spec \in so.used THEN spec \o "_" \o m.id ELSE spec
    IN  [used  |-> so.used \cup {name},
         tools |-> IF m.documents THEN Append(so.tools, [name |-> name, of |-> m.id]) ELSE so.tools]

RagTools(memories, file) ==
    LET so[n \in 0..Len(memories)] ==
            IF n = 0 THEN [used |-> {}, tools |-> <<>>] ELSE AddKnowledge(file, so[n - 1], memories[n])
    IN  so[Len(memories)].tools

(***************************************************************************)
(* warmup_progress: what a client is told is being waited for.  The        *)
(* integrations finish in some order.                                      *)
(***************************************************************************)
Wait(stage, for) == [kind |-> "wait", stage |-> stage, for |-> for]
Unavailable(what) == [kind |-> "unavailable", stage |-> "integrations", for |-> {what}]
Plain == Wait("", {})

Warmup(memories, order, degraded) ==
    LET left(i) == {order[j] : j \in (i + 1)..Len(order)}
        waits(i) == IF left(i) = {} THEN <<>> ELSE <<Wait("integrations", left(i))>>
        part(i) == (IF order[i] \in degraded THEN <<Unavailable(order[i])>> ELSE <<>>) \o waits(i)
        named == memories # <<>> \/ order # <<>>
    IN  [i \in DOMAIN memories |-> Wait("knowledge", {memories[i]})]
        \o waits(0) \o FlattenSeq([i \in DOMAIN order |-> part(i)])
        \o (IF named THEN <<Plain>> ELSE <<>>)

(***************************************************************************)
(* Properties, over small settings.                                        *)
(***************************************************************************)
Agents == {"a", "b", "c"}
Few(n) == UNION {[1..k -> Agents] : k \in 0..n}

Settings ==
    {[agents |-> [a |-> x, b |-> y, c |-> z], mayView |-> view, mayUse |-> use, names |-> names,
      integrations |-> [a |-> <<"crm", "none", "crm">>, b |-> <<"wiki">>, c |-> <<"wiki", "crm">>],
      apps |-> {"crm"}, rows |-> {"wiki"}, working |-> works, thread |-> TRUE, vision |-> FALSE] :
        x \in Few(2), y \in Few(2), z \in Few(1),
        view \in SUBSET Agents, use \in {{"crm"}, {"crm", "wiki"}}, works \in {{"wiki"}, {"crm", "wiki"}},
        names \in {[a |-> "plan", b |-> "plan", c |-> "plan"], [a |-> "lead", b |-> "plan", c |-> "plan"]}}

Apart(tools) == \A i, j \in DOMAIN tools : tools[i].name = tools[j].name => i = j
IsSubagent(tool) == tool.of \in Agents

\* Every level of the tools, with its agent and those it is built in.
Inner(levels) ==
    UNION {{[of |-> t.of, tools |-> t.tools, inside |-> l.inside \cup {t.of}] :
               t \in {t \in Range(l.tools) : IsSubagent(t)}} : l \in levels}
Levels(agent, tools) ==
    LET top == {[of |-> agent, tools |-> tools, inside |-> {}]}
    IN  FoldLeft(LAMBDA levels, i : levels \cup Inner(levels), top, <<1, 2, 3, 4>>)

\* Nothing the user may not view or use, no name twice, no agent inside
\* itself, and a delegate only left out for a reason.
LevelHolds(c, l) ==
    LET subagents == {t.of : t \in {t \in Range(l.tools) : IsSubagent(t)}}
    IN  /\ Apart(l.tools)
        /\ Len(SelectSeq(l.tools, IsSubagent)) = Cardinality(subagents)
        /\ subagents = ((Range(c.agents[l.of]) \cap c.mayView) \ l.inside) \ {l.of}
        /\ {t.of : t \in Range(l.tools)} \ subagents
              = {n \in Range(c.integrations[l.of]) : n \in c.mayUse \cap c.working}

\* However agents declare one another: a subagent is built in no subagent of
\* itself, keeps to what the user may view and use, and is offered by each
\* agent that declares it wherever else it was built before.
DelegationIsBounded ==
    \A c \in Settings : \A l \in Levels("a", RunOwnTools(c, "a", TRUE, FALSE, TRUE)) : LevelHolds(c, l)

Memories ==
    {[id |-> id, slug |-> slug, active |-> TRUE, documents |-> documents] :
        id \in {"1", "2", "3"}, slug \in {"", "laws", "uploaded_documents"}, documents \in BOOLEAN}
Three == {<<x, y, z>> : x \in {m \in Memories : m.id = "1"}, y \in {m \in Memories : m.id = "2"},
                        z \in {m \in Memories : m.id = "3"}}

\* In whatever order a thread's memories come, and however they are called:
\* each with documents has one tool, under a name no other has; and the tool
\* that messages with files point to (`format_attachment`) searches the file
\* memory, unless a memory of just that name comes before it.
KnowledgeIsApart ==
    \A memories \in Three : \A file \in {"none", "1", "2", "3"} :
        LET tools == RagTools(memories, file)
        IN  /\ Apart(tools)
            /\ {t.of : t \in Range(tools)} = {m.id : m \in {m \in Range(memories) : m.documents}}
            /\ Cardinality({t.of : t \in Range(tools)}) = Len(tools)
            /\ \A t \in Range(tools) : (t.name = Uploaded /\ file # "none" /\ t.of # file) =>
                  \E i, j \in 1..3 : i < j /\ memories[i].id = t.of /\ memories[j].id = file

\* A client is never told of a wait for what is ready, is told of every
\* integration that failed, once, and last that the build goes on.
WarmupIsTold ==
    \A memories \in {<<>>, <<"1">>, <<"1", "2">>} : \A some \in SUBSET {"crm", "wiki", "mail"} :
        \A order \in SetToSeqs(some) : \A degraded \in SUBSET some :
            LET parts == Warmup(memories, order, degraded)
                of(kind) == SelectSeq(parts, LAMBDA p : p.kind = kind)
                waits == of("wait")
            IN  /\ memories # <<>> \/ some # {} => Last(parts) = Plain
                /\ \A i \in 1..(Len(waits) - 1) : waits[i].for # {}
                /\ \A i, j \in DOMAIN waits :
                      (i < j /\ waits[i].stage = "integrations" /\ waits[j].stage = "integrations") =>
                         waits[j].for \subseteq waits[i].for /\ waits[j].for # waits[i].for
                /\ UNION {p.for : p \in Range(of("unavailable"))} = degraded
                /\ Len(of("unavailable")) = Cardinality(degraded)

\* The tools of a run, the knowledge among them and the wait for them.
ToolsAreSound == DelegationIsBounded /\ KnowledgeIsApart /\ WarmupIsTold
=============================================================================
