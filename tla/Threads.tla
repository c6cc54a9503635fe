------------------------------ MODULE Threads ------------------------------
(***************************************************************************)
(* Conversation threads under overlapping API calls: the two storages      *)
(* (storage/db.py and storage/memory.py), ThreadService over them, and the *)
(* memories a thread is linked to (memories/services.py).                  *)
(*                                                                         *)
(* A call is one request on one thread.  It looks the thread up, checks    *)
(* that the caller owns it (the owner never changes, so that check cannot  *)
(* go stale and is left out) and then makes the database steps in todo,    *)
(* one per action: other calls move in between.  The memory storage never  *)
(* awaits, so its operations are single steps, but for ratings and hidden  *)
(* messages, which are given the two steps of the database there too.      *)
(***************************************************************************)
EXTENDS Naturals, FiniteSets, SequencesExt

CONSTANTS
    Call,         \* the requests
    Thread,       \* thread ids; an id is used once
    InMemory,     \* the threads that live in the memory storage
    Agent,        \* the agents threads are created with or switched to
    MemoriesOf,   \* the memories configured on each agent, all readable
    Transient,    \* the agents whose storage_adapter is the memory storage
    MaxThreads,   \* MemoryStore.MAX_THREADS
    Files,        \* the hidden memory of a thread's uploaded files
    Unborn, Gone, None

Row == [agent : Agent, title : {"", "theirs", "generated"}, files : BOOLEAN]
Link == [by : Call \cup {None}, on : BOOLEAN]

ASSUME ThreadAssumption ==
    /\ InMemory \subseteq Thread
    /\ Transient \subseteq Agent
    /\ MaxThreads \in Nat \ {0}
    /\ {Unborn, Gone} \cap Row = {}
    /\ Unborn # Gone
    /\ None \notin Thread \cup Agent \cup Link

VARIABLES
    thread,     \* the row of each thread, or Unborn or Gone
    order,      \* the threads of the memory storage, oldest first
    messages,   \* the question and the reply of each chat call
    feedback,   \* how many ratings each message has
    links,      \* the ThreadMemory row of each thread and memory
    files,      \* how many hidden file memories a thread was ever given
    call,       \* what each request is doing
    raced,      \* history: two requests have overlapped
    byHand      \* history: the links a user set or removed by hand

vars == <<thread, order, messages, feedback, links, files, call, raced, byHand>>

Memory == (UNION {MemoriesOf[a] : a \in Agent}) \cup {Files}
Message == Call \X {"question", "reply"}

Flag == {"kept", "hidden"}

Live(t) == thread[t] \notin {Unborn, Gone}
Linked(t) == {m \in Memory : links[t][m] # None}
Stored(m) == messages[m] \in Flag
In(t) == {m \in Message : messages[m] # "unsent" /\ call[m[1]].thread = t}

Steps == {"create", "unlink", "retitle", "reassign", "entitle", "save", "link",
          "ask", "reply", "find", "clear", "drop", "look", "rate", "fetch",
          "flag", "lock", "hold", "toggle", "detach"}
Busy(c) == call[c].todo # <<>>

\* What a request has yet to do, and what it was told and has read.
Request ==
    [todo : Seq(Steps), thread : Thread \cup {None},
     read : Row \cup Link \cup {Unborn, Gone, None},
     arg : Agent \cup [of : Message \cup Memory, on : BOOLEAN] \cup {None},
     left : SUBSET (Memory \cup Thread)]

TypeOK ==
    /\ thread \in [Thread -> Row \cup {Unborn, Gone}]
    /\ order \in Seq(InMemory)
    /\ \A i, j \in 1 .. Len(order) : order[i] = order[j] => i = j
    /\ \A t \in InMemory : Live(t) <=> \E i \in 1 .. Len(order) : order[i] = t
    /\ messages \in [Message -> Flag \cup {"unsent", "gone"}]
    /\ feedback \in [Message -> Nat]
    /\ links \in [Thread -> [Memory -> Link \cup {None}]]
    /\ \A t \in InMemory : Linked(t) = {}
    /\ files \in [Thread -> Nat]
    /\ call \in [Call -> Request]
    /\ raced \in BOOLEAN
    /\ byHand \subseteq Thread \X Memory

\* A thread as create_thread and link_memories leave it.
Fresh(a) == [agent |-> a, title |-> "", files |-> FALSE]
Configured(a) ==
    [m \in Memory |-> IF m \in MemoriesOf[a] THEN [by |-> None, on |-> TRUE] ELSE None]

\* The database may hold threads already; the memory storage starts empty.
Init ==
    \E stored \in SUBSET (Thread \ InMemory), a \in Agent \ Transient :
        /\ thread = [t \in Thread |-> IF t \in stored THEN Fresh(a) ELSE Unborn]
        /\ links = [t \in Thread |->
                      IF t \in stored THEN Configured(a) ELSE [m \in Memory |-> None]]
        /\ order = <<>>
        /\ messages = [m \in Message |-> "unsent"]
        /\ feedback = [m \in Message |-> 0]
        /\ files = [t \in Thread |-> 0]
        /\ call = [c \in Call |-> [todo |-> <<>>, thread |-> None, read |-> None,
                                   arg |-> None, left |-> {}]]
        /\ raced = FALSE
        /\ byHand = {}

(***************************************************************************)
(* Requests.  Begin is the lookup every request starts with: what it reads *)
(* of the row, the steps that follow, and what is left to link or delete.  *)
(***************************************************************************)
Unused(c) == call[c].thread = None

Begin(c, t, steps, arg, left) ==
    /\ Unused(c)
    /\ call' = [call EXCEPT ![c] = [todo |-> steps, thread |-> t, read |-> thread[t],
                                    arg |-> arg, left |-> left]]
    /\ raced' = (raced \/ \E d \in Call : Busy(d))

Data == <<thread, order, messages, feedback, links, files>>

Asked(c, t, steps, arg, left) ==
    /\ Live(t)
    /\ Begin(c, t, steps, arg, left)
    /\ UNCHANGED <<Data, byHand>>

\* A new thread goes to the storage of its agent.
StartCreate(c) ==
    \E t \in Thread, a \in Agent :
        /\ thread[t] = Unborn
        /\ \A d \in Call : call[d].thread # t
        /\ (a \in Transient) = (t \in InMemory)
        /\ Begin(c, t, <<"create", "link">>, a, MemoriesOf[a])
        /\ UNCHANGED <<Data, byHand>>

\* PATCH: unlink the old agent's memories, merge, link the new agent's.
Switch == <<"unlink", "reassign", "save", "link">>

Patch(c) ==
    \E t \in Thread, a \in Agent \cup {None}, rename \in BOOLEAN :
        LET steps == (IF a = None THEN <<>> ELSE Switch)
                     \o (IF rename THEN <<"retitle", "save">> ELSE <<>>)
        IN  /\ steps # <<>>
            /\ Asked(c, t, steps, a, IF a = None THEN {} ELSE MemoriesOf[a])

\* The chat stores the question, gives a thread it found untitled a title if
\* the agent generates them, and stores the reply when the stream is over.
Chat(c) ==
    \E t \in Thread, generates \in BOOLEAN :
        /\ Live(t)
        /\ generates => thread[t].title = ""
        /\ Asked(c, t, IF generates THEN <<"ask", "entitle", "save", "reply">>
                                      ELSE <<"ask", "reply">>, None, {})

\* rate_message, delete_message and restore_message go to the storage of the
\* thread's present agent, wherever the thread itself lives.
OnMessage(c) ==
    \E t \in Thread : \E m \in In(t), on \in BOOLEAN,
            steps \in {<<"look", "rate">>, <<"fetch", "flag">>} :
        /\ Live(t)
        /\ (thread[t].agent \in Transient) = (t \in InMemory)
        /\ Asked(c, t, steps, [of |-> m, on |-> on], {})

\* An upload needs the thread's file memory.
Upload(c) ==
    \E t \in Thread \ InMemory :
        /\ Live(t)
        /\ ~thread[t].files
        /\ Asked(c, t, <<"lock">>, None, {})

\* Linking, unlinking and toggling one memory by hand.
OnLink(c) ==
    \E t \in Thread \ InMemory, m \in Memory, on \in BOOLEAN,
            steps \in {<<"link">>, <<"hold", "detach">>, <<"hold", "toggle">>} :
        /\ Live(t)
        /\ m = Files => thread[t].files
        /\ on \/ steps = <<"hold", "toggle">>
        /\ Begin(c, t, steps, [of |-> m, on |-> on], {m})
        /\ byHand' = byHand \cup {<<t, m>>}
        /\ UNCHANGED Data

DeleteSteps == <<"find", "clear", "drop">>

Delete(c) == \E t \in Thread : Asked(c, t, DeleteSteps, None, {})

\* delete_all_threads lists the threads first and deletes them one by one.
DeleteAll(c) ==
    \E t \in Thread : Asked(c, t, DeleteSteps, None, {u \in Thread : Live(u)} \ {t})

(***************************************************************************)
(* Steps.                                                                  *)
(***************************************************************************)
At(c, step) == Busy(c) /\ Head(call[c].todo) = step

\* A request that is over forgets what it read.
Goto(c, steps) ==
    call' = [call EXCEPT ![c] =
               IF steps = <<>>
               THEN [todo |-> <<>>, thread |-> @.thread, read |-> None, arg |-> None, left |-> {}]
               ELSE [@ EXCEPT !.todo = steps]]
Done(c) == Goto(c, Tail(call[c].todo))
Abort(c) == Goto(c, <<>>)
SkipSave(c) == Goto(c, Tail(Tail(call[c].todo)))
Keep(c, read) ==
    call' = [call EXCEPT ![c].todo = Tail(@), ![c].read = read]

History == <<raced, byHand>>

Drop(t) ==
    LET places == {i \in 1 .. Len(order) : order[i] = t}
    IN  /\ thread' = [thread EXCEPT ![t] = Gone]
        /\ order' = IF places = {} THEN order
                    ELSE RemoveAt(order, CHOOSE i \in places : TRUE)

\* Message rows that go, each with its ratings.
Wipe(ms) ==
    /\ messages' = [m \in Message |-> IF m \in ms /\ Stored(m) THEN "gone" ELSE messages[m]]
    /\ feedback' = [m \in Message |-> IF m \in ms THEN 0 ELSE feedback[m]]

\* The memory storage evicts its oldest threads to keep n.
Keeping(n, t, a) ==
    LET all == Append(order, t)
        over == IF Len(all) > n THEN Len(all) - n ELSE 0
        out == {all[i] : i \in 1 .. over}
    IN  /\ order' = SubSeq(all, over + 1, Len(all))
        /\ thread' = [u \in Thread |-> IF u \in out THEN Gone
                                       ELSE IF u = t THEN Fresh(a) ELSE thread[u]]
        /\ Wipe(UNION {In(u) : u \in out})

\* Mutant of Evict: the cap is reached one thread early.
EvictEarly(t, a) == Keeping(MaxThreads - 1, t, a)

Evict(t, a) == Keeping(MaxThreads, t, a)

Create(c) ==
    LET t == call[c].thread
        a == call[c].arg
    IN  /\ At(c, "create")
        /\ IF t \in InMemory
           THEN Evict(t, a)
           ELSE /\ thread' = [thread EXCEPT ![t] = Fresh(a)]
                /\ UNCHANGED <<order, messages, feedback>>
        /\ Done(c)
        /\ UNCHANGED <<links, files, History>>

\* One DELETE for all memories of the agent read at the lookup.
Unlink(c) ==
    LET t == call[c].thread
    IN  /\ At(c, "unlink")
        /\ links' = [links EXCEPT ![t] =
                       [m \in Memory |-> IF m \in MemoriesOf[call[c].read.agent]
                                         THEN None ELSE @[m]]]
        /\ Done(c)
        /\ UNCHANGED <<thread, order, messages, feedback, files, History>>

\* The row with the request's change merged into it.
Merged(c, row) ==
    IF At(c, "reassign") THEN [row EXCEPT !.agent = call[c].arg]
    ELSE IF At(c, "retitle") THEN [row EXCEPT !.title = "theirs"]
    ELSE [row EXCEPT !.title = "generated"]

\* update_thread reads the row and saves it in a second step.  The memory
\* storage changes it at once, and keeps the agent outside its metadata.
\* A thread that is gone is reported, and the caller does not look.
Merge(c) ==
    LET t == call[c].thread
    IN  /\ \E step \in {"reassign", "retitle", "entitle"} : At(c, step)
        /\ IF ~Live(t)
           THEN SkipSave(c) /\ UNCHANGED thread
           ELSE IF t \in InMemory
           THEN /\ thread' = [thread EXCEPT ![t].title = Merged(c, thread[t]).title]
                /\ SkipSave(c)
           ELSE Keep(c, Merged(c, thread[t])) /\ UNCHANGED thread
        /\ UNCHANGED <<order, messages, feedback, links, files, History>>

\* Mutant of SaveColumns: all columns are written.
SaveRow(t, read) == thread' = [thread EXCEPT ![t] = read]

\* A save that names its columns never inserts a row that is gone.
SaveColumns(t, read) ==
    thread' = IF Live(t)
              THEN [thread EXCEPT ![t].agent = read.agent, ![t].title = read.title]
              ELSE thread

\* Only the chat survives a failed save: a failed title must not fail the reply.
Save(c) ==
    LET t == call[c].thread
    IN  /\ At(c, "save")
        /\ SaveColumns(t, call[c].read)
        /\ IF Live(t) \/ Tail(call[c].todo) = <<"reply">> THEN Done(c) ELSE Abort(c)
        /\ UNCHANGED <<order, messages, feedback, links, files, History>>

\* aget_or_create of one more link; a thread that is not in the database
\* fails its foreign key.
LinkOne(c) ==
    LET t == call[c].thread
    IN  /\ At(c, "link")
        /\ \/ /\ call[c].left = {}
              /\ Done(c)
              /\ UNCHANGED links
           \/ \E m \in call[c].left :
                IF t \in InMemory \/ ~Live(t)
                THEN Abort(c) /\ UNCHANGED links
                ELSE /\ links' = [links EXCEPT ![t][m] =
                                    IF @ = None THEN [by |-> c, on |-> TRUE] ELSE @]
                     /\ call' = [call EXCEPT ![c].left = @ \ {m}]
        /\ UNCHANGED <<thread, order, messages, feedback, files, History>>

\* The question needs its thread.
Ask(c) ==
    /\ At(c, "ask")
    /\ IF Live(call[c].thread)
       THEN /\ messages' = [messages EXCEPT ![<<c, "question">>] = "kept"]
            /\ Done(c)
       ELSE Abort(c) /\ UNCHANGED messages
    /\ UNCHANGED <<thread, order, feedback, links, files, History>>

\* The reply is stored through the adapter the question went through: the
\* database checks the foreign key, the memory storage checks nothing.
Reply(c) ==
    LET t == call[c].thread
    IN  /\ At(c, "reply")
        /\ messages' = IF Live(t) \/ t \in InMemory
                       THEN [messages EXCEPT ![<<c, "reply">>] = "kept"] ELSE messages
        /\ Done(c)
        /\ UNCHANGED <<thread, order, feedback, links, files, History>>

(***************************************************************************)
(* Deleting: the row is read, then the messages go, then the thread and    *)
(* all that refers to it.                                                  *)
(***************************************************************************)
Next1(c) ==
    IF call[c].left = {} THEN Abort(c)
    ELSE \E t \in call[c].left :
            call' = [call EXCEPT ![c].todo = DeleteSteps, ![c].thread = t,
                                 ![c].left = @ \ {t}]

Find(c) ==
    LET t == call[c].thread
    IN  /\ At(c, "find")
        /\ IF ~Live(t)
           THEN Next1(c) /\ UNCHANGED <<thread, order, messages, feedback>>
           ELSE IF t \in InMemory
           THEN Drop(t) /\ Wipe(In(t)) /\ Next1(c)
           ELSE Done(c) /\ UNCHANGED <<thread, order, messages, feedback>>
        /\ UNCHANGED <<links, files, History>>

Clear(c) ==
    /\ At(c, "clear")
    /\ Wipe(In(call[c].thread))
    /\ Done(c)
    /\ UNCHANGED <<thread, order, links, files, History>>

\* Mutant of Cascade: nothing goes with the thread.
NoCascade(t) == UNCHANGED <<links, messages, feedback>>

\* What a deletion takes along: the links and, by now, messages stored since.
Cascade(t) ==
    /\ links' = [links EXCEPT ![t] = [m \in Memory |-> None]]
    /\ Wipe(In(t))

DropThread(c) ==
    /\ At(c, "drop")
    /\ Drop(call[c].thread)
    /\ Cascade(call[c].thread)
    /\ Next1(c)
    /\ UNCHANGED <<files, History>>

(***************************************************************************)
(* Messages.                                                               *)
(***************************************************************************)
Target(c) == call[c].arg.of

\* The row must exist; update_or_create then looks for this user's rating.
Look(c) ==
    /\ At(c, "look")
    /\ IF Stored(Target(c))
       THEN Keep(c, IF feedback[Target(c)] = 0 THEN None ELSE call[c].read)
       ELSE Abort(c)
    /\ UNCHANGED <<Data, History>>

\* unique_together (message, user) turns a second insert into an update.
InsertUnique(m) == 1

Rate(c) ==
    LET m == Target(c)
    IN  /\ At(c, "rate")
        /\ feedback' = [feedback EXCEPT ![m] =
                          IF ~call[c].arg.on \/ ~Stored(m) THEN 0
                          ELSE IF call[c].read = None \/ @ = 0 THEN InsertUnique(m) ELSE @]
        /\ Done(c)
        /\ UNCHANGED <<thread, order, messages, links, files, History>>

Fetch(c) ==
    /\ At(c, "fetch")
    /\ IF Stored(Target(c)) THEN Done(c) ELSE Abort(c)
    /\ UNCHANGED <<Data, History>>

\* A full save: a row deleted meanwhile is inserted again, if its thread is
\* still there.
SetFlag(c) ==
    LET m == Target(c)
    IN  /\ At(c, "flag")
        /\ messages' = IF Live(call[c].thread)
                       THEN [messages EXCEPT ![m] = IF call[c].arg.on THEN "kept" ELSE "hidden"]
                       ELSE messages
        /\ Done(c)
        /\ UNCHANGED <<thread, order, feedback, links, files, History>>

(***************************************************************************)
(* The file memory, created under the lock of the thread's row, and links  *)
(* set by hand.                                                            *)
(***************************************************************************)
\* Mutant of Recheck: the row is not read again under its lock.
TrustLookup(t, read) == Live(t) /\ ~read.files

Recheck(t, read) == Live(t) /\ ~thread[t].files

FileMemory(c) ==
    LET t == call[c].thread
    IN  /\ At(c, "lock")
        /\ IF Recheck(t, call[c].read)
           THEN /\ thread' = [thread EXCEPT ![t].files = TRUE]
                /\ files' = [files EXCEPT ![t] = @ + 1]
                /\ links' = [links EXCEPT ![t][Files] = [by |-> c, on |-> TRUE]]
           ELSE UNCHANGED <<thread, files, links>>
        /\ Done(c)
        /\ UNCHANGED <<order, messages, feedback, History>>

Hold(c) ==
    LET link == links[call[c].thread][Target(c)]
    IN  /\ At(c, "hold")
        /\ IF link = None THEN Abort(c) ELSE Keep(c, link)
        /\ UNCHANGED <<Data, History>>

SameLink(c) ==
    LET link == links[call[c].thread][Target(c)]
    IN  link # None => link.by = call[c].read.by

\* A full save again: it puts a link back that was removed meanwhile, and
\* fails on the unique key when there is a newer one.
Toggle(c) ==
    LET t == call[c].thread
    IN  /\ At(c, "toggle")
        /\ links' = IF Live(t) /\ SameLink(c)
                    THEN [links EXCEPT ![t][Target(c)] =
                            [by |-> call[c].read.by, on |-> call[c].arg.on]]
                    ELSE links
        /\ Done(c)
        /\ UNCHANGED <<thread, order, messages, feedback, files, History>>

Detach(c) ==
    LET t == call[c].thread
    IN  /\ At(c, "detach")
        /\ links' = IF SameLink(c) THEN [links EXCEPT ![t][Target(c)] = None] ELSE links
        /\ Done(c)
        /\ UNCHANGED <<thread, order, messages, feedback, files, History>>

Start(c) ==
    StartCreate(c) \/ Patch(c) \/ Chat(c) \/ OnMessage(c) \/ Upload(c) \/ OnLink(c)
    \/ Delete(c) \/ DeleteAll(c)

Step(c) ==
    Create(c) \/ Unlink(c) \/ Merge(c) \/ Save(c) \/ LinkOne(c) \/ Ask(c) \/ Reply(c)
    \/ Find(c) \/ Clear(c) \/ DropThread(c) \/ Look(c) \/ Rate(c) \/ Fetch(c)
    \/ SetFlag(c) \/ FileMemory(c) \/ Hold(c) \/ Toggle(c) \/ Detach(c)

AllDone == \A c \in Call : ~Unused(c) /\ ~Busy(c)

Next == (\E c \in Call : Start(c) \/ Step(c)) \/ (AllDone /\ UNCHANGED vars)

Spec == Init /\ [][Next]_vars

(***************************************************************************)
(* Properties.                                                             *)
(***************************************************************************)

\* However many uploads arrive together, a thread is given one file memory,
\* and it has one exactly when its row says so (_create_thread_file_memory
\* looks again under the row lock).
OneFileMemory ==
    \A t \in Thread : /\ files[t] <= 1
                      /\ Live(t) => ((files[t] = 1) = thread[t].files)

\* A deleted or evicted thread never comes back, whatever was in progress on
\* it, and no rename, agent switch or generated title that overlaps an upload
\* takes the file memory away again (storage/db.py saves only the columns it
\* merged).
UpdatesKeepTheRest ==
    [][\A t \in Thread :
          /\ thread[t] = Gone => thread'[t] = Gone
          /\ Live(t) /\ thread[t].files => thread'[t] = Gone \/ thread'[t].files]_vars

\* Nothing outlives a thread in the database: no message stored while it was
\* being deleted, no link.  Of a thread in memory at most a late reply does.
\* No rating outlives its message.
NoGhosts ==
    /\ \A t \in Thread : ~Live(t) =>
          /\ Linked(t) = {}
          /\ \A m \in In(t) : Stored(m) => t \in InMemory /\ m[2] = "reply"
    /\ \A m \in Message : feedback[m] > 0 => Stored(m)

\* A double click rates once: update_or_create falls back on the unique key.
OneRating == \A m \in Message : feedback[m] <= 1

\* What two overlapping requests could each make is made once.
MadeOnce == TypeOK /\ OneFileMemory /\ OneRating

\* A thread in memory is only evicted for a newer one that fills the cap, and
\* never before an older one.
EvictsOldestAtCap ==
    [][\A t \in InMemory :
          /\ thread[t] # Gone /\ thread'[t] = Gone
          /\ \E u \in InMemory : thread[u] = Unborn /\ thread'[u] # Unborn
          => /\ Len(order') = MaxThreads
             /\ \A i, j \in DOMAIN order :
                   order[j] = t /\ i < j => thread'[order[i]] = Gone]_vars

\* When no two requests overlapped, a thread is linked to the memories of its
\* agent, however often it was switched and whatever the agents share.
Settled(t) == Live(t) /\ t \notin InMemory /\ \A c \in Call : ~Busy(c)

AgentLinks(t) ==
    \A m \in Memory \ {Files} : <<t, m>> \in byHand \/ (m \in Linked(t)) = (m \in MemoriesOf[thread[t].agent])

QuietLinks == ~raced => \A t \in Thread : Settled(t) => AgentLinks(t)

\* Messages, ratings and links belong to a thread that is there, and the links
\* to its agent.
LinksAndMessagesFit == NoGhosts /\ QuietLinks

\* The same of overlapping requests, which the code does not keep.
LinksFollowAgent == \A t \in Thread : Settled(t) => AgentLinks(t)
=============================================================================
