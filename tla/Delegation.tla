---------------------------- MODULE Delegation ----------------------------
(***************************************************************************)
(* One delegation of a coordinator to a subagent: the wrapper of           *)
(* agents/subagent.py, which hands the conversation over, forwards the     *)
(* tool chunks of the subagent's run, makes it answer and builds the tool  *)
(* output of the delegation; and the hooks of agents/tool_agent.py that    *)
(* govern the run.                                                         *)
(*                                                                         *)
(* The loop between the hooks (ask the model, run the calls it asks for,   *)
(* ask again) is Haystack's: Think, Run and Exhaust model it as the hooks  *)
(* and the wrapper use it.  A call counts once it has run, and the         *)
(* messages of a finished run include the ones the run was given.          *)
(***************************************************************************)
EXTENDS Naturals, Sequences, FiniteSets

CONSTANTS
    Tool,         \* the subagent's toolset
    Required,     \* the tools it must call before it may finish
    MaxCalls,     \* the budget of ToolCallBudgetHook
    MaxSteps,     \* max_agent_steps
    MaxNudges,    \* max_nudges of RequireToolsHook
    MaxParallel,  \* bound: calls in one reply of the model
    MaxGiven,     \* bound: answered calls in the conversation handed over
    Sizes,        \* bound: lengths of a result's text
    Limit,        \* AI_SDK_SUBAGENT_DIGEST_LIMIT; 0 disables it
    None

ASSUME DelegationAssumption ==
    /\ {MaxCalls, MaxSteps, MaxNudges, MaxParallel, MaxGiven, Limit} \subseteq Nat
    /\ Sizes \subseteq Nat
    /\ None \notin Tool

VARIABLES
    phase,    \* where the run is
    steps,    \* replies of the model so far
    calls,    \* every call in the conversation, in order
    last,     \* what the conversation ends with
    nudges,   \* nudges in the conversation
    seen,     \* the calls whose result the run streamed
    output    \* what the coordinator gets as the delegation's tool output

vars == <<phase, steps, calls, last, nudges, seen, output>>

\* sent counts the result chunks that reached the client for the call, size is
\* the length of its result.
Calls == [tool : Tool \cup {None}, step : 0..MaxSteps,
          state : {"given", "asked", "run", "skipped"}, sent : Nat, size : Nat]

\* The answer, or in its place the digest with the results it cuts, and the list
\* of sources.
Outputs == [answer : BOOLEAN, digest : SUBSET (DOMAIN calls), cut : SUBSET (DOMAIN calls),
            sources : SUBSET (DOMAIN calls)]

In(state) == {i \in DOMAIN calls : calls[i].state = state}
Own == DOMAIN calls \ In("given")

TypeOK ==
    /\ phase \in {"thinking", "asked", "running", "exiting", "closing",
                  "flushing", "done", "raised"}
    /\ steps \in 0..MaxSteps
    /\ calls \in Seq(Calls)
    /\ last \in {"task", "answer", "blank", "calls", "results", "nudge"}
    /\ nudges \in 0..MaxNudges
    /\ seen \subseteq Own
    /\ output \in Outputs \cup {None}
    /\ phase \notin {"asked", "running"} => In("asked") = {}

\* _handoff_context: the coordinator's conversation with its answered calls,
\* whose results it has streamed, and without the calls under way.
Init ==
    /\ phase = "thinking"
    /\ steps = 0
    /\ \E n \in 0..MaxGiven : \E sizes \in [1..n -> Sizes] : calls =
          [i \in 1..n |-> [tool |-> None, step |-> 0, state |-> "given", sent |-> 1,
                           size |-> sizes[i]]]
    /\ last = "task"
    /\ nudges = 0
    /\ seen = {}
    /\ output = None

(***************************************************************************)
(* The loop.                                                               *)
(***************************************************************************)

\* The model writes text, which may be empty, or asks for calls.  The filter
\* shows each call to the client and drops the text.
Think ==
    /\ phase = "thinking" /\ steps < MaxSteps
    /\ steps' = steps + 1
    /\ \/ /\ last' \in {"answer", "blank"}
          /\ phase' = "exiting"
          /\ UNCHANGED calls
       \/ /\ \E n \in 1..MaxParallel : \E asked \in [1..n -> Tool] :
                calls' = calls \o [i \in 1..n |-> [tool |-> asked[i], step |-> steps + 1,
                                                   state |-> "asked", sent |-> 0,
                                                   size |-> 0]]
          /\ last' = "calls"
          /\ phase' = "asked"
    /\ UNCHANGED <<nudges, seen, output>>

\* tool_call_counts of the run
Count == Cardinality(In("run"))

\* Mutant of Spent: one call more.
SpentLate == Count > MaxCalls

Spent == Count >= MaxCalls

Skipped == [i \in DOMAIN calls |->
    IF calls[i].state = "asked" THEN [calls[i] EXCEPT !.state = "skipped"] ELSE calls[i]]

\* ToolCallBudgetHook, before the calls of a reply run.
BeforeTool ==
    /\ phase = "asked"
    /\ \/ /\ Spent
          /\ calls' = Skipped
          /\ last' = "results"
          /\ phase' = "thinking"
       \/ /\ ~Spent
          /\ phase' = "running"
          /\ UNCHANGED <<calls, last>>
    /\ UNCHANGED <<steps, nudges, seen, output>>

\* A call runs and its result passes the filter, _tool_chunks_only.
Run(i) ==
    /\ phase = "running" /\ calls[i].state = "asked"
    /\ \E size \in Sizes :
          calls' = [calls EXCEPT ![i].state = "run", ![i].sent = @ + 1, ![i].size = size]
    /\ seen' = seen \cup {i}
    /\ UNCHANGED <<phase, steps, last, nudges, output>>

AfterTools ==
    /\ phase = "running" /\ In("asked") = {}
    /\ phase' = "thinking"
    /\ last' = "results"
    /\ UNCHANGED <<steps, calls, nudges, seen, output>>

Exhaust ==
    /\ phase = "thinking" /\ steps = MaxSteps
    /\ phase' = "closing"
    /\ UNCHANGED <<steps, calls, last, nudges, seen, output>>

\* RequireToolsHook: a skipped call does not count.
Missing == {t \in Required \cap Tool : ~ \E i \in In("run") : calls[i].tool = t}

OnExit ==
    /\ phase = "exiting"
    /\ \/ /\ Missing # {} /\ nudges < MaxNudges
          /\ nudges' = nudges + 1
          /\ last' = "nudge"
          /\ phase' = "thinking"
       \/ /\ Missing = {} \/ nudges = MaxNudges
          /\ phase' = "closing"
          /\ UNCHANGED <<nudges, last>>
    /\ UNCHANGED <<steps, calls, seen, output>>

(***************************************************************************)
(* The wrapper.                                                            *)
(***************************************************************************)

\* Mutant of Close: a run without an answer goes back to its loop.
CloseByLoop ==
    /\ phase = "closing"
    /\ phase' = IF last = "answer" THEN "flushing" ELSE "thinking"
    /\ UNCHANGED <<steps, calls, last, nudges, seen, output>>

\* _needs_response: one call of the model without tools.  A failure or a
\* reply that is no answer leaves the conversation as it is.
Close ==
    /\ phase = "closing"
    /\ last' \in IF last = "answer" THEN {last} ELSE {last, "answer"}
    /\ phase' = "flushing"
    /\ UNCHANGED <<steps, calls, nudges, seen, output>>

\* The results of the conversation, the ones handed over first, without the
\* stubs of the budget.
Material == DOMAIN calls \ In("skipped")

\* The characters of some results.
Length(results) == Cardinality(UNION {{i} \X (1 .. calls[i].size) : i \in results})

Before(i) == {j \in Material : j < i}

\* Mutant of Gathered: the newest results first.
GatheredNewest == {i \in Material : Limit = 0 \/ Length({j \in Material : i < j}) < Limit}

\* _digest goes through the results in order.  It takes one while some of its
\* limit is left, and cuts it to what is left: nothing comes after a cut.
Gathered == {i \in Material : Limit = 0 \/ Length(Before(i)) < Limit}
Cut == {i \in Gathered : Limit # 0 /\ Length(Before(i) \cup {i}) > Limit}

\* _sources names every call, whatever came of it.
Response == [answer  |-> last = "answer",
             digest  |-> IF last = "answer" THEN {} ELSE Gathered,
             cut     |-> IF last = "answer" THEN {} ELSE Cut,
             sources |-> DOMAIN calls]

\* Mutant of Unstreamed: the stubs of the budget are not sent.
NoStub == DOMAIN calls \ (seen \cup In("skipped"))

\* _unstreamed_results, over the whole conversation of the run.
Unstreamed == DOMAIN calls \ seen

\* _aflush, then subagent_response.
Flush ==
    /\ phase = "flushing"
    /\ calls' = [i \in DOMAIN calls |->
                    IF i \in Unstreamed THEN [calls[i] EXCEPT !.sent = @ + 1] ELSE calls[i]]
    /\ output' = Response
    /\ phase' = "done"
    /\ UNCHANGED <<steps, last, nudges, seen>>

\* The model cannot be reached: the run raises through the wrapper.
Raise ==
    /\ phase = "thinking" /\ steps < MaxSteps
    /\ phase' = "raised"
    /\ UNCHANGED <<steps, calls, last, nudges, seen, output>>

Over == phase \in {"done", "raised"} /\ UNCHANGED vars

Next ==
    \/ Think \/ BeforeTool \/ (\E i \in DOMAIN calls : Run(i)) \/ AfterTools
    \/ Exhaust \/ OnExit \/ Close \/ Flush \/ Raise \/ Over

Spec == Init /\ [][Next]_vars
FairSpec == Spec /\ WF_vars(Next)

(***************************************************************************)
(* Properties.                                                             *)
(***************************************************************************)

\* Every call the run showed to the client is resolved there exactly once,
\* whether it ran or was refused: no part hangs open, none is answered twice.
OwnPartsClose == phase = "done" => \A i \in Own : calls[i].sent = 1

\* The budget is judged between steps: no call runs when the calls of the
\* steps before it have used the budget up.
BudgetIsKept ==
    \A i \in In("run") : Cardinality({j \in In("run") : calls[j].step < calls[i].step}) < MaxCalls

\* A run that ends by itself has run every required tool of its toolset, or
\* was told about it as often as the hook ever does.
RequiredRan ==
    phase = "done" /\ steps < MaxSteps /\ nudges < MaxNudges =>
        Required \cap Tool \subseteq {calls[i].tool : i \in In("run")}

\* Whatever cuts a run short: when no answer does, its results reach the
\* coordinator in their order and whole, up to the one at which the limit of
\* the digest is used up.  Results that fit are all there, unless they are
\* empty, no stub is passed off as one, and a run that was handed no result
\* hands back one of its own.
WorkIsHandedBack ==
    phase = "done" /\ ~output.answer =>
        /\ output.digest \subseteq Material
        /\ \A i \in output.digest : Before(i) \subseteq output.digest \ output.cut
        /\ Limit = 0 \/ Length(Material) <= Limit =>
              {i \in Material : calls[i].size > 0} \subseteq output.digest \ output.cut
        /\ In("given") = {} /\ In("run") # {} => In("run") \cap output.digest # {}

\* The budget and the required tools, which pull in opposite directions.
HooksHold == BudgetIsKept /\ RequiredRan

\* The client gets every result once, the coordinator what the limit leaves.
NothingIsLost == OwnPartsClose /\ WorkIsHandedBack

\* manual/agent.md: one large result does not crowd out the rest (violated: the limit
\* goes to the results in their order, and the ones handed over come first).
NoneCrowdedOut == phase = "done" /\ ~output.answer => Material \subseteq output.digest

\* However stubborn the model, the run ends.
RunEnds == <>(phase \in {"done", "raised"})

\* A result the client has is not sent again (violated: the wrapper flushes
\* the results of the conversation handed over too).
NotDuplicated == phase = "done" => \A i \in DOMAIN calls : calls[i].sent = 1
=============================================================================
