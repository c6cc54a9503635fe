------------------------ MODULE WorkflowDefinition ------------------------
(* A workflow definition from its author to the worker: the declared fields   *)
(* and steps (workflows/schemas.py), the check that stores or queues it       *)
(* (registry.py, runner.py), the models and steps it is compiled to           *)
(* (definitions.py), and the calls of WorkflowService that keep one stored    *)
(* definition and queue a run of it.                                          *)
(*                                                                            *)
(* Nothing here fails at random: a definition is refused where it is written  *)
(* so that it need not fail where it runs, in a worker, later.  A value is a  *)
(* pair of its JSON type and its content, None is Python's None.              *)
EXTENDS Naturals, FiniteSets, Sequences

CONSTANTS
    Drafts,     \* what authors submit
    Fallback,   \* a definition an update may put in place of the draft
    Supplies,   \* what callers supply: functions from input names to values
    Exposures,  \* the registries a deployment may expose: [types, actions]
    Refused,    \* field names that pydantic does not build a model with
    MaxDepth, MaxFields, MaxEnum,   \* MAX_DEPTH, MAX_FIELDS, MAX_ENUM
    None

ASSUME BoundsAssumption == {MaxDepth, MaxFields, MaxEnum} \subseteq Nat \ {0}

VARIABLES
    draft,      \* the definition under consideration
    exposed,    \* AI_SDK_WORKFLOW_STEPS and AI_SDK_WORKFLOW_ACTIONS
    row,        \* the WorkflowSettings row: definition and active
    call,       \* a service call between its read and its write
    run         \* the WorkflowRun row: status, snapshot, inputs, steps completed

vars == <<draft, exposed, row, call, run>>

Scalars == {"str", "int", "bool"}
Kind(v) == IF v = None THEN "null" ELSE v[1]

-----------------------------------------------------------------------------
(* FieldDefinition: a field agrees with itself.                               *)

RECURSIVE IsA(_, _), Bounded(_, _), Coherent(_)

(* _check_default_matches_type: a value of the field's own declared type.     *)
\* Mutant of IsA: what is inside a list is not looked at.
IsAnyList(v, f) ==
    /\ Kind(v) = IF f.type = "object" THEN "dict" ELSE f.type
    /\ f.type = "object" =>
          /\ DOMAIN v[2] \subseteq DOMAIN f.fields
          /\ \A n \in DOMAIN v[2] : IsA(v[2][n], f.fields[n])

IsA(v, f) ==
    /\ Kind(v) = IF f.type = "object" THEN "dict" ELSE f.type
    /\ f.type = "list" /\ f.items # None =>
          \A i \in DOMAIN v[2] : IsA(v[2][i], f.items)
    /\ f.type = "object" =>
          /\ DOMAIN v[2] \subseteq DOMAIN f.fields
          /\ \A n \in DOMAIN v[2] : IsA(v[2][n], f.fields[n])

(* _check_bounds.                                                             *)
Bounded(f, depth) ==
    /\ f.enum # None => Cardinality(f.enum) <= MaxEnum
    /\ depth <= MaxDepth
    /\ f.fields # None =>
          /\ Cardinality(DOMAIN f.fields) <= MaxFields
          /\ \A n \in DOMAIN f.fields : Bounded(f.fields[n], depth + 1)
    /\ f.items # None => Bounded(f.items, depth + 1)

(* The validator of FieldDefinition, which ran for every nested field first.  *)
Coherent(f) ==
    /\ f.items # None => f.type = "list" /\ Coherent(f.items)
    /\ (f.type = "object") = (f.fields # None)
    /\ f.fields # None => \A n \in DOMAIN f.fields : Coherent(f.fields[n])
    /\ f.enum # None =>
          /\ f.type \in Scalars /\ f.enum # {}
          /\ f.default # None => f.default \in f.enum
    /\ f.default # None => ~f.required /\ IsA(f.default, f)
    /\ Bounded(f, 1)

-----------------------------------------------------------------------------
(* Compiling: declared fields as a pydantic model, a function from names to   *)
(* an annotation and whether the name may be left out.                        *)

Annotated(kind, of) == [kind |-> kind, of |-> of]

RECURSIVE Annotation(_), ModelOf(_), FieldBuilds(_), Builds(_)

(* field_annotation.                                                          *)
Annotation(f) ==
    IF f.enum # None THEN Annotated("literal", f.enum)
    ELSE IF f.type = "object" THEN Annotated("model", ModelOf(f.fields))
    ELSE IF f.type = "list" /\ f.items # None THEN Annotated("list", Annotation(f.items))
    ELSE Annotated(f.type, None)

(* model_from_fields: a field that is neither required nor has a default      *)
(* takes null.                                                                *)
ModelOf(fields) ==
    [n \in DOMAIN fields |->
        LET f == fields[n]
            open == ~f.required /\ f.default = None
        IN  [annotation |-> IF open THEN Annotated("optional", Annotation(f))
                                    ELSE Annotation(f),
             required |-> f.required, default |-> f.default, checked |-> FALSE]]

(* Whether pydantic builds it (_compiles tries).                              *)
Builds(fields) ==
    DOMAIN fields \cap Refused = {} /\ \A n \in DOMAIN fields : FieldBuilds(fields[n])

FieldBuilds(f) ==
    f.enum = None =>
       /\ f.type = "object" => Builds(f.fields)
       /\ f.type = "list" /\ f.items # None => FieldBuilds(f.items)

(* What a model accepts, which is pydantic's: an int may be given as a bool   *)
(* and a bool as 0 or 1, null only where the annotation says so.              *)
RECURSIVE Accepts(_, _), AcceptsAll(_, _)
Accepts(a, v) ==
    \/ a.kind = "optional" /\ (v = None \/ Accepts(a.of, v))
    \/ a.kind = "literal" /\ v \in a.of
    \/ a.kind \in {"str", "dict"} /\ Kind(v) = a.kind
    \/ a.kind = "int" /\ Kind(v) \in {"int", "bool"}
    \/ a.kind = "bool" /\ (Kind(v) = "bool" \/ v \in {<<"int", 0>>, <<"int", 1>>})
    \/ a.kind = "list" /\ Kind(v) = "list"
       /\ (a.of # None => \A i \in DOMAIN v[2] : Accepts(a.of, v[2][i]))
    \/ a.kind = "model" /\ Kind(v) = "dict" /\ AcceptsAll(a.of, v[2])

AcceptsAll(model, given) ==
    \A n \in DOMAIN model :
        IF n \in DOMAIN given THEN Accepts(model[n].annotation, given[n])
                              ELSE ~model[n].required

-----------------------------------------------------------------------------
(* Authoring with a pydantic model: its annotations become fields.            *)

Literals(a) == {Kind(v) : v \in a.of}

(* _type_kwargs refuses what a declared schema cannot express, an optional    *)
(* inside a list among it; _field_from_info constraints and factories.        *)
RECURSIVE Expressible(_), Crosses(_), Shape(_), FieldsOf(_)
Expressible(a) ==
    \/ a.kind \in Scalars \cup {"dict"}
    \/ a.kind = "literal" /\ Cardinality(Literals(a)) = 1 /\ Literals(a) \subseteq Scalars
    \/ a.kind = "list" /\ (a.of # None => Expressible(a.of))
    \/ a.kind = "model" /\ Crosses(a.of)

(* _split_optional: `X | None` is how an author says optional.                *)
Bare(a) == IF a.kind = "optional" THEN a.of ELSE a

Crosses(model) ==
    \A n \in DOMAIN model : ~model[n].checked /\ Expressible(Bare(model[n].annotation))

Shape(a) ==
    [type |-> IF a.kind = "literal" THEN CHOOSE k \in Literals(a) : TRUE
              ELSE IF a.kind = "model" THEN "object" ELSE a.kind,
     required |-> TRUE, default |-> None,
     enum |-> IF a.kind = "literal" THEN a.of ELSE None,
     items |-> IF a.kind = "list" /\ a.of # None THEN Shape(a.of) ELSE None,
     fields |-> IF a.kind = "model" THEN FieldsOf(a.of) ELSE None]

(* fields_from_model.                                                         *)
FieldsOf(model) ==
    [n \in DOMAIN model |->
        [Shape(Bare(model[n].annotation)) EXCEPT
            !.required = model[n].required /\ model[n].annotation.kind # "optional",
            !.default = model[n].default]]

-----------------------------------------------------------------------------
(* WorkflowDefinition and StepDefinition: what a draft parses to.             *)

Definition(d) == [inputs |-> IF d.model = None THEN d.fields ELSE FieldsOf(d.model),
                  steps |-> d.steps, actions |-> d.actions]

AllCoherent(fields) == \A n \in DOMAIN fields : Coherent(fields[n])

StepParses(s) ==
    /\ s.name # ""
    /\ IF s.type = "agent" THEN s.agent_id
       ELSE ~s.agent_id /\ DOMAIN s.outputs = {} /\ s.history = {}
    /\ AllCoherent(s.outputs)

Parses(d) ==
    /\ d.model # None => DOMAIN d.fields = {} /\ Crosses(d.model)
    /\ AllCoherent(Definition(d).inputs)
    /\ \A i \in DOMAIN d.steps : StepParses(d.steps[i])

Names(steps, i) == {steps[j].name : j \in 1..i}

\* Mutant of CheckPipeline: a step may require itself or a later one.
CheckNames(steps) ==
    /\ steps # <<>>
    /\ \A i \in DOMAIN steps :
          /\ steps[i].name \notin Names(steps, i - 1)
          /\ steps[i].requires \subseteq Names(steps, Len(steps))

(* check_pipeline.                                                            *)
CheckPipeline(steps) ==
    /\ steps # <<>>
    /\ \A i \in DOMAIN steps :
          /\ steps[i].name \notin Names(steps, i - 1)
          /\ steps[i].requires \subseteq Names(steps, i - 1)

(* validate_definition, with the registries as they are now.                  *)
Valid(w, e) ==
    /\ CheckPipeline(w.steps)
    /\ Builds(w.inputs)
    /\ \A i \in DOMAIN w.steps :
          LET s == w.steps[i]
          IN  /\ s.type = "agent" \/ s.type \in e.types
              /\ s.history \subseteq DOMAIN w.inputs
              /\ Builds(s.outputs)
              /\ s.actions \subseteq e.actions
    /\ w.actions \subseteq e.actions

(* validate_inputs; a definition that declares none takes anything.           *)
Takes(w, given) == DOMAIN w.inputs = {} \/ AcceptsAll(ModelOf(w.inputs), given)

-----------------------------------------------------------------------------
(* The worker: compile_steps, compile_actions, then the walk.                 *)

Compiles(w, e) ==
    /\ \A i \in DOMAIN w.steps :
          LET s == w.steps[i]
          IN  /\ s.type = "agent" \/ s.type \in e.types
              /\ s.type = "agent" => Builds(s.outputs)
              /\ s.actions \subseteq e.actions
    /\ w.actions \subseteq e.actions
    /\ Builds(w.inputs)

(* The outcomes of a walk in which no step fails: a step whose required steps *)
(* have not completed is skipped, and an outcome is filed under a name.       *)
RECURSIVE Walk(_, _)
Walk(steps, i) ==
    IF i = 0 THEN {}
    ELSE LET before == Walk(steps, i - 1)
         IN  IF steps[i].requires \subseteq before THEN before \cup {steps[i].name}
             ELSE before \ {steps[i].name}

Completed(steps) == Walk(steps, Len(steps))

-----------------------------------------------------------------------------
NoCall == [kind |-> "none", read |-> None, given |-> None]
NoRun == [status |-> "none", stored |-> FALSE, definition |-> None, given |-> None,
          completed |-> {}]

Init ==
    /\ draft \in Drafts
    /\ exposed \in Exposures
    /\ row = None
    /\ call = NoCall
    /\ run = NoRun

(* What the caller sends as a definition, parsed and checked.                 *)
Submitted(w) ==
    /\ \/ Parses(draft) /\ w = Definition(draft)
       \/ w = Fallback
    /\ Valid(w, exposed)

Create(w) ==
    /\ row = None /\ call.kind = "none"
    /\ Submitted(w)
    /\ row' = [definition |-> w, active |-> TRUE]
    /\ UNCHANGED <<draft, exposed, call, run>>

(* update reads the row and, after the permission check, saves all of it,     *)
(* creating it anew if it was deleted meanwhile.                              *)
UpdateRead ==
    /\ row # None /\ call.kind = "none"
    /\ call' = [NoCall EXCEPT !.kind = "update", !.read = row]
    /\ UNCHANGED <<draft, exposed, row, run>>

UpdateSave(w, active) ==
    /\ call.kind = "update"
    /\ w = call.read.definition \/ Submitted(w)
    /\ row' = [definition |-> w, active |-> active]
    /\ call' = NoCall
    /\ UNCHANGED <<draft, exposed, run>>

Delete ==
    /\ row # None
    /\ row' = None
    /\ run' = [run EXCEPT !.stored = FALSE]
    /\ UNCHANGED <<draft, exposed, call>>

Queued(w, given, stored) ==
    run' = [NoRun EXCEPT !.status = "queued", !.definition = w, !.given = given,
                         !.stored = stored]

(* run: a definition the caller sent, with its inputs.                        *)
RunInline(w, given) ==
    /\ run.status = "none"
    /\ Submitted(w) /\ Takes(w, given)
    /\ Queued(w, given, FALSE)
    /\ UNCHANGED <<draft, exposed, row, call>>

(* run_by_id: the row is read and checked, and the run opened with a copy of  *)
(* what was read, unless the row it points at is gone.                        *)
RunRead(given) ==
    /\ run.status = "none" /\ call.kind = "none"
    /\ row # None /\ row.active
    /\ Valid(row.definition, exposed) /\ Takes(row.definition, given)
    /\ call' = [kind |-> "run", read |-> row, given |-> given]
    /\ UNCHANGED <<draft, exposed, row, run>>

RunOpen ==
    /\ call.kind = "run"
    /\ call' = NoCall
    /\ \/ row # None /\ run.status = "none"
          /\ Queued(call.read.definition, call.given, TRUE)
       \/ row = None /\ UNCHANGED run
    /\ UNCHANGED <<draft, exposed, row>>

(* A resume checks the row's definition of now; the worker takes the copy.    *)
Resume ==
    /\ run.status = "raised" /\ run.stored
    /\ row # None /\ row.active /\ Valid(row.definition, exposed)
    /\ run' = [run EXCEPT !.status = "queued"]
    /\ UNCHANGED <<draft, exposed, row, call>>

Attempt(w) ==
    IF Compiles(w, exposed) /\ CheckPipeline(w.steps) /\ Takes(w, run.given)
    THEN run' = [run EXCEPT !.status = "ran", !.completed = Completed(w.steps)]
    ELSE run' = [run EXCEPT !.status = "raised"]

\* Mutant of Work: the worker compiles the definition as it is stored now.
WorkStored ==
    /\ run.status = "queued"
    /\ Attempt(IF run.stored THEN row.definition ELSE run.definition)
    /\ UNCHANGED <<draft, exposed, row, call>>

(* The task parses the run's copy, and the executor compiles and walks it.    *)
Work ==
    /\ run.status = "queued"
    /\ Attempt(run.definition)
    /\ UNCHANGED <<draft, exposed, row, call>>

(* A deployment with other settings.                                          *)
Deploy(e) ==
    /\ e # exposed
    /\ exposed' = e
    /\ UNCHANGED <<draft, row, call, run>>

Offered == {Fallback} \cup (IF Parses(draft) THEN {Definition(draft)} ELSE {})
               \cup (IF call.kind = "update" THEN {call.read.definition} ELSE {})

Next ==
    \/ UpdateRead \/ Delete \/ RunOpen \/ Resume \/ Work
    \/ \E e \in Exposures : Deploy(e)
    \/ \E given \in Supplies : RunRead(given)
    \/ \E w \in Offered :
          \/ Create(w)
          \/ \E active \in BOOLEAN : UpdateSave(w, active)
          \/ \E given \in Supplies : RunInline(w, given)

Spec == Init /\ [][Next]_vars

-----------------------------------------------------------------------------
(* A definition is accepted exactly when a run of it would go through: it     *)
(* compiles, the walk skips no step and files every outcome under a name of   *)
(* its own, and every input a step sends as its conversation is declared.     *)
GoesThrough(w, e) ==
    /\ Compiles(w, e)
    /\ w.steps # <<>>
    /\ Cardinality(Completed(w.steps)) = Len(w.steps)
    /\ \A i \in DOMAIN w.steps : w.steps[i].history \subseteq DOMAIN w.inputs

AcceptedIffRunnable ==
    Parses(draft) =>
       (Valid(Definition(draft), exposed) <=> GoesThrough(Definition(draft), exposed))

(* A run that was queued runs every step of the definition it was queued      *)
(* with, whatever is edited or deleted meanwhile, unless a step type or an    *)
(* action that definition names is no longer exposed.                         *)
Named(w) == UNION ({w.actions} \cup {w.steps[i].actions : i \in DOMAIN w.steps})
Types(w) == {w.steps[i].type : i \in DOMAIN w.steps} \ {"agent"}
RunsAsAccepted ==
    [][run.status = "queued" /\ run'.status # "queued" =>
          \/ /\ run'.status = "ran"
             /\ run'.completed = Names(run.definition.steps, Len(run.definition.steps))
          \/ /\ run'.status = "raised"
             /\ \/ ~(Types(run.definition) \subseteq exposed.types)
                \/ ~(Named(run.definition) \subseteq exposed.actions)]_vars

(* The default of a field that was accepted is a value its model would take,  *)
(* so a run that relies on it sees what the field declares.  Fields with an   *)
(* enum or a required member inside a list or an object are left out, whose   *)
(* defaults are not held to it.                                               *)
RECURSIVE Lenient(_)
Lenient(f) ==
    /\ f.items # None => f.items.enum = None /\ Lenient(f.items)
    /\ f.fields # None => \A n \in DOMAIN f.fields :
          ~f.fields[n].required /\ f.fields[n].enum = None /\ Lenient(f.fields[n])

Fits(f) == f.default # None => Accepts(Annotation(f), f.default)

DefaultsFit ==
    LET fields == Definition(draft).inputs
    IN  Parses(draft) => \A n \in DOMAIN fields : Lenient(fields[n]) => Fits(fields[n])

(* The same without the exception, which is what schemas.py:79 says.          *)
EveryDefaultFits ==
    LET fields == Definition(draft).inputs
    IN  Parses(draft) => \A n \in DOMAIN fields : Fits(fields[n])

(* A model an author wrote and the fields it is turned into mean the same:    *)
(* with every field supplied and none of them null they accept the same       *)
(* inputs, and what may be left out of the model may be left out of them.     *)
AuthoredShapeCrosses ==
    draft.model # None /\ Parses(draft) =>
       \A given \in Supplies :
          LET compiled == AcceptsAll(ModelOf(FieldsOf(draft.model)), given)
              authored == AcceptsAll(draft.model, given)
              whole == DOMAIN draft.model \subseteq DOMAIN given
          IN  (\A n \in DOMAIN given : given[n] # None) =>
                 /\ authored => compiled
                 /\ compiled /\ whole => authored

(* Declared fields mean what they say, whichever way they were written.       *)
SchemasHold == DefaultsFit /\ AuthoredShapeCrosses
=============================================================================
