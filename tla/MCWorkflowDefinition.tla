----------------------- MODULE MCWorkflowDefinition -----------------------
(* Small definitions for TLC: fields with everything that can be wrong with   *)
(* one, models an author may write, and pipelines of up to three steps.       *)
EXTENDS WorkflowDefinition, TLC

A == <<"str", "a">>
B == <<"str", "b">>
One == <<"int", 1>>
Two == <<"int", 2>>
Yes == <<"bool", TRUE>>
ListOf(s) == <<"list", s>>
Dict(f) == <<"dict", f>>
Empty == [n \in {} |-> None]

Plain(type) == [type |-> type, required |-> TRUE, default |-> None, enum |-> None,
                items |-> None, fields |-> None]
Enum == [Plain("str") EXCEPT !.enum = {A}]
Open == [Plain("int") EXCEPT !.required = FALSE]
Set == [Open EXCEPT !.default = One]
Listing == [Plain("list") EXCEPT !.items = Plain("int")]
Nested == [Plain("object") EXCEPT !.fields = [x |-> Plain("object")]]
Deep == [Plain("list") EXCEPT !.items =
            [Plain("list") EXCEPT !.items = [Plain("list") EXCEPT !.items = Plain("str")]]]

Scalar == [type : {"str", "int", "bool", "dict"}, required : BOOLEAN,
           default : {None, A, One, Yes, Dict(Empty)},
           enum : {None, {}, {A}, {One, Two}, {A, B, <<"str", "c">>}},
           items : {None}, fields : {None}]
Lists == [type : {"list", "str"}, required : BOOLEAN,
          default : {None, A, ListOf(<<>>), ListOf(<<A>>), ListOf(<<One, B>>)},
          enum : {None}, items : {None, Plain("str"), Plain("int"), Enum, Listing, Deep},
          fields : {None}]
Objects == [type : {"object", "dict"}, required : BOOLEAN,
            default : {None, ListOf(<<>>), Dict(Empty), Dict([x |-> A]), Dict([x |-> One]),
                       Dict([z |-> One])},
            enum : {None}, items : {None},
            fields : {None, [x |-> Plain("str")], [x |-> Set], [x |-> Open, y |-> Open],
                      [x |-> Set, y |-> Set, z |-> Set], [x |-> Nested],
                      [model_dump |-> Open]}]

Entry(a) == [annotation |-> a, required |-> TRUE, default |-> None, checked |-> FALSE]
Optional(a) == Annotated("optional", a)
Int == Annotated("int", None)
Str == Annotated("str", None)
Inner == [x |-> Entry(Str)]
Annotations ==
    {Int, Str, Annotated("bool", None), Annotated("dict", None), Annotated("list", None),
     Annotated("list", Int), Annotated("list", Optional(Int)), Annotated("list", Str),
     Annotated("literal", {A}), Annotated("literal", {A, One}), Annotated("any", None),
     Annotated("model", Inner), Annotated("list", Annotated("model", Inner))}
Entries ==
    {Entry(a) : a \in Annotations \cup {Optional(b) : b \in Annotations}}
    \cup {[Entry(a) EXCEPT !.required = FALSE, !.default = d] :
             a \in {Int, Optional(Int), Annotated("list", Int), Annotated("literal", {A})},
             d \in {A, One, ListOf(<<One>>), ListOf(<<A>>)}}
    \cup {[Entry(Int) EXCEPT !.checked = TRUE]}
Models == {[x |-> e] : e \in Entries} \cup {[x |-> e, y |-> Entry(Str)] : e \in Entries}

Agent == [name |-> "a", type |-> "agent", agent_id |-> TRUE, requires |-> {},
          history |-> {}, outputs |-> Empty, actions |-> {}]
Ocr == [Agent EXCEPT !.type = "ocr", !.agent_id = FALSE]
Odd == {[Agent EXCEPT !.agent_id = FALSE], [Agent EXCEPT !.name = ""],
        [Agent EXCEPT !.history = {"x"}], [Agent EXCEPT !.history = {"z"}],
        [Agent EXCEPT !.actions = {"notify"}], [Agent EXCEPT !.outputs = [x |-> Set]],
        [Agent EXCEPT !.outputs = [x |-> Plain("object")]],
        [Agent EXCEPT !.outputs = [model_dump |-> Open]], Ocr,
        [Ocr EXCEPT !.history = {"x"}], [Ocr EXCEPT !.agent_id = TRUE],
        [Ocr EXCEPT !.outputs = [x |-> Set]]}
Wired == {[s EXCEPT !.name = n, !.requires = r] :
             s \in {Agent}, n \in {"a", "b", "c"}, r \in SUBSET {"a", "b"}}
Pipelines == {<<>>} \cup {<<s>> : s \in Odd \cup Wired} \cup (Wired \X Wired)
             \cup {<<r, s, t>> : r \in {Agent}, s \in Wired, t \in Wired}
             \cup {<<Agent, [s EXCEPT !.name = "b", !.requires = {"a"}]>> : s \in Odd}

Draft == [model |-> None, fields |-> Empty, steps |-> <<Agent>>, actions |-> {}]
MCDrafts ==
    {[Draft EXCEPT !.fields = [x |-> f]] : f \in Scalar \cup Lists \cup Objects}
    \cup {[Draft EXCEPT !.model = m] : m \in Models}
    \cup {[Draft EXCEPT !.steps = p, !.fields = [x |-> Plain("str")]] : p \in Pipelines}
    \cup {[Draft EXCEPT !.actions = {"notify"}], [Draft EXCEPT !.model = [x |-> Entry(Int)],
             !.fields = [x |-> Open]]}
MCFallback == [inputs |-> Empty, steps |-> <<Ocr>>, actions |-> {}]

MCSupplies == {Empty, [x |-> A], [x |-> One], [x |-> None],
               [x |-> ListOf(<<One>>), y |-> A], [x |-> ListOf(<<A>>)],
               [x |-> Dict([x |-> A])], [x |-> ListOf(<<Dict(Empty)>>)], [x |-> Yes, y |-> A]}
MCExposures == {[types |-> {"ocr"}, actions |-> {"notify"}], [types |-> {}, actions |-> {}]}
=============================================================================
