-------------------------------- MODULE Schema --------------------------------
(***************************************************************************)
(* How swagger.GenerateSpec documents the types of the routes: the walk    *)
(* over the fields of parameter, body and response structs, which flattens *)
(* embedded structs, turns named structs into definitions and references   *)
(* to them, and inlines anonymous ones.  The recursion of the generator is *)
(* an explicit stack, one frame to a call of                               *)
(* generateSchemaFromStructWithDefinitions or addParametersFromStruct.     *)
(***************************************************************************)
EXTENDS Naturals, Sequences

CONSTANTS
  Types,      \* the struct types of a program
  TypeNames,  \* what they may be called; "" is no name
  Names,      \* names of fields, in Go, in JSON and in parameters
  Lower,      \* what strings.ToLower makes of each
  Programs,   \* programs: each type's name and fields, and what routes use
  MaxDepth    \* bound: frames the stack of a goroutine has room for

\* A tag gives a name, is missing, is "-", or is one that gives none, as
\* ",omitempty".  "plain" stands for all types that are no structs, "pointer" for
\* a pointer to one, and "plains", "structs" and "pointers" for slices.
Kinds == {"plain", "plains", "struct", "structs", "pointer", "pointers"}
Fields ==
  [ name : Names, tag : Names \cup {"none", "dash", "unnamed"}, required : BOOLEAN,
    place : {"none", "path", "query", "both"}, embedded : BOOLEAN, exported : BOOLEAN,
    kind : Kinds, of : Types ]

\* The order of parts is that of the routes, paths in the order of a map walk.
Parts == [what : {"params", "body", "response"}, type : Types]

ASSUME SchemaAssumption ==
  /\ Names \cap {"none", "dash", "unnamed"} = {}
  /\ Lower \in [Names -> Names]
  /\ \A p \in Programs :
       /\ p.name \in [Types -> TypeNames]
       /\ p.fields \in [Types -> Seq(Fields)]
       /\ p.parts \in Seq(Parts)
  /\ MaxDepth \in Nat

VARIABLES
  program,      \* what has been compiled
  part,         \* the part of it that is being documented
  stack,        \* the calls of the generator, innermost last
  definitions,  \* swagger.Definitions: schemas by type name
  linked,       \* the definitions that operations refer to
  documented,   \* documented[i]: the parameters of the i-th part
  state         \* of the request: generating, served, or dead with its process

vars == <<program, part, stack, definitions, linked, documented, state>>

\* A schema is a function from paths of property names to nodes, the empty
\* path to its own.  A node refers to at most one definition.
Node(list, refs, required) == [list |-> list, refs |-> refs, required |-> required]
Leaf(list, refs) == [p \in {<< >>} |-> Node(list, refs, {})]
Nothing == [p \in {} |-> Node(FALSE, {}, {})]

Frame(type, use, nested) ==
  [ type |-> type, field |-> 1, use |-> use, nested |-> nested,
    props |-> Nothing, required |-> {} ]

Init ==
  /\ program \in Programs
  /\ part = 1
  /\ stack = << >>
  /\ definitions = Nothing
  /\ linked = {}
  /\ documented = [i \in DOMAIN program.parts |-> {}]
  /\ state = "generating"

-------------------------------------------------------------------------------
(* The frame on top of the stack *)

Top == stack[Len(stack)]
FieldsOf(t) == program.fields[t]
Here == FieldsOf(Top.type)[Top.field]
NameOf(t) == program.name[t]

SchemaUses == {"root", "embedded", "definition", "inline"}

AtField(uses) ==
  /\ state = "generating" /\ stack # << >>
  /\ Top.use \in uses /\ Top.field <= Len(FieldsOf(Top.type))
AtEnd(use) ==
  /\ state = "generating" /\ stack # << >>
  /\ Top.use = use /\ Top.field > Len(FieldsOf(Top.type))

\* A call with no room on the stack is the end of the process.
Call(frame) ==
  /\ IF Len(stack) < MaxDepth
     THEN stack' = Append(stack, frame) /\ UNCHANGED state
     ELSE state' = "dead" /\ UNCHANGED stack
  /\ UNCHANGED <<program, part, definitions, linked, documented>>

WithTop(frame) == [stack EXCEPT ![Len(stack)] = frame]
Callers == SubSeq(stack, 1, Len(stack) - 1)
Caller == stack[Len(stack) - 1]
BackTo(frame) == [Callers EXCEPT ![Len(stack) - 1] = frame]

\* The property n of a frame's schema becomes sub, which replaces it whole.
SetProp(frame, n, sub, required) ==
  LET old == {p \in DOMAIN frame.props : p[1] # n}
      new == {<<n>> \o q : q \in DOMAIN sub}
  IN  [frame EXCEPT
        !.field = @ + 1,
        !.props = [p \in old \cup new |-> IF p[1] = n THEN sub[Tail(p)] ELSE frame.props[p]],
        !.required = IF required THEN @ \cup {n} ELSE @]

\* What a call returns.
Result(frame, list) ==
  [p \in {<< >>} \cup DOMAIN frame.props |->
     IF p = << >> THEN Node(list, {}, frame.required) ELSE frame.props[p]]

-------------------------------------------------------------------------------
(* generateSchemaFromStructWithDefinitions, field by field *)

Flattened(f) == f.embedded /\ f.kind = "struct" /\ f.tag \in {"none", "dash"}
Encoded(f) == ~Flattened(f) /\ f.tag \notin {"none", "dash"}
JSONName(f) == IF f.tag = "unnamed" THEN Lower[f.name] ELSE f.tag
IsList(f) == f.kind \in {"plains", "structs", "pointers"}
\* A pointer is documented as a string, whatever it points to.
IsStruct(f) == f.kind \in {"struct", "structs"}
Referable(f) == Top.nested /\ NameOf(f.of) # ""

\* Mutant of Promote: the call is for the struct that embeds.
PromoteItself ==
  /\ AtField(SchemaUses \cup {"params"}) /\ Flattened(Here)
  /\ Call(Frame(Top.type, IF Top.use = "params" THEN "params" ELSE "embedded", Top.nested))

\* An embedded struct without a tag, or with the tag "-", is flattened, here
\* and among parameters.
Promote ==
  /\ AtField(SchemaUses \cup {"params"}) /\ Flattened(Here)
  /\ Call(Frame(Here.of, IF Top.use = "params" THEN "params" ELSE "embedded", Top.nested))

SkipField ==
  /\ AtField(SchemaUses) /\ ~Flattened(Here) /\ ~Encoded(Here)
  /\ stack' = WithTop([Top EXCEPT !.field = @ + 1])
  /\ UNCHANGED <<program, part, definitions, linked, documented, state>>

PutPlain ==
  /\ AtField(SchemaUses) /\ Encoded(Here) /\ ~IsStruct(Here)
  /\ stack' = WithTop(SetProp(Top, JSONName(Here), Leaf(IsList(Here), {}), Here.required))
  /\ UNCHANGED <<program, part, definitions, linked, documented, state>>

\* Mutant of Refer: whether there is a definition is not asked.
ReferBlindly ==
  /\ AtField(SchemaUses) /\ Encoded(Here) /\ IsStruct(Here) /\ Referable(Here)
  /\ stack' = WithTop(SetProp(Top, JSONName(Here),
                              Leaf(IsList(Here), {NameOf(Here.of)}), Here.required))
  /\ UNCHANGED <<program, part, definitions, linked, documented, state>>

Refer ==
  /\ AtField(SchemaUses) /\ Encoded(Here) /\ IsStruct(Here) /\ Referable(Here)
  /\ NameOf(Here.of) \in DOMAIN definitions
  /\ stack' = WithTop(SetProp(Top, JSONName(Here),
                              Leaf(IsList(Here), {NameOf(Here.of)}), Here.required))
  /\ UNCHANGED <<program, part, definitions, linked, documented, state>>

\* The definition appears only when the call returns.
Define ==
  /\ AtField(SchemaUses) /\ Encoded(Here) /\ IsStruct(Here) /\ Referable(Here)
  /\ NameOf(Here.of) \notin DOMAIN definitions
  /\ Call(Frame(Here.of, "definition", TRUE))

\* A struct without a name, and whatever it holds, is written out in place.
Inline ==
  /\ AtField(SchemaUses) /\ Encoded(Here) /\ IsStruct(Here) /\ ~Referable(Here)
  /\ Call(Frame(Here.of, "inline", FALSE))

\* Mutant of EndEmbedded: promoted properties win over the parent's.
EndEmbeddedOver ==
  /\ AtEnd("embedded")
  /\ LET kept == {p \in DOMAIN Caller.props : \A q \in DOMAIN Top.props : q[1] # p[1]}
     IN  stack' = BackTo([Caller EXCEPT
           !.field = @ + 1,
           !.props = [p \in kept \cup DOMAIN Top.props |->
                        IF p \in kept THEN Caller.props[p] ELSE Top.props[p]],
           !.required = @ \cup Top.required])
  /\ UNCHANGED <<program, part, definitions, linked, documented, state>>

\* The parent's properties win over promoted ones; what either requires is
\* required.
EndEmbedded ==
  /\ AtEnd("embedded")
  /\ LET new == {p \in DOMAIN Top.props : \A q \in DOMAIN Caller.props : q[1] # p[1]}
     IN  stack' = BackTo([Caller EXCEPT
           !.field = @ + 1,
           !.props = [p \in DOMAIN Caller.props \cup new |->
                        IF p \in new THEN Top.props[p] ELSE Caller.props[p]],
           !.required = @ \cup Top.required])
  /\ UNCHANGED <<program, part, definitions, linked, documented, state>>

\* The field of the caller a finished call is about.
Asked == FieldsOf(Caller.type)[Caller.field]

Defined(name, schema) ==
  [n \in DOMAIN definitions \cup {name} |-> IF n = name THEN schema ELSE definitions[n]]

\* Mutant of EndDefinition: a definition has the name of the field.
EndDefinitionByField ==
  /\ AtEnd("definition")
  /\ definitions' = Defined(JSONName(Asked), Result(Top, FALSE))
  /\ stack' = BackTo(SetProp(Caller, JSONName(Asked),
                             Leaf(IsList(Asked), {NameOf(Top.type)}), Asked.required))
  /\ UNCHANGED <<program, part, linked, documented, state>>

EndDefinition ==
  /\ AtEnd("definition")
  /\ definitions' = Defined(NameOf(Top.type), Result(Top, FALSE))
  /\ stack' = BackTo(SetProp(Caller, JSONName(Asked),
                             Leaf(IsList(Asked), {NameOf(Top.type)}), Asked.required))
  /\ UNCHANGED <<program, part, linked, documented, state>>

EndInline ==
  /\ AtEnd("inline")
  /\ stack' = BackTo(SetProp(Caller, JSONName(Asked),
                             Result(Top, IsList(Asked)), Asked.required))
  /\ UNCHANGED <<program, part, definitions, linked, documented, state>>

-------------------------------------------------------------------------------
(* The parts of an operation *)

\* A part that is not a struct, or struct{}, is none; nor is a response of
\* plain elements.
Visit ==
  /\ state = "generating" /\ stack = << >> /\ part <= Len(program.parts)
  /\ LET p == program.parts[part]
     IN  Call(Frame(p.type, IF p.what = "params" THEN "params" ELSE "root", TRUE))

\* Bodies and responses are generated anew, whether defined before or not.
EndRoot ==
  /\ AtEnd("root")
  /\ definitions' = Defined(NameOf(Top.type), Result(Top, FALSE))
  /\ linked' = linked \cup {NameOf(Top.type)}
  /\ stack' = Callers
  /\ part' = part + 1
  /\ UNCHANGED <<program, documented, state>>

Parameters(f) ==
  {<<place, f.name>> : place \in IF f.place = "both" THEN {"path", "query"}
                                 ELSE {f.place} \ {"none"}}

\* Mutant of PutParameter: a path parameter is not documented as a query one.
PutParameterOfQuery ==
  /\ AtField({"params"}) /\ ~Flattened(Here)
  /\ documented' = [documented EXCEPT
       ![part] = @ \cup {q \in Parameters(Here) : q[1] = "query"}]
  /\ stack' = WithTop([Top EXCEPT !.field = @ + 1])
  /\ UNCHANGED <<program, part, definitions, linked, state>>

PutParameter ==
  /\ AtField({"params"}) /\ ~Flattened(Here)
  /\ documented' = [documented EXCEPT ![part] = @ \cup Parameters(Here)]
  /\ stack' = WithTop([Top EXCEPT !.field = @ + 1])
  /\ UNCHANGED <<program, part, definitions, linked, state>>

EndParams ==
  /\ AtEnd("params")
  /\ IF Len(stack) = 1
     THEN stack' = << >> /\ part' = part + 1
     ELSE stack' = BackTo([Caller EXCEPT !.field = @ + 1]) /\ UNCHANGED part
  /\ UNCHANGED <<program, definitions, linked, documented, state>>

Serve ==
  /\ state = "generating" /\ stack = << >> /\ part > Len(program.parts)
  /\ state' = "served"
  /\ UNCHANGED <<program, part, stack, definitions, linked, documented>>

-------------------------------------------------------------------------------
Next ==
  \/ Visit \/ EndRoot \/ Serve
  \/ Promote \/ SkipField \/ PutPlain \/ Refer \/ Define \/ Inline
  \/ EndEmbedded \/ EndDefinition \/ EndInline
  \/ PutParameter \/ EndParams

Spec == Init /\ [][Next]_vars

\* One goroutine, which the scheduler lets run.
FairSpec == Spec /\ WF_vars(Next)

-------------------------------------------------------------------------------
(* Properties *)

RefsOf(schema) == UNION {schema[p].refs : p \in DOMAIN schema}

TypeOK ==
  /\ part \in 1..Len(program.parts) + 1
  /\ Len(stack) <= MaxDepth
  /\ \A i \in DOMAIN stack :
       /\ stack[i].type \in Types /\ stack[i].use \in SchemaUses \cup {"params"}
       /\ stack[i].field \in 1..Len(FieldsOf(stack[i].type)) + 1
       /\ stack[i].nested \in BOOLEAN /\ stack[i].required \subseteq Names
       /\ << >> \notin DOMAIN stack[i].props
  /\ DOMAIN definitions \subseteq TypeNames
  /\ \A n \in DOMAIN definitions : << >> \in DOMAIN definitions[n]
  /\ linked \subseteq TypeNames
  /\ documented \in [DOMAIN program.parts -> SUBSET ({"path", "query"} \X Names)]
  /\ state \in {"generating", "served", "dead"}

\* Every reference written so far leads to a definition, in definitions, in
\* operations and in the schemas still in the making, though definitions
\* appear only after the calls that make them return
\* (swagger/generator.go:542-553, 590-606).
EveryRefResolves ==
  /\ linked \subseteq DOMAIN definitions
  /\ \A n \in DOMAIN definitions : RefsOf(definitions[n]) \subseteq DOMAIN definitions
  /\ \A i \in DOMAIN stack : RefsOf(stack[i].props) \subseteq DOMAIN definitions

\* middleware/typed/request.go:60-76: the parameters ParseParams looks up for
\* a struct are those of its own fields, a path before a query parameter.
Parsed(t) ==
  {<<IF f.place = "query" THEN "query" ELSE "path", f.name>> :
     f \in {FieldsOf(t)[i] : i \in {i \in DOMAIN FieldsOf(t) : FieldsOf(t)[i].place # "none"}}}

\* Whatever ParseParams takes from a request is in the document, at its place
\* (middleware/typed/request.go:56-76 against swagger/generator.go:264-309).
ParsedIsDocumented ==
  state = "served" =>
    \A i \in DOMAIN program.parts :
      program.parts[i].what = "params" => Parsed(program.parts[i].type) \subseteq documented[i]

\* What it rests on: a struct that is flattened has no parameter's tag itself;
\* no text would suit it (middleware/typed/request.go:294).
EmbeddedAreUntagged ==
  \A p \in Programs, t \in Types : \A i \in DOMAIN p.fields[t] :
    Flattened(p.fields[t][i]) => p.fields[t][i].place = "none"

\* docs/kb/self/capabilities/swagger-generation.md:28: "`GET /swagger.json` —
\* the generated OpenAPI spec as JSON": the request for it is answered.
DocumentIsServed == <>(state = "served")
===============================================================================
