----------------------------- MODULE Schema_proofs -----------------------------
(***************************************************************************)
(* Proofs about Schema, for any programs, recursive ones included: state   *)
(* is well typed, and every reference in a document resolves.              *)
(***************************************************************************)
EXTENDS Schema, TLAPS

Nodes == [list : BOOLEAN, refs : SUBSET TypeNames, required : SUBSET Names]
Schemas == UNION {[D -> Nodes] : D \in SUBSET Seq(Names)}
Documents == UNION {[D -> Schemas] : D \in SUBSET TypeNames}
Uses == SchemaUses \cup {"params"}
Frames ==
  [ type : Types, field : Nat \ {0}, use : Uses, nested : BOOLEAN,
    props : Schemas, required : SUBSET Names ]

Typed ==
  /\ program \in Programs
  /\ part \in 1..Len(program.parts) + 1
  /\ stack \in Seq(Frames) /\ Len(stack) <= MaxDepth
  /\ stack # << >> => part <= Len(program.parts)
  /\ definitions \in Documents
  /\ linked \subseteq TypeNames
  /\ documented \in [DOMAIN program.parts -> SUBSET ({"path", "query"} \X Names)]
  /\ state \in {"generating", "served", "dead"}

\* How frames fit together: every caller stands at the field its callee is
\* about, and only a part's own call has no caller.
Fits(s, i) ==
  /\ s[i].field <= Len(FieldsOf(s[i].type)) + 1
  /\ i < Len(s) => s[i].field <= Len(FieldsOf(s[i].type))
  /\ s[i].use = "root" => i = 1
  /\ i = 1 => s[i].use \in {"root", "params"}
  /\ i > 1 /\ s[i].use \in {"definition", "inline"} =>
       Encoded(FieldsOf(s[i - 1].type)[s[i - 1].field])
  /\ << >> \notin DOMAIN s[i].props
  /\ RefsOf(s[i].props) \subseteq DOMAIN definitions
Stacked == \A i \in 1..Len(stack) : Fits(stack, i)

Written ==
  /\ linked \subseteq DOMAIN definitions
  /\ \A n \in DOMAIN definitions :
       << >> \in DOMAIN definitions[n] /\ RefsOf(definitions[n]) \subseteq DOMAIN definitions

IInv == Typed /\ Stacked /\ Written

-------------------------------------------------------------------------------
(* Schemas *)

LEMMA SchemaIsTyped ==
  ASSUME NEW D \in SUBSET Seq(Names), NEW s \in [D -> Nodes]
  PROVE  s \in Schemas
BY DEF Schemas

LEMMA SchemaHasType ==
  ASSUME NEW s \in Schemas
  PROVE  /\ DOMAIN s \subseteq Seq(Names) /\ s \in [DOMAIN s -> Nodes]
         /\ RefsOf(s) \subseteq TypeNames
BY DEF Schemas, RefsOf, Nodes

LEMMA LeafIsSchema ==
  ASSUME NEW list \in BOOLEAN, NEW refs \in SUBSET TypeNames
  PROVE  /\ Leaf(list, refs) \in Schemas /\ << >> \in DOMAIN Leaf(list, refs)
         /\ RefsOf(Leaf(list, refs)) = refs
<1>1. /\ Leaf(list, refs) \in [{<< >>} -> Nodes] /\ {<< >>} \in SUBSET Seq(Names)
  BY DEF Leaf, Node, Nodes
<1>2. RefsOf(Leaf(list, refs)) = refs
  BY DEF RefsOf, Leaf, Node
<1> QED
  BY <1>1, <1>2, SchemaIsTyped

LEMMA NothingIsSchema ==
  Nothing \in Schemas /\ DOMAIN Nothing = {} /\ RefsOf(Nothing) = {}
<1>1. DOMAIN Nothing = {} /\ Nothing \in [{} -> Nodes]
  BY DEF Nothing
<1>2. RefsOf(Nothing) = {}
  BY <1>1 DEF RefsOf
<1> QED
  BY <1>1, <1>2, SchemaIsTyped

\* What a call returns refers to what its frame refers to.
LEMMA ResultIsSchema ==
  ASSUME NEW f \in Frames, NEW list \in BOOLEAN, << >> \notin DOMAIN f.props
  PROVE  /\ Result(f, list) \in Schemas /\ << >> \in DOMAIN Result(f, list)
         /\ RefsOf(Result(f, list)) = RefsOf(f.props)
<1> DEFINE D == {<< >>} \cup DOMAIN f.props
<1>1. f.props \in Schemas /\ f.required \in SUBSET Names
  BY DEF Frames
<1>2. D \in SUBSET Seq(Names)
  <2>1. DOMAIN f.props \subseteq Seq(Names)
    BY <1>1, SchemaHasType
  <2>2. << >> \in Seq(Names)
    OBVIOUS
  <2> QED
    BY <2>1, <2>2
<1>3. \A p \in D : Result(f, list)[p] = IF p = << >> THEN Node(list, {}, f.required) ELSE f.props[p]
  BY DEF Result
<1>4. Node(list, {}, f.required) \in Nodes /\ Node(list, {}, f.required).refs = {}
  BY <1>1 DEF Node, Nodes
<1>5. Result(f, list) \in [D -> Nodes]
  BY <1>1, <1>4, SchemaHasType DEF Result
<1>6. RefsOf(Result(f, list)) = RefsOf(f.props)
  <2>1. \A p \in DOMAIN f.props : Result(f, list)[p] = f.props[p]
    BY <1>3
  <2>2. Result(f, list)[<< >>].refs = {}
    BY <1>3, <1>4
  <2>3. DOMAIN Result(f, list) = D
    BY <1>5
  <2> QED
    BY <2>1, <2>2, <2>3 DEF RefsOf
<1> QED
  BY <1>2, <1>5, <1>6, SchemaIsTyped

\* Setting a property adds the references of its schema at most.
LEMMA SetPropIsFrame ==
  ASSUME NEW f \in Frames, << >> \notin DOMAIN f.props,
         NEW n \in Names, NEW sub \in Schemas, NEW required \in BOOLEAN
  PROVE  LET g == SetProp(f, n, sub, required)
         IN  /\ g \in Frames /\ << >> \notin DOMAIN g.props
             /\ g.type = f.type /\ g.use = f.use /\ g.nested = f.nested
             /\ g.field = f.field + 1
             /\ RefsOf(g.props) \subseteq RefsOf(f.props) \cup RefsOf(sub)
<1> DEFINE old == {p \in DOMAIN f.props : p[1] # n}
           new == {<<n>> \o q : q \in DOMAIN sub}
           props == [p \in old \cup new |-> IF p[1] = n THEN sub[Tail(p)] ELSE f.props[p]]
           g == SetProp(f, n, sub, required)
<1>1. f.props \in Schemas /\ DOMAIN f.props \subseteq Seq(Names) /\ DOMAIN sub \subseteq Seq(Names)
  BY SchemaHasType DEF Frames
<1>2. \A q \in DOMAIN sub : /\ <<n>> \o q \in Seq(Names) /\ <<n>> \o q # << >>
                            /\ (<<n>> \o q)[1] = n /\ Tail(<<n>> \o q) = q
  BY <1>1
<1>3. \A p \in old \cup new :
        \/ p \in DOMAIN f.props /\ props[p] = f.props[p]
        \/ \E q \in DOMAIN sub : p = <<n>> \o q /\ props[p] = sub[q]
  BY <1>2
<1>4. old \cup new \in SUBSET Seq(Names) /\ << >> \notin old \cup new
  <2>1. \A p \in new : p \in Seq(Names) /\ p # << >>
    BY <1>2
  <2>2. \A p \in old : p \in Seq(Names) /\ p # << >>
    BY <1>1
  <2> QED
    BY <2>1, <2>2
<1>5. props \in [old \cup new -> Nodes]
  <2>1. \A p \in old \cup new : props[p] \in Nodes
    BY <1>1, <1>3, SchemaHasType
  <2> QED
    BY <2>1
<1>6. RefsOf(props) \subseteq RefsOf(f.props) \cup RefsOf(sub)
  <2>1. ASSUME NEW p \in old \cup new
        PROVE  props[p].refs \subseteq RefsOf(f.props) \cup RefsOf(sub)
    <3>1. CASE p \in DOMAIN f.props /\ props[p] = f.props[p]
      BY <3>1 DEF RefsOf
    <3>2. CASE \E q \in DOMAIN sub : p = <<n>> \o q /\ props[p] = sub[q]
      BY <3>2 DEF RefsOf
    <3> QED
      BY <1>3, <3>1, <3>2
  <2>2. DOMAIN props = old \cup new
    OBVIOUS
  <2> HIDE DEF props, old, new
  <2> QED
    BY <2>1, <2>2 DEF RefsOf
<1>7. g = [f EXCEPT !.field = @ + 1, !.props = props,
                    !.required = IF required THEN @ \cup {n} ELSE @]
  BY DEF SetProp
<1>8. props \in Schemas
  BY <1>4, <1>5, SchemaIsTyped
<1> DEFINE needed == IF required THEN f.required \cup {n} ELSE f.required
<1>11. needed \in SUBSET Names
  BY DEF Frames
<1>12. g = [f EXCEPT !.field = f.field + 1, !.props = props, !.required = needed]
  BY <1>7
<1> HIDE DEF props, old, new, g, needed
<1>9. /\ g \in Frames /\ g.props = props
      /\ g.type = f.type /\ g.use = f.use /\ g.nested = f.nested /\ g.field = f.field + 1
  <2>1. g = [ type |-> f.type, field |-> f.field + 1, use |-> f.use, nested |-> f.nested,
              props |-> props, required |-> needed ]
    BY <1>12 DEF Frames
  <2>2. f.type \in Types /\ f.field + 1 \in Nat \ {0} /\ f.use \in Uses /\ f.nested \in BOOLEAN
    BY DEF Frames
  <2> QED
    BY <1>8, <1>11, <2>1, <2>2 DEF Frames
<1>10. << >> \notin DOMAIN g.props
  BY <1>4, <1>5, <1>9
<1> QED
  BY <1>6, <1>9, <1>10 DEF g

LEMMA DefinedIsDocument ==
  ASSUME definitions \in Documents, NEW name \in TypeNames, NEW schema \in Schemas
  PROVE  LET d == Defined(name, schema)
         IN  /\ d \in Documents /\ DOMAIN d = DOMAIN definitions \cup {name}
             /\ d[name] = schema
             /\ \A n \in DOMAIN definitions : n # name => d[n] = definitions[n]
<1> DEFINE D == DOMAIN definitions \cup {name}
<1>1. DOMAIN definitions \subseteq TypeNames /\ definitions \in [DOMAIN definitions -> Schemas]
  BY DEF Documents
<1>2. Defined(name, schema) \in [D -> Schemas] /\ D \in SUBSET TypeNames
  BY <1>1 DEF Defined
<1> QED
  BY <1>2 DEF Documents, Defined

-------------------------------------------------------------------------------
(* The program and its fields *)

LEMMA ProgramIsTyped ==
  ASSUME program \in Programs
  PROVE  /\ Len(program.parts) \in Nat /\ DOMAIN program.parts = 1..Len(program.parts)
         /\ \A i \in 1..Len(program.parts) : program.parts[i].type \in Types
         /\ \A t \in Types : /\ FieldsOf(t) \in Seq(Fields) /\ NameOf(t) \in TypeNames
                             /\ Len(FieldsOf(t)) \in Nat
<1>1. program.parts \in Seq(Parts) /\ program.fields \in [Types -> Seq(Fields)]
      /\ program.name \in [Types -> TypeNames]
  BY SchemaAssumption
<1>2. /\ Len(program.parts) \in Nat /\ DOMAIN program.parts = 1..Len(program.parts)
      /\ \A i \in 1..Len(program.parts) : program.parts[i] \in Parts
  BY <1>1
<1>3. \A i \in 1..Len(program.parts) : program.parts[i].type \in Types
  BY <1>2 DEF Parts
<1>4. \A t \in Types : FieldsOf(t) \in Seq(Fields) /\ NameOf(t) \in TypeNames
  BY <1>1 DEF FieldsOf, NameOf
<1>5. ASSUME NEW t \in Types PROVE Len(FieldsOf(t)) \in Nat
  <2>1. FieldsOf(t) \in Seq(Fields)
    BY <1>4
  <2> QED
    BY <2>1
<1> QED
  BY <1>2, <1>3, <1>4, <1>5

LEMMA FieldIsTyped ==
  ASSUME program \in Programs, NEW t \in Types, NEW i \in Nat \ {0}, i <= Len(FieldsOf(t))
  PROVE  LET f == FieldsOf(t)[i]
         IN  /\ f \in Fields /\ f.name \in Names /\ f.required \in BOOLEAN
             /\ f.of \in Types /\ NameOf(f.of) \in TypeNames
             /\ f.place \in {"none", "path", "query", "both"}
             /\ Encoded(f) => JSONName(f) \in Names
<1> DEFINE f == FieldsOf(t)[i]
<1>1. FieldsOf(t) \in Seq(Fields) /\ Len(FieldsOf(t)) \in Nat
  BY ProgramIsTyped
<1>2. f \in Fields
  BY <1>1
<1> HIDE DEF f
<1>3. /\ f.name \in Names /\ f.required \in BOOLEAN /\ f.of \in Types
      /\ f.place \in {"none", "path", "query", "both"}
      /\ f.tag \in Names \cup {"none", "dash", "unnamed"}
  BY <1>2 DEF Fields
<1>4. Encoded(f) => JSONName(f) \in Names
  BY <1>3, SchemaAssumption DEF Encoded, JSONName
<1>5. NameOf(f.of) \in TypeNames
  BY <1>3, ProgramIsTyped
<1> QED
  BY <1>2, <1>3, <1>4, <1>5 DEF f

LEMMA ListIsBoolean ==
  ASSUME NEW f PROVE IsList(f) \in BOOLEAN
BY DEF IsList

-------------------------------------------------------------------------------
(* The stack *)

LEMMA TopIsTyped ==
  ASSUME stack \in Seq(Frames), stack # << >>
  PROVE  /\ Len(stack) \in Nat \ {0} /\ Top = stack[Len(stack)] /\ Top \in Frames
         /\ \A i \in 1..Len(stack) : stack[i] \in Frames
         /\ Len(stack) > 1 => Caller = stack[Len(stack) - 1] /\ Caller \in Frames
BY DEF Top, Caller

LEMMA FrameHasType ==
  ASSUME NEW f \in Frames
  PROVE  /\ f.type \in Types /\ f.field \in Nat \ {0} /\ f.use \in Uses
         /\ f.nested \in BOOLEAN /\ f.props \in Schemas /\ f.required \in SUBSET Names
BY DEF Frames

LEMMA FrameWith ==
  ASSUME NEW f \in Frames, NEW props, NEW required
  PROVE  [f EXCEPT !.field = @ + 1, !.props = props, !.required = required]
         = [ type |-> f.type, field |-> f.field + 1, use |-> f.use,
             nested |-> f.nested, props |-> props, required |-> required ]
<1> DEFINE g == [f EXCEPT !.field = @ + 1, !.props = props, !.required = required]
<1>1. DOMAIN f = {"type", "field", "use", "nested", "props", "required"}
  BY DEF Frames
<1>2. /\ DOMAIN g = DOMAIN f /\ g.type = f.type /\ g.field = f.field + 1 /\ g.use = f.use
      /\ g.nested = f.nested /\ g.props = props /\ g.required = required
  BY <1>1
<1>3. g = [x \in DOMAIN f |-> g[x]]
  BY <1>2
<1> HIDE DEF g
<1>4. g = [ type |-> f.type, field |-> f.field + 1, use |-> f.use,
            nested |-> f.nested, props |-> props, required |-> required ]
  BY <1>1, <1>2, <1>3
<1> QED
  BY <1>4 DEF g

LEMMA ReplacedTop ==
  ASSUME stack \in Seq(Frames), stack # << >>, NEW g \in Frames
  PROVE  /\ WithTop(g) \in Seq(Frames) /\ Len(WithTop(g)) = Len(stack)
         /\ WithTop(g) # << >> /\ WithTop(g)[Len(stack)] = g
         /\ \A i \in 1..Len(stack) : i # Len(stack) => WithTop(g)[i] = stack[i]
BY DEF WithTop

LEMMA ReplacedCaller ==
  ASSUME stack \in Seq(Frames), Len(stack) > 1, NEW g \in Frames
  PROVE  /\ BackTo(g) \in Seq(Frames) /\ Len(BackTo(g)) = Len(stack) - 1
         /\ BackTo(g) # << >> /\ BackTo(g)[Len(stack) - 1] = g
         /\ \A i \in 1..Len(stack) - 1 : i # Len(stack) - 1 => BackTo(g)[i] = stack[i]
<1>1. /\ Callers \in Seq(Frames) /\ Len(Callers) = Len(stack) - 1
      /\ \A i \in 1..Len(stack) - 1 : Callers[i] = stack[i]
  BY DEF Callers
<1>2. Len(Callers) \in Nat \ {0}
  BY <1>1
<1> QED
  BY <1>1, <1>2 DEF BackTo

LEMMA Called ==
  ASSUME stack \in Seq(Frames), NEW g \in Frames
  PROVE  LET s == Append(stack, g)
         IN  /\ s \in Seq(Frames) /\ Len(s) = Len(stack) + 1 /\ s # << >>
             /\ s[Len(stack) + 1] = g
             /\ \A i \in 1..Len(stack) : s[i] = stack[i]
OBVIOUS

LEMMA NewFrame ==
  ASSUME NEW t \in Types, NEW use \in Uses, NEW nested \in BOOLEAN
  PROVE  LET g == Frame(t, use, nested)
         IN  /\ g \in Frames /\ g.type = t /\ g.use = use /\ g.field = 1
             /\ << >> \notin DOMAIN g.props /\ RefsOf(g.props) = {}
<1>1. Nothing \in Schemas /\ DOMAIN Nothing = {} /\ RefsOf(Nothing) = {}
  BY NothingIsSchema
<1> QED
  BY <1>1 DEF Frame, Frames

-------------------------------------------------------------------------------
(* What calls, steps within a frame and returns do to the stack *)

\* Frames below the top fit as before: what they look at does not change.
LEMMA StillFits ==
  ASSUME program' = program, DOMAIN definitions \subseteq DOMAIN definitions',
         stack' \in Seq(Frames), stack \in Seq(Frames), NEW k \in Nat,
         k <= Len(stack), k <= Len(stack'),
         \A i \in 1..k : stack'[i] = stack[i] /\ Fits(stack, i),
         k < Len(stack') => k < Len(stack) \/ k = 0 \/
           stack[k].field <= Len(FieldsOf(stack[k].type))
  PROVE  \A i \in 1..k : Fits(stack, i)'
<1> SUFFICES ASSUME NEW i \in 1..k PROVE Fits(stack, i)'
  OBVIOUS
<1>1. stack'[i] = stack[i] /\ Fits(stack, i) /\ (i > 1 => stack'[i - 1] = stack[i - 1])
  OBVIOUS
<1>2. i < Len(stack') => i < Len(stack) \/ stack[i].field <= Len(FieldsOf(stack[i].type))
  OBVIOUS
<1> QED
  BY <1>1, <1>2 DEF Fits, FieldsOf

LEMMA CallKeeps ==
  ASSUME IInv, NEW t \in Types, NEW use \in Uses, NEW nested \in BOOLEAN,
         Call(Frame(t, use, nested)),
         stack = << >> => use \in {"root", "params"} /\ part <= Len(program.parts),
         stack # << >> =>
           /\ use # "root" /\ Top.field <= Len(FieldsOf(Top.type))
           /\ use \in {"definition", "inline"} => Encoded(Here)
  PROVE  IInv'
<1> DEFINE g == Frame(t, use, nested)
<1>1. /\ g \in Frames /\ g.type = t /\ g.use = use /\ g.field = 1
      /\ << >> \notin DOMAIN g.props /\ RefsOf(g.props) = {}
  BY NewFrame
<1>2. UNCHANGED <<program, part, definitions, linked, documented>> /\ Typed
  BY DEF Call, IInv
<1>3. Written'
  BY <1>2 DEF IInv, Written
<1>4. CASE state' = "dead" /\ UNCHANGED stack
  BY <1>2, <1>3, <1>4 DEF IInv, Typed, Stacked, Fits, FieldsOf
<1>5. CASE Len(stack) < MaxDepth /\ stack' = Append(stack, g) /\ UNCHANGED state
  <2>1. /\ stack' \in Seq(Frames) /\ Len(stack') = Len(stack) + 1 /\ stack' # << >>
        /\ stack'[Len(stack) + 1] = g /\ \A i \in 1..Len(stack) : stack'[i] = stack[i]
    BY <1>1, <1>2, <1>5, Called DEF Typed
  <2>2. Len(stack) \in Nat /\ Len(stack') <= MaxDepth
    BY <1>2, <1>5, <2>1, SchemaAssumption DEF Typed
  <2>3. part <= Len(program.parts)
    BY <1>2 DEF Typed
  <2>4. Typed'
    BY <1>2, <1>5, <2>1, <2>2, <2>3 DEF Typed
  <2>5. \A i \in 1..Len(stack) : Fits(stack, i)
    BY DEF IInv, Stacked
  <2>6. stack # << >> => stack[Len(stack)].field <= Len(FieldsOf(stack[Len(stack)].type))
    BY DEF Top
  <2>7. Len(stack) = 0 \/ stack # << >>
    BY <2>2
  <2>8. \A i \in 1..Len(stack) : Fits(stack, i)'
    <3>1. stack \in Seq(Frames) BY <1>2 DEF Typed
    <3>2. program' = program /\ DOMAIN definitions \subseteq DOMAIN definitions' BY <1>2
    <3> QED BY <2>1, <2>2, <2>5, <2>6, <2>7, <3>1, <3>2, StillFits
  <2>9. ASSUME NEW k \in Nat, k = Len(stack) + 1 PROVE Fits(stack, k)'
    <3>1. 1 <= Len(FieldsOf(t)) + 1
      BY <1>2, ProgramIsTyped DEF Typed
    <3>2. Len(stack) + 1 = 1 <=> stack = << >>
      BY <1>2, <2>2 DEF Typed
    <3>3. stack # << >> => /\ stack'[Len(stack)] = Top
                           /\ Here = FieldsOf(Top.type)[Top.field]
      BY <2>1, <2>2, <3>2 DEF Top, Here
    <3>4. stack'[k] = g /\ Len(stack') = k /\ k \in Nat \ {0} /\ k - 1 = Len(stack)
      BY <2>1, <2>2, <2>9
    <3>5. k = 1 => use \in {"root", "params"}
      BY <3>2, <2>9
    <3>6. k > 1 => /\ use # "root"
                   /\ use \in {"definition", "inline"} =>
                        Encoded(program.fields[stack'[k - 1].type][stack'[k - 1].field])
      BY <3>2, <3>3, <3>4, <2>2, <2>9 DEF FieldsOf
    <3>7. g.field <= Len(program.fields[g.type]) + 1
      BY <1>1, <3>1 DEF FieldsOf
    <3>8. RefsOf(g.props) \subseteq DOMAIN definitions'
      BY <1>1
    <3> HIDE DEF g
    <3> QED
      BY <1>1, <1>2, <3>4, <3>5, <3>6, <3>7, <3>8, <2>9 DEF Fits, FieldsOf
  <2>10. Stacked'
    <3> SUFFICES ASSUME NEW i \in 1..Len(stack') PROVE Fits(stack, i)'
      BY DEF Stacked
    <3>1. i \in 1..Len(stack) \/ (i \in Nat /\ i = Len(stack) + 1)
      BY <2>1, <2>2
    <3> QED
      BY <2>8, <2>9, <3>1
  <2> QED
    BY <1>3, <2>4, <2>10 DEF IInv
<1> QED
  BY <1>4, <1>5 DEF Call

\* The frame of a call moves past the field it is at, within the call or when
\* a callee returns: k is the frame's place.
LEMMA MoveKeeps ==
  ASSUME IInv, NEW k \in Nat \ {0}, k <= Len(stack), NEW g \in Frames,
         program' = program, DOMAIN definitions \subseteq DOMAIN definitions',
         stack' \in Seq(Frames), Len(stack') = k, stack'[k] = g,
         \A i \in 1..k : i # k => stack'[i] = stack[i],
         stack[k].field <= Len(FieldsOf(stack[k].type)),
         g.type = stack[k].type, g.use = stack[k].use, g.field = stack[k].field + 1,
         << >> \notin DOMAIN g.props, RefsOf(g.props) \subseteq DOMAIN definitions'
  PROVE  Stacked'
<1>1. /\ stack \in Seq(Frames) /\ Len(stack) \in Nat /\ k - 1 \in Nat
      /\ \A i \in 1..Len(stack) : Fits(stack, i)
  BY DEF IInv, Typed, Stacked
<1>2. \A i \in 1..k - 1 : Fits(stack, i)'
  BY <1>1, StillFits
<1>3. Fits(stack, k)'
  <2>1. stack[k] \in Frames /\ Fits(stack, k)
    BY <1>1
  <2>2. stack[k].field \in Nat /\ stack[k].type \in Types
    BY <2>1 DEF Frames
  <2>3. Len(FieldsOf(stack[k].type)) \in Nat
    BY <2>2, ProgramIsTyped DEF IInv, Typed
  <2>4. g.field <= Len(FieldsOf(g.type)) + 1
    BY <2>2, <2>3
  <2>5. k > 1 => stack'[k - 1] = stack[k - 1]
    BY <1>1
  <2> QED
    BY <1>1, <2>1, <2>4, <2>5 DEF Fits, FieldsOf
<1> SUFFICES ASSUME NEW i \in 1..Len(stack') PROVE Fits(stack, i)'
  BY DEF Stacked
<1>4. i = k \/ i \in 1..k - 1
  BY <1>1
<1> QED
  BY <1>2, <1>3, <1>4

\* The facts about the top frame that an action starts from.
LEMMA AtFieldFacts ==
  ASSUME IInv, NEW uses, AtField(uses)
  PROVE  /\ Len(stack) \in Nat \ {0} /\ Top = stack[Len(stack)]
         /\ Top \in Frames /\ Top.use \in uses /\ Top.field <= Len(FieldsOf(Top.type))
         /\ << >> \notin DOMAIN Top.props /\ RefsOf(Top.props) \subseteq DOMAIN definitions
         /\ Here.of \in Types /\ NameOf(Here.of) \in TypeNames
         /\ Here.name \in Names /\ Here.required \in BOOLEAN
         /\ Here.place \in {"none", "path", "query", "both"}
         /\ Encoded(Here) => JSONName(Here) \in Names
         /\ state = "generating" /\ part <= Len(program.parts)
<1>1. /\ stack \in Seq(Frames) /\ stack # << >> /\ program \in Programs
      /\ state = "generating" /\ part <= Len(program.parts)
      /\ Top.use \in uses /\ Top.field <= Len(FieldsOf(Top.type))
  BY DEF IInv, Typed, AtField
<1>2. Len(stack) \in Nat \ {0} /\ Top = stack[Len(stack)] /\ Top \in Frames
  BY <1>1, TopIsTyped
<1>3. Fits(stack, Len(stack))
  BY <1>2 DEF IInv, Stacked
<1>4. Top.type \in Types /\ Top.field \in Nat \ {0}
  BY <1>2, FrameHasType
<1>5. /\ Here.of \in Types /\ NameOf(Here.of) \in TypeNames
      /\ Here.name \in Names /\ Here.required \in BOOLEAN
      /\ Here.place \in {"none", "path", "query", "both"}
      /\ Encoded(Here) => JSONName(Here) \in Names
  BY <1>1, <1>4, FieldIsTyped DEF Here
<1> QED
  BY <1>1, <1>2, <1>3, <1>5 DEF Fits

\* And those about the top frame and its caller when a call is at its end.
LEMMA AtEndFacts ==
  ASSUME IInv, NEW use, AtEnd(use), Len(stack) > 1
  PROVE  /\ Len(stack) \in Nat /\ Top \in Frames /\ Top.use = use
         /\ NameOf(Top.type) \in TypeNames
         /\ << >> \notin DOMAIN Top.props /\ RefsOf(Top.props) \subseteq DOMAIN definitions
         /\ Caller = stack[Len(stack) - 1] /\ Caller \in Frames
         /\ Caller.field <= Len(FieldsOf(Caller.type))
         /\ << >> \notin DOMAIN Caller.props
         /\ RefsOf(Caller.props) \subseteq DOMAIN definitions
         /\ use \in {"definition", "inline"} =>
              JSONName(Asked) \in Names /\ Asked.required \in BOOLEAN
<1>1. /\ stack \in Seq(Frames) /\ stack # << >> /\ program \in Programs
      /\ Top.use = use
  BY DEF IInv, Typed, AtEnd
<1>2. /\ Len(stack) \in Nat \ {0} /\ Top = stack[Len(stack)] /\ Top \in Frames
      /\ Caller = stack[Len(stack) - 1] /\ Caller \in Frames
  BY <1>1, TopIsTyped
<1>3. Fits(stack, Len(stack)) /\ Fits(stack, Len(stack) - 1)
  BY <1>2 DEF IInv, Stacked
<1>4. NameOf(Top.type) \in TypeNames /\ Caller.type \in Types /\ Caller.field \in Nat \ {0}
  BY <1>1, <1>2, FrameHasType, ProgramIsTyped
<1>5. Caller.field <= Len(FieldsOf(Caller.type))
  BY <1>2, <1>3 DEF Fits
<1>6. Asked.required \in BOOLEAN /\ (Encoded(Asked) => JSONName(Asked) \in Names)
  BY <1>1, <1>4, <1>5, FieldIsTyped DEF Asked
<1>7. use \in {"definition", "inline"} => Encoded(Asked)
  BY <1>1, <1>2, <1>3 DEF Fits, Asked
<1> QED
  BY <1>1, <1>2, <1>3, <1>4, <1>5, <1>6, <1>7 DEF Fits

LEMMA StepWithin ==
  ASSUME IInv, NEW uses, AtField(uses), NEW g \in Frames, stack' = WithTop(g),
         g.type = Top.type, g.use = Top.use, g.field = Top.field + 1,
         << >> \notin DOMAIN g.props, RefsOf(g.props) \subseteq DOMAIN definitions,
         UNCHANGED <<program, part, definitions, linked, state>>,
         documented' \in [DOMAIN program.parts -> SUBSET ({"path", "query"} \X Names)]
  PROVE  IInv'
<1>1. /\ Len(stack) \in Nat \ {0} /\ Top = stack[Len(stack)]
      /\ Top.field <= Len(FieldsOf(Top.type)) /\ part <= Len(program.parts)
  BY AtFieldFacts
<1>2. stack \in Seq(Frames) /\ stack # << >> /\ Len(stack) <= MaxDepth
  BY DEF IInv, Typed, AtField
<1>3. /\ stack' \in Seq(Frames) /\ Len(stack') = Len(stack) /\ stack'[Len(stack)] = g
      /\ \A i \in 1..Len(stack) : i # Len(stack) => stack'[i] = stack[i]
  BY <1>2, ReplacedTop
<1>4. Typed'
  BY <1>1, <1>2, <1>3 DEF IInv, Typed
<1>5. Stacked'
  BY <1>1, <1>3, MoveKeeps
<1>6. Written'
  BY DEF IInv, Written
<1> QED
  BY <1>4, <1>5, <1>6 DEF IInv

\* A call returns to its caller, which may find a definition more.
LEMMA StepBack ==
  ASSUME IInv, NEW use, AtEnd(use), Len(stack) > 1, NEW g \in Frames, stack' = BackTo(g),
         g.type = Caller.type, g.use = Caller.use, g.field = Caller.field + 1,
         << >> \notin DOMAIN g.props, RefsOf(g.props) \subseteq DOMAIN definitions',
         UNCHANGED <<program, part, linked, documented, state>>,
         DOMAIN definitions \subseteq DOMAIN definitions',
         definitions' \in Documents, Written'
  PROVE  IInv'
<1>1. /\ Len(stack) \in Nat /\ Caller = stack[Len(stack) - 1]
      /\ Caller.field <= Len(FieldsOf(Caller.type))
  BY AtEndFacts
<1>2. /\ stack \in Seq(Frames) /\ stack # << >> /\ Len(stack) <= MaxDepth
      /\ part <= Len(program.parts)
  BY DEF IInv, Typed, AtEnd
<1>3. /\ stack' \in Seq(Frames) /\ Len(stack') = Len(stack) - 1 /\ stack'[Len(stack) - 1] = g
      /\ \A i \in 1..Len(stack) - 1 : i # Len(stack) - 1 => stack'[i] = stack[i]
  BY <1>2, ReplacedCaller
<1>4. Len(stack') <= MaxDepth
  BY <1>1, <1>2, <1>3, SchemaAssumption
<1>5. Typed'
  BY <1>2, <1>3, <1>4 DEF IInv, Typed
<1>6. Stacked'
  <2> DEFINE n == Len(stack)
  <2>2. n \in Nat /\ n > 1
    BY <1>1
  <2>1. n - 1 \in Nat \ {0} /\ n - 1 <= n
    <3> HIDE DEF n
    <3> QED BY <2>2
  <2> QED
    BY <1>1, <1>3, <2>1, MoveKeeps
<1> QED
  BY <1>5, <1>6 DEF IInv

LEMMA NotAlone ==
  ASSUME IInv, NEW use \in {"embedded", "definition", "inline"}, AtEnd(use)
  PROVE  Len(stack) > 1
<1>1. Len(stack) \in Nat \ {0} /\ Top = stack[Len(stack)] /\ Top.use = use
  BY TopIsTyped DEF IInv, Typed, AtEnd
<1>2. Fits(stack, Len(stack))
  BY <1>1 DEF IInv, Stacked
<1> QED
  BY <1>1, <1>2 DEF Fits

\* Defining a type whose references resolve keeps what is written resolved.
LEMMA DefineKeeps ==
  ASSUME IInv, NEW name \in TypeNames, NEW schema \in Schemas,
         << >> \in DOMAIN schema, RefsOf(schema) \subseteq DOMAIN definitions,
         definitions' = Defined(name, schema),
         linked' = linked \/ linked' = linked \cup {name}
  PROVE  /\ definitions' \in Documents /\ Written'
         /\ DOMAIN definitions' = DOMAIN definitions \cup {name}
<1>1. /\ definitions' \in Documents /\ DOMAIN definitions' = DOMAIN definitions \cup {name}
      /\ definitions'[name] = schema
      /\ \A n \in DOMAIN definitions : n # name => definitions'[n] = definitions[n]
  BY DefinedIsDocument DEF IInv, Typed
<1> QED
  BY <1>1 DEF IInv, Written

-------------------------------------------------------------------------------
(* The actions *)

\* The initial state has no call under way and nothing written.
LEMMA InitIsRight == Init => IInv
<1> SUFFICES ASSUME Init PROVE IInv
  OBVIOUS
<1>1. Len(program.parts) \in Nat
  BY ProgramIsTyped DEF Init
<1>2. definitions \in Documents /\ DOMAIN definitions = {}
  <2>1. DOMAIN Nothing = {} /\ Nothing \in [{} -> Schemas]
    BY DEF Nothing
  <2> QED
    BY <2>1 DEF Init, Documents
<1>3. stack \in Seq(Frames) /\ Len(stack) = 0 /\ Len(stack) <= MaxDepth
  BY SchemaAssumption DEF Init
<1>4. Typed
  BY <1>1, <1>2, <1>3 DEF Typed, Init
<1>5. Stacked /\ Written
  BY <1>2, <1>3 DEF Stacked, Written, Init
<1> QED
  BY <1>4, <1>5 DEF IInv

LEMMA VisitKeeps == IInv /\ Visit => IInv'
<1> SUFFICES ASSUME IInv, Visit PROVE IInv'
  OBVIOUS
<1> DEFINE p == program.parts[part]
           use == IF p.what = "params" THEN "params" ELSE "root"
<1>1. p.type \in Types
  BY ProgramIsTyped DEF IInv, Typed, Visit
<1>2. use \in Uses /\ use \in {"root", "params"}
  BY DEF Uses, SchemaUses
<1>3. Call(Frame(p.type, use, TRUE)) /\ stack = << >> /\ part <= Len(program.parts)
  BY DEF Visit
<1> HIDE DEF p, use
<1> QED
  BY <1>1, <1>2, <1>3, CallKeeps

LEMMA PromoteKeeps == IInv /\ Promote => IInv'
<1> SUFFICES ASSUME IInv, Promote PROVE IInv'
  OBVIOUS
<1> DEFINE use == IF Top.use = "params" THEN "params" ELSE "embedded"
<1>1. /\ Here.of \in Types /\ Top.nested \in BOOLEAN
      /\ Top.field <= Len(FieldsOf(Top.type)) /\ stack # << >>
  BY AtFieldFacts, FrameHasType DEF Promote, AtField
<1>2. use \in Uses /\ use \notin {"root", "definition", "inline"}
  BY DEF Uses, SchemaUses
<1>3. Call(Frame(Here.of, use, Top.nested))
  BY DEF Promote
<1> HIDE DEF use
<1> QED
  BY <1>1, <1>2, <1>3, CallKeeps

LEMMA DefineOrInlineKeeps == IInv /\ (Define \/ Inline) => IInv'
<1> SUFFICES ASSUME IInv, Define \/ Inline PROVE IInv'
  OBVIOUS
<1>1. AtField(SchemaUses) /\ Encoded(Here) /\ stack # << >>
  BY DEF Define, Inline, AtField
<1>2. Here.of \in Types /\ Top.field <= Len(FieldsOf(Top.type))
  BY <1>1, AtFieldFacts
<1>3. CASE Define
  <2>1. Call(Frame(Here.of, "definition", TRUE)) /\ "definition" \in Uses
    BY <1>3 DEF Define, Uses, SchemaUses
  <2> QED
    BY <1>1, <1>2, <2>1, CallKeeps
<1>4. CASE Inline
  <2>1. Call(Frame(Here.of, "inline", FALSE)) /\ "inline" \in Uses
    BY <1>4 DEF Inline, Uses, SchemaUses
  <2> QED
    BY <1>1, <1>2, <2>1, CallKeeps
<1> QED
  BY <1>3, <1>4

LEMMA SkipKeeps == IInv /\ SkipField => IInv'
<1> SUFFICES ASSUME IInv, SkipField PROVE IInv'
  OBVIOUS
<1> DEFINE g == [Top EXCEPT !.field = @ + 1]
<1>1. AtField(SchemaUses) /\ stack' = WithTop(g)
      /\ UNCHANGED <<program, part, definitions, linked, documented, state>>
  BY DEF SkipField
<1>2. /\ Top \in Frames /\ << >> \notin DOMAIN Top.props
      /\ RefsOf(Top.props) \subseteq DOMAIN definitions
  BY <1>1, AtFieldFacts
<1>3. /\ g \in Frames /\ g.type = Top.type /\ g.use = Top.use /\ g.field = Top.field + 1
      /\ g.props = Top.props
  BY <1>2 DEF Frames
<1>4. documented' \in [DOMAIN program.parts -> SUBSET ({"path", "query"} \X Names)]
  BY <1>1 DEF IInv, Typed
<1> HIDE DEF g
<1> QED
  BY <1>1, <1>2, <1>3, <1>4, StepWithin

\* A property that is written out, or refers to what is defined.
LEMMA PutKeeps == IInv /\ (PutPlain \/ Refer) => IInv'
<1> SUFFICES ASSUME IInv, PutPlain \/ Refer PROVE IInv'
  OBVIOUS
<1>1. /\ AtField(SchemaUses) /\ Encoded(Here)
      /\ UNCHANGED <<program, part, definitions, linked, documented, state>>
  BY DEF PutPlain, Refer
<1>2. /\ Top \in Frames /\ << >> \notin DOMAIN Top.props
      /\ RefsOf(Top.props) \subseteq DOMAIN definitions
      /\ JSONName(Here) \in Names /\ Here.required \in BOOLEAN
  BY <1>1, AtFieldFacts
<1>3. DOMAIN definitions \subseteq TypeNames
  BY DEF IInv, Typed, Documents
<1>4. PICK refs \in SUBSET DOMAIN definitions :
        stack' = WithTop(SetProp(Top, JSONName(Here), Leaf(IsList(Here), refs), Here.required))
  BY DEF PutPlain, Refer
<1> DEFINE sub == Leaf(IsList(Here), refs)
           g == SetProp(Top, JSONName(Here), sub, Here.required)
<1>5. sub \in Schemas /\ RefsOf(sub) = refs
  BY <1>3, LeafIsSchema, ListIsBoolean
<1> HIDE DEF sub
<1>6. /\ g \in Frames /\ << >> \notin DOMAIN g.props
      /\ g.type = Top.type /\ g.use = Top.use /\ g.field = Top.field + 1
      /\ RefsOf(g.props) \subseteq RefsOf(Top.props) \cup RefsOf(sub)
  BY <1>2, <1>5, SetPropIsFrame
<1>7. documented' \in [DOMAIN program.parts -> SUBSET ({"path", "query"} \X Names)]
  BY <1>1 DEF IInv, Typed
<1>8. stack' = WithTop(g)
  BY <1>4 DEF sub
<1> HIDE DEF g
<1> QED
  BY <1>1, <1>2, <1>5, <1>6, <1>7, <1>8, StepWithin

LEMMA EmbeddedKeeps == IInv /\ EndEmbedded => IInv'
<1> SUFFICES ASSUME IInv, EndEmbedded PROVE IInv'
  OBVIOUS
<1> DEFINE new == {p \in DOMAIN Top.props : \A q \in DOMAIN Caller.props : q[1] # p[1]}
           D == DOMAIN Caller.props \cup new
           props == [p \in D |-> IF p \in new THEN Top.props[p] ELSE Caller.props[p]]
           required == Caller.required \cup Top.required
           g == [ type |-> Caller.type, field |-> Caller.field + 1, use |-> Caller.use,
                  nested |-> Caller.nested, props |-> props, required |-> required ]
<1>1. /\ AtEnd("embedded") /\ Len(stack) > 1
      /\ UNCHANGED <<program, part, definitions, linked, documented, state>>
  BY NotAlone DEF EndEmbedded
<1>2. /\ Top \in Frames /\ << >> \notin DOMAIN Top.props
      /\ RefsOf(Top.props) \subseteq DOMAIN definitions
      /\ Caller \in Frames /\ << >> \notin DOMAIN Caller.props
      /\ RefsOf(Caller.props) \subseteq DOMAIN definitions
  BY <1>1, AtEndFacts
<1>3. /\ Top.props \in Schemas /\ Caller.props \in Schemas
      /\ Caller.type \in Types /\ Caller.field \in Nat \ {0} /\ Caller.use \in Uses
      /\ Caller.nested \in BOOLEAN /\ required \in SUBSET Names
  BY <1>2, FrameHasType
<1>4. /\ DOMAIN Top.props \subseteq Seq(Names) /\ Top.props \in [DOMAIN Top.props -> Nodes]
      /\ DOMAIN Caller.props \subseteq Seq(Names)
      /\ Caller.props \in [DOMAIN Caller.props -> Nodes]
  BY <1>3, SchemaHasType
<1>5. D \in SUBSET Seq(Names) /\ << >> \notin D /\ props \in [D -> Nodes]
  BY <1>2, <1>4
<1>6. RefsOf(props) \subseteq RefsOf(Top.props) \cup RefsOf(Caller.props)
  BY DEF RefsOf
<1>7. stack' = BackTo(g)
  <2>1. stack' = BackTo([Caller EXCEPT !.field = @ + 1, !.props = props, !.required = required])
    BY DEF EndEmbedded
  <2>2. stack' = BackTo([Caller EXCEPT !.field = @ + 1, !.props = props, !.required = required])
    BY <2>1
  <2> HIDE DEF props, required, D, new
  <2> QED
    BY <1>2, <2>2, FrameWith
<1>8. props \in Schemas
  BY <1>5, SchemaIsTyped
<1>9. << >> \notin DOMAIN props
  BY <1>5
<1> HIDE DEF props, required, D, new
<1>10. /\ g \in Frames /\ g.type = Caller.type /\ g.use = Caller.use
       /\ g.field = Caller.field + 1 /\ g.props = props
  BY <1>3, <1>8 DEF Frames
<1>11. definitions' \in Documents /\ Written' /\ DOMAIN definitions \subseteq DOMAIN definitions'
  BY <1>1 DEF IInv, Typed, Written
<1>12. RefsOf(g.props) \subseteq DOMAIN definitions'
  BY <1>1, <1>2, <1>6, <1>10
<1> HIDE DEF g
<1> QED
  BY <1>1, <1>7, <1>9, <1>10, <1>11, <1>12, StepBack

\* A definition, then a reference to it in the caller.
LEMMA DefinitionKeeps == IInv /\ EndDefinition => IInv'
<1> SUFFICES ASSUME IInv, EndDefinition PROVE IInv'
  OBVIOUS
<1> DEFINE name == NameOf(Top.type)
           schema == Result(Top, FALSE)
           sub == Leaf(IsList(Asked), {name})
           g == SetProp(Caller, JSONName(Asked), sub, Asked.required)
<1>1. /\ AtEnd("definition") /\ Len(stack) > 1
      /\ UNCHANGED <<program, part, linked, documented, state>>
      /\ definitions' = Defined(name, schema) /\ stack' = BackTo(g)
  BY NotAlone DEF EndDefinition
<1>2. /\ Top \in Frames /\ << >> \notin DOMAIN Top.props /\ name \in TypeNames
      /\ RefsOf(Top.props) \subseteq DOMAIN definitions
      /\ Caller \in Frames /\ << >> \notin DOMAIN Caller.props
      /\ RefsOf(Caller.props) \subseteq DOMAIN definitions
      /\ JSONName(Asked) \in Names /\ Asked.required \in BOOLEAN
  BY <1>1, AtEndFacts
<1>3. /\ schema \in Schemas /\ << >> \in DOMAIN schema
      /\ RefsOf(schema) \subseteq DOMAIN definitions
  BY <1>2, ResultIsSchema
<1> HIDE DEF name, schema
<1>4. sub \in Schemas /\ RefsOf(sub) = {name}
  <2>1. {name} \in SUBSET TypeNames /\ IsList(Asked) \in BOOLEAN
    BY <1>2, ListIsBoolean
  <2> QED
    BY <2>1, LeafIsSchema
<1> HIDE DEF sub
<1>5. /\ definitions' \in Documents /\ Written'
      /\ DOMAIN definitions' = DOMAIN definitions \cup {name}
  BY <1>1, <1>2, <1>3, DefineKeeps
<1>6. /\ g \in Frames /\ << >> \notin DOMAIN g.props
      /\ g.type = Caller.type /\ g.use = Caller.use /\ g.field = Caller.field + 1
      /\ RefsOf(g.props) \subseteq RefsOf(Caller.props) \cup RefsOf(sub)
  <2>1. /\ Caller \in Frames /\ << >> \notin DOMAIN Caller.props
        /\ JSONName(Asked) \in Names /\ Asked.required \in BOOLEAN /\ sub \in Schemas
    BY <1>2, <1>4
  <2> QED
    BY <2>1, SetPropIsFrame
<1> HIDE DEF g
<1> QED
  BY <1>1, <1>2, <1>4, <1>5, <1>6, StepBack

LEMMA InlineKeeps == IInv /\ EndInline => IInv'
<1> SUFFICES ASSUME IInv, EndInline PROVE IInv'
  OBVIOUS
<1> DEFINE sub == Result(Top, IsList(Asked))
           g == SetProp(Caller, JSONName(Asked), sub, Asked.required)
<1>1. /\ AtEnd("inline") /\ Len(stack) > 1 /\ stack' = BackTo(g)
      /\ UNCHANGED <<program, part, definitions, linked, documented, state>>
  BY NotAlone DEF EndInline
<1>2. /\ Top \in Frames /\ << >> \notin DOMAIN Top.props
      /\ RefsOf(Top.props) \subseteq DOMAIN definitions
      /\ Caller \in Frames /\ << >> \notin DOMAIN Caller.props
      /\ RefsOf(Caller.props) \subseteq DOMAIN definitions
      /\ JSONName(Asked) \in Names /\ Asked.required \in BOOLEAN
  BY <1>1, AtEndFacts
<1>3. sub \in Schemas /\ RefsOf(sub) \subseteq DOMAIN definitions
  BY <1>2, ResultIsSchema, ListIsBoolean
<1> HIDE DEF sub
<1>4. /\ g \in Frames /\ << >> \notin DOMAIN g.props
      /\ g.type = Caller.type /\ g.use = Caller.use /\ g.field = Caller.field + 1
      /\ RefsOf(g.props) \subseteq RefsOf(Caller.props) \cup RefsOf(sub)
  BY <1>2, <1>3, SetPropIsFrame
<1> HIDE DEF g
<1>5. definitions' \in Documents /\ Written' /\ DOMAIN definitions \subseteq DOMAIN definitions'
  BY <1>1 DEF IInv, Typed, Written
<1> QED
  BY <1>1, <1>2, <1>3, <1>4, <1>5, StepBack

\* The last call of a part returns, and the next part is begun.
LEMMA LastReturn ==
  ASSUME IInv, stack # << >>, stack' = << >>, part' = part + 1,
         UNCHANGED <<program, documented, state>>,
         definitions' \in Documents, linked' \subseteq TypeNames, Written'
  PROVE  IInv'
<1>1. /\ program \in Programs /\ part \in 1..Len(program.parts) + 1
      /\ part <= Len(program.parts)
  BY DEF IInv, Typed
<1>2. part' \in 1..Len(program'.parts) + 1
  BY <1>1, ProgramIsTyped
<1>3. Len(stack') <= MaxDepth /\ stack' \in Seq(Frames)
  BY SchemaAssumption
<1>4. Typed'
  BY <1>1, <1>2, <1>3 DEF IInv, Typed
<1>5. Stacked'
  BY DEF Stacked
<1> QED
  BY <1>4, <1>5 DEF IInv

LEMMA RootKeeps == IInv /\ EndRoot => IInv'
<1> SUFFICES ASSUME IInv, EndRoot PROVE IInv'
  OBVIOUS
<1> DEFINE name == NameOf(Top.type)
           schema == Result(Top, FALSE)
<1>1. /\ stack \in Seq(Frames) /\ stack # << >> /\ program \in Programs /\ Top.use = "root"
      /\ part \in 1..Len(program.parts) + 1 /\ part <= Len(program.parts)
  BY DEF EndRoot, AtEnd, IInv, Typed
<1>2. Len(stack) \in Nat \ {0} /\ Top = stack[Len(stack)] /\ Top \in Frames
  BY <1>1, TopIsTyped
<1>3. Fits(stack, Len(stack))
  BY <1>2 DEF IInv, Stacked
<1>4. /\ Len(stack) = 1 /\ << >> \notin DOMAIN Top.props
      /\ RefsOf(Top.props) \subseteq DOMAIN definitions
  BY <1>1, <1>2, <1>3 DEF Fits
<1>5. stack' = << >>
  BY <1>1, <1>4 DEF EndRoot, Callers
<1>6. name \in TypeNames
  BY <1>1, <1>2, FrameHasType, ProgramIsTyped
<1>7. /\ schema \in Schemas /\ << >> \in DOMAIN schema
      /\ RefsOf(schema) \subseteq DOMAIN definitions
  BY <1>2, <1>4, ResultIsSchema
<1>8. /\ definitions' = Defined(name, schema) /\ linked' = linked \cup {name}
      /\ part' = part + 1 /\ UNCHANGED <<program, documented, state>>
  BY DEF EndRoot
<1> HIDE DEF name, schema
<1>9. /\ definitions' \in Documents /\ Written' /\ linked' \subseteq TypeNames
  BY <1>6, <1>7, <1>8, DefineKeeps DEF IInv, Typed
<1> QED
  BY <1>1, <1>5, <1>6, <1>8, <1>9, LastReturn

LEMMA ParameterKeeps == IInv /\ PutParameter => IInv'
<1> SUFFICES ASSUME IInv, PutParameter PROVE IInv'
  OBVIOUS
<1> DEFINE g == [Top EXCEPT !.field = @ + 1]
<1>1. AtField({"params"}) /\ stack' = WithTop(g)
      /\ UNCHANGED <<program, part, definitions, linked, state>>
      /\ documented' = [documented EXCEPT ![part] = @ \cup Parameters(Here)]
  BY DEF PutParameter
<1>2. /\ Top \in Frames /\ << >> \notin DOMAIN Top.props
      /\ RefsOf(Top.props) \subseteq DOMAIN definitions
      /\ Here.name \in Names /\ Here.place \in {"none", "path", "query", "both"}
  BY <1>1, AtFieldFacts
<1>3. /\ g \in Frames /\ g.type = Top.type /\ g.use = Top.use /\ g.field = Top.field + 1
      /\ g.props = Top.props
  BY <1>2 DEF Frames
<1>4. Parameters(Here) \subseteq {"path", "query"} \X Names
  <2> HIDE DEF g
  <2> QED
    BY <1>2 DEF Parameters
<1>5. documented \in [DOMAIN program.parts -> SUBSET ({"path", "query"} \X Names)]
  BY DEF IInv, Typed
<1>6. documented' \in [DOMAIN program.parts -> SUBSET ({"path", "query"} \X Names)]
  <2> HIDE DEF g
  <2> QED
    BY <1>1, <1>4, <1>5
<1> HIDE DEF g
<1> QED
  BY <1>1, <1>2, <1>3, <1>6, StepWithin

LEMMA ParamsKeeps == IInv /\ EndParams => IInv'
<1> SUFFICES ASSUME IInv, EndParams PROVE IInv'
  OBVIOUS
<1>1. /\ AtEnd("params") /\ stack # << >>
      /\ UNCHANGED <<program, definitions, linked, documented, state>>
  BY DEF EndParams, AtEnd
<1>2. definitions' \in Documents /\ Written' /\ linked' \subseteq TypeNames
  BY <1>1 DEF IInv, Typed, Written
<1>3. Len(stack) \in Nat \ {0}
  BY <1>1, TopIsTyped DEF IInv, Typed
<1>4. CASE Len(stack) = 1
  <2>1. stack' = << >> /\ part' = part + 1
    BY <1>4 DEF EndParams
  <2> QED
    BY <1>1, <1>2, <2>1, LastReturn
<1>5. CASE Len(stack) # 1
  <2> DEFINE g == [Caller EXCEPT !.field = @ + 1]
  <2>1. Len(stack) > 1
    BY <1>3, <1>5
  <2>4. stack' = BackTo(g) /\ part' = part
    BY <1>5 DEF EndParams
  <2>2. /\ Caller \in Frames /\ << >> \notin DOMAIN Caller.props
        /\ RefsOf(Caller.props) \subseteq DOMAIN definitions
    BY <1>1, <2>1, AtEndFacts
  <2>3. /\ g \in Frames /\ g.type = Caller.type /\ g.use = Caller.use
        /\ g.field = Caller.field + 1 /\ g.props = Caller.props
    BY <2>2 DEF Frames
  <2> HIDE DEF g
  <2> QED
    BY <1>1, <1>2, <2>1, <2>2, <2>3, <2>4, StepBack
<1> QED
  BY <1>4, <1>5

LEMMA NextKeeps == IInv /\ [Next]_vars => IInv'
<1> SUFFICES ASSUME IInv, [Next]_vars PROVE IInv'
  OBVIOUS
<1>1. CASE Serve
  BY <1>1 DEF Serve, IInv, Typed, Stacked, Written, Fits, FieldsOf
<1>2. CASE UNCHANGED vars
  BY <1>2 DEF vars, IInv, Typed, Stacked, Written, Fits, FieldsOf
<1> QED
  BY <1>1, <1>2, VisitKeeps, RootKeeps, PromoteKeeps, SkipKeeps, PutKeeps,
     DefineOrInlineKeeps, EmbeddedKeeps, DefinitionKeeps, InlineKeeps,
     ParameterKeeps, ParamsKeeps DEF Next

LEMMA InvariantHolds == Spec => []IInv
<1> QED
  BY InitIsRight, NextKeeps, PTL DEF Spec

-------------------------------------------------------------------------------
(* The theorems *)

\* The generator's state is well typed at every moment of its walk over any
\* programs, and its calls never nest deeper than the stack has room for.
THEOREM TypeCorrect == Spec => []TypeOK
<1>1. IInv => TypeOK
  <2> SUFFICES ASSUME IInv PROVE TypeOK
    OBVIOUS
  <2>1. ASSUME NEW i \in DOMAIN stack
        PROVE  /\ stack[i].type \in Types /\ stack[i].use \in SchemaUses \cup {"params"}
               /\ stack[i].field \in 1..Len(FieldsOf(stack[i].type)) + 1
               /\ stack[i].nested \in BOOLEAN /\ stack[i].required \subseteq Names
               /\ << >> \notin DOMAIN stack[i].props
    <3>1. i \in 1..Len(stack) /\ stack[i] \in Frames
      BY DEF IInv, Typed
    <3>2. Fits(stack, i)
      BY <3>1 DEF IInv, Stacked
    <3>3. /\ stack[i].type \in Types /\ stack[i].use \in Uses
          /\ stack[i].field \in Nat \ {0} /\ stack[i].nested \in BOOLEAN
          /\ stack[i].required \in SUBSET Names
      BY <3>1, FrameHasType
    <3>4. Len(FieldsOf(stack[i].type)) \in Nat
      BY <3>3, ProgramIsTyped DEF IInv, Typed
    <3> QED
      BY <3>2, <3>3, <3>4 DEF Fits, Uses
  <2>2. DOMAIN definitions \subseteq TypeNames
    BY DEF IInv, Typed, Documents
  <2> QED
    BY <2>1, <2>2 DEF TypeOK, IInv, Typed, Written
<1> QED
  BY <1>1, InvariantHolds, PTL

\* Every reference the generator has written, in definitions, in operations
\* and in the schemas that its calls still build, leads to a definition, for
\* any programs and wherever the process may run out of stack
\* (swagger/generator.go:542-553, 590-606).
THEOREM RefsResolve == Spec => []EveryRefResolves
<1>1. IInv => EveryRefResolves
  BY DEF IInv, Typed, Stacked, Written, Fits, EveryRefResolves
<1> QED
  BY <1>1, InvariantHolds, PTL
-------------------------------------------------------------------------------
(* Parameters *)

\* The j-th of the fields fs is none of ParseParams's, or it is among docs.
FieldDone(fs, j, docs) ==
  fs[j].place # "none" =>
    <<IF fs[j].place = "query" THEN "query" ELSE "path", fs[j].name>> \in docs

PartDone(i) ==
  program.parts[i].what = "params" => Parsed(program.parts[i].type) \subseteq documented[i]

\* Calls among the parameters of a struct t with the fields fs: those after the
\* first are for embedded structs, and the first stands past the fields it has
\* documented.
Stands(calls, t, fs, docs) ==
  /\ \A i \in 1..Len(calls) : calls[i].use = "params"
  /\ calls[1].type = t
  /\ Len(calls) > 1 => Flattened(fs[calls[1].field])
  /\ \A j \in 1..calls[1].field - 1 : FieldDone(fs, j, docs)

OfPart == program.parts[part].type

InParams ==
  stack # << >> /\ program.parts[part].what = "params" =>
    Stands(stack, OfPart, FieldsOf(OfPart), documented[part])

Documenting ==
  /\ \A i \in 1..part - 1 : PartDone(i)
  /\ InParams
  /\ state = "served" => part > Len(program.parts)

\* Nothing that is documented is taken back.
DocumentsMore ==
  /\ program' = program
  /\ \A i \in DOMAIN program.parts : documented[i] \subseteq documented'[i]

LEMMA PartsStayDone ==
  ASSUME DocumentsMore, NEW i \in DOMAIN program.parts, PartDone(i)
  PROVE  PartDone(i)'
BY DEF DocumentsMore, PartDone, Parsed, FieldsOf

LEMMA FieldsStayDone ==
  ASSUME NEW fs, NEW j, NEW docs, NEW more, docs \subseteq more, FieldDone(fs, j, docs)
  PROVE  FieldDone(fs, j, more)
BY DEF FieldDone

\* A part whose fields are all done is done.
LEMMA AllFieldsDone ==
  ASSUME program \in Programs, NEW i \in 1..Len(program.parts),
         \A j \in 1..Len(FieldsOf(program.parts[i].type)) :
           FieldDone(FieldsOf(program.parts[i].type), j, documented[i])
  PROVE  PartDone(i)
<1> DEFINE t == program.parts[i].type
<1>1. t \in Types
  BY ProgramIsTyped
<1>2. DOMAIN FieldsOf(t) = 1..Len(FieldsOf(t))
  BY <1>1, ProgramIsTyped
<1> QED
  BY <1>2 DEF PartDone, Parsed, FieldDone

\* The parameter of a field is among those the generator writes.
LEMMA ParameterIsAmongThem ==
  ASSUME NEW f, f.place \in {"path", "query", "both"}
  PROVE  <<IF f.place = "query" THEN "query" ELSE "path", f.name>> \in Parameters(f)
BY DEF Parameters

\* Where in the program an unfinished walk is.
LEMMA PartFacts ==
  ASSUME IInv, state = "generating", stack # << >>
  PROVE  /\ stack \in Seq(Frames) /\ Len(stack) \in Nat \ {0}
         /\ Top = stack[Len(stack)] /\ Top \in Frames
         /\ program \in Programs /\ part \in 1..Len(program.parts)
         /\ DOMAIN program.parts = 1..Len(program.parts) /\ Len(program.parts) \in Nat
         /\ DOMAIN documented = DOMAIN program.parts
BY TopIsTyped, ProgramIsTyped DEF IInv, Typed

LEMMA OneOrMore ==
  ASSUME IInv, stack # << >>
  PROVE  /\ Len(stack) = 1 \/ Len(stack) > 1
         /\ Len(stack) > 1 => Len(stack) = 2 \/ Len(stack) > 2
<1>1. ASSUME NEW n \in Nat \ {0} PROVE (n = 1 \/ n > 1) /\ (n > 1 => n = 2 \/ n > 2)
  OBVIOUS
<1> QED
  BY <1>1, TopIsTyped DEF IInv, Typed

LEMMA VisitDocuments == IInv /\ Documenting /\ Visit => Documenting'
<1> SUFFICES ASSUME IInv, Documenting, Visit PROVE Documenting'
  OBVIOUS
<1> DEFINE p == program.parts[part]
           use == IF p.what = "params" THEN "params" ELSE "root"
           g == Frame(p.type, use, TRUE)
<1>1. UNCHANGED <<program, part, documented>> /\ stack = << >> /\ state = "generating"
      /\ part <= Len(program.parts)
  BY DEF Visit, Call
<1>2. program \in Programs /\ part \in 1..Len(program.parts) /\ DOMAIN program.parts = 1..Len(program.parts)
  BY <1>1, ProgramIsTyped DEF IInv, Typed
<1>3. DocumentsMore
  BY <1>1 DEF DocumentsMore
<1>4. \A i \in 1..part' - 1 : PartDone(i)'
  BY <1>1, <1>2, <1>3, PartsStayDone DEF Documenting
<1>5. state' # "served"
  BY <1>1 DEF Visit, Call
<1>6. InParams'
  <2>1. CASE stack' = << >>
    BY <2>1 DEF InParams
  <2>2. CASE stack' # << >>
    <3>1. stack' = Append(stack, g) /\ stack \in Seq(Frames) /\ Len(stack) = 0
      BY <1>1, <2>2 DEF Visit, Call, IInv, Typed
    <3>2. g.type = p.type /\ g.use = use /\ g.field = 1
      BY DEF Frame
    <3>3. Len(stack') = 1 /\ stack'[1] = g
      <4>1. g \in Frames
        BY <1>2, ProgramIsTyped, NewFrame DEF Uses, SchemaUses
      <4> HIDE DEF g
      <4> QED
        BY <3>1, <4>1, Called
    <3> HIDE DEF g
    <3> QED
      BY <1>1, <3>2, <3>3 DEF InParams, Stands, OfPart
  <2> QED
    BY <2>1, <2>2
<1> QED
  BY <1>4, <1>5, <1>6 DEF Documenting

\* A step among schemas is not taken among parameters.
LEMMA NotInParams ==
  ASSUME IInv, InParams, NEW uses, AtField(uses) \/ (\E use \in uses : AtEnd(use)), "params" \notin uses
  PROVE  stack # << >> /\ program.parts[part].what # "params"
<1>1. stack # << >> /\ Top.use \in uses
  BY DEF AtField, AtEnd
<1>2. Len(stack) \in Nat \ {0} /\ Top = stack[Len(stack)]
  BY <1>1, TopIsTyped DEF IInv, Typed
<1> QED
  BY <1>1, <1>2 DEF InParams, Stands

LEMMA SchemaStepDocuments ==
  ASSUME IInv, Documenting,
         \/ SkipField \/ PutPlain \/ Refer \/ Define \/ Inline
         \/ EndEmbedded \/ EndDefinition \/ EndInline
  PROVE  Documenting'
<1>1. UNCHANGED <<program, part, documented>> /\ (state' = state \/ state' = "dead")
  BY DEF SkipField, PutPlain, Refer, Define, Inline, EndEmbedded, EndDefinition, EndInline, Call
<1>2. program.parts[part].what # "params"
  <2>1. "params" \notin SchemaUses /\ {"embedded", "definition", "inline"} \subseteq SchemaUses
    BY DEF SchemaUses
  <2>2. AtField(SchemaUses) \/ \E use \in SchemaUses : AtEnd(use)
    BY <2>1 DEF SkipField, PutPlain, Refer, Define, Inline, EndEmbedded, EndDefinition, EndInline
  <2> QED
    BY <2>1, <2>2, NotInParams DEF Documenting
<1>3. DocumentsMore
  BY <1>1 DEF DocumentsMore
<1>4. part \in Nat /\ part - 1 <= Len(program.parts) /\ DOMAIN program.parts = 1..Len(program.parts)
      /\ Len(program.parts) \in Nat
  BY ProgramIsTyped DEF IInv, Typed
<1>5. \A i \in 1..part' - 1 : PartDone(i)'
  BY <1>1, <1>3, <1>4, PartsStayDone DEF Documenting
<1>6. InParams'
  BY <1>1, <1>2 DEF InParams
<1>7. state' = "served" => part' > Len(program'.parts)
  BY <1>1 DEF Documenting
<1> QED
  BY <1>5, <1>6, <1>7 DEF Documenting

\* A call for an embedded struct: the caller waits at a flattened field.
LEMMA PromoteDocuments == IInv /\ Documenting /\ Promote => Documenting'
<1> SUFFICES ASSUME IInv, Documenting, Promote PROVE Documenting'
  OBVIOUS
<1> DEFINE use == IF Top.use = "params" THEN "params" ELSE "embedded"
           g == Frame(Here.of, use, Top.nested)
           docs == documented[part]
<1>1. /\ AtField(SchemaUses \cup {"params"}) /\ Flattened(Here) /\ Call(g)
      /\ UNCHANGED <<program, part, documented>>
  BY DEF Promote, Call
<1>2. /\ stack # << >> /\ Here.of \in Types /\ state = "generating" /\ Top.nested \in BOOLEAN
      /\ Here = FieldsOf(Top.type)[Top.field] /\ Len(stack) \in Nat \ {0}
  BY <1>1, AtFieldFacts, TopIsTyped, FrameHasType DEF AtField, IInv, Typed, Here
<1>3. g \in Frames /\ g.use = use
  BY <1>2, NewFrame DEF Uses, SchemaUses
<1>4. DocumentsMore
  BY <1>1 DEF DocumentsMore
<1>5. \A i \in 1..part' - 1 : PartDone(i)'
  BY <1>1, <1>2, <1>4, PartFacts, PartsStayDone DEF Documenting
<1>6. state' # "served"
  BY <1>1, <1>2 DEF Call
<1>7. InParams'
  <2> SUFFICES ASSUME program.parts[part].what = "params"
               PROVE  Stands(stack', OfPart, FieldsOf(OfPart), docs)
    BY <1>1 DEF InParams, OfPart, FieldsOf
  <2>1. Stands(stack, OfPart, FieldsOf(OfPart), docs)
    BY <1>2 DEF Documenting, InParams
  <2>2. CASE stack' = stack
    BY <2>1, <2>2
  <2>3. CASE stack' = Append(stack, g)
    <3>1. use = "params"
      BY <1>2, <2>1, PartFacts DEF Stands
    <3> HIDE DEF g, use, docs
    <3>2. /\ Len(stack') = Len(stack) + 1 /\ stack'[Len(stack) + 1] = g
          /\ \A i \in 1..Len(stack) : stack'[i] = stack[i]
      BY <1>2, <1>3, <2>3, PartFacts, Called
    <3>3. \A i \in 1..Len(stack') : stack'[i].use = "params"
      BY <1>2, <1>3, <2>1, <3>1, <3>2, PartFacts DEF Stands
    <3>4. stack'[1] = stack[1]
      BY <1>2, <3>2, PartFacts
    <3>5. Flattened(FieldsOf(OfPart)[stack[1].field])
      <4>1. CASE Len(stack) = 1
        BY <1>1, <1>2, <2>1, <4>1, PartFacts DEF Stands
      <4>2. CASE Len(stack) > 1
        BY <2>1, <4>2 DEF Stands
      <4> QED
        BY <1>2, <4>1, <4>2, OneOrMore
    <3> QED
      BY <2>1, <3>3, <3>4, <3>5 DEF Stands
  <2> QED
    BY <1>1, <2>2, <2>3 DEF Call
<1> QED
  BY <1>5, <1>6, <1>7 DEF Documenting

\* A field of the part's own struct documents its parameter; one of an
\* embedded struct may add others.
LEMMA ParameterDocuments == IInv /\ Documenting /\ PutParameter => Documenting'
<1> SUFFICES ASSUME IInv, Documenting, PutParameter PROVE Documenting'
  OBVIOUS
<1> DEFINE g == [Top EXCEPT !.field = @ + 1]
           docs == documented[part]
           more == documented'[part]
           fs == FieldsOf(OfPart)
<1>1. /\ AtField({"params"}) /\ stack' = WithTop(g)
      /\ UNCHANGED <<program, part, state>>
      /\ documented' = [documented EXCEPT ![part] = @ \cup Parameters(Here)]
  BY DEF PutParameter
<1>2. /\ stack # << >> /\ Here.place \in {"none", "path", "query", "both"}
      /\ Here = FieldsOf(Top.type)[Top.field] /\ state = "generating"
      /\ Len(stack) \in Nat \ {0} /\ Top \in Frames
  BY <1>1, AtFieldFacts, TopIsTyped DEF AtField, IInv, Typed, Here
<1>3. g \in Frames /\ g.type = Top.type /\ g.use = Top.use /\ g.field = Top.field + 1
      /\ Top.field \in Nat \ {0}
  BY <1>2 DEF Frames
<1> HIDE DEF g
<1>4. DocumentsMore /\ docs \subseteq more /\ Parameters(Here) \subseteq more
  BY <1>1, <1>2, PartFacts DEF DocumentsMore
<1>5. \A i \in 1..part' - 1 : PartDone(i)'
  BY <1>1, <1>2, <1>4, PartFacts, PartsStayDone DEF Documenting
<1>6. state' # "served"
  BY <1>1, <1>2
<1>7. InParams'
  <2> SUFFICES ASSUME program.parts[part].what = "params"
               PROVE  Stands(stack', OfPart, fs, more)
    BY <1>1 DEF InParams, OfPart, FieldsOf
  <2>1. Stands(stack, OfPart, fs, docs)
    BY <1>2 DEF Documenting, InParams
  <2>2. /\ Len(stack') = Len(stack) /\ stack'[Len(stack)] = g
        /\ \A i \in 1..Len(stack) : i # Len(stack) => stack'[i] = stack[i]
    BY <1>1, <1>2, <1>3, PartFacts, ReplacedTop
  <2>3. \A i \in 1..Len(stack') : stack'[i].use = "params"
    BY <1>2, <1>3, <2>1, <2>2, PartFacts DEF Stands
  <2>4. /\ stack[1].type = OfPart /\ stack'[1].type = stack[1].type
    BY <1>2, <1>3, <2>1, <2>2, PartFacts DEF Stands
  <2>5. \A j \in 1..stack[1].field - 1 : FieldDone(fs, j, more)
    BY <1>4, <2>1, FieldsStayDone DEF Stands
  <2>6. CASE Len(stack) > 1
    <3>1. stack'[1] = stack[1] /\ Flattened(fs[stack[1].field])
      BY <1>2, <2>1, <2>2, <2>6, PartFacts DEF Stands
    <3> HIDE DEF fs, docs, more
    <3> QED
      BY <2>3, <2>4, <2>5, <3>1 DEF Stands
  <2>7. CASE Len(stack) = 1
    <3>1. stack'[1] = g /\ Top = stack[1]
      BY <1>2, <2>2, <2>7, PartFacts
    <3>2. FieldDone(fs, Top.field, more)
      <4>1. Here.place # "none" =>
              <<IF Here.place = "query" THEN "query" ELSE "path", Here.name>> \in more
        BY <1>2, <1>4, ParameterIsAmongThem
      <4>2. Here = fs[Top.field]
        BY <1>2, <2>4, <3>1
      <4> HIDE DEF fs, docs, more
      <4> QED
        BY <4>1, <4>2 DEF FieldDone
    <3> HIDE DEF fs, docs, more
    <3>3. \A j \in 1..g.field - 1 : FieldDone(fs, j, more)
      BY <1>3, <2>5, <3>1, <3>2
    <3> QED
      BY <2>2, <2>3, <2>4, <2>7, <3>1, <3>3 DEF Stands
  <2> QED
    BY <1>2, <2>6, <2>7, OneOrMore
<1> QED
  BY <1>5, <1>6, <1>7 DEF Documenting

\* The next part is begun when this one is done.
LEMMA NextPart ==
  ASSUME IInv, Documenting, DocumentsMore, state = "generating", stack # << >>,
         part' = part + 1, PartDone(part)
  PROVE  \A i \in 1..part' - 1 : PartDone(i)'
<1> SUFFICES ASSUME NEW i \in 1..part' - 1 PROVE PartDone(i)'
  OBVIOUS
<1>1. i \in 1..part /\ i \in DOMAIN program.parts
  BY PartFacts
<1>2. PartDone(i)
  BY <1>1, PartFacts DEF Documenting
<1> QED
  BY <1>1, <1>2, PartsStayDone

LEMMA RootDocuments == IInv /\ Documenting /\ EndRoot => Documenting'
<1> SUFFICES ASSUME IInv, Documenting, EndRoot PROVE Documenting'
  OBVIOUS
<1>1. /\ AtEnd("root") /\ stack # << >> /\ state = "generating" /\ stack' = Callers /\ part' = part + 1
      /\ UNCHANGED <<program, documented, state>>
  BY DEF EndRoot, AtEnd
<1>2. program.parts[part].what # "params"
  <2>1. \E use \in {"root"} : AtEnd(use)
    BY <1>1
  <2> QED
    BY <2>1, NotInParams DEF Documenting
<1>3. DocumentsMore /\ PartDone(part)
  BY <1>1, <1>2 DEF DocumentsMore, PartDone
<1>4. stack' = << >>
  <2>1. Fits(stack, Len(stack)) /\ Top.use = "root"
    BY <1>1, PartFacts DEF IInv, Stacked, AtEnd
  <2>2. Len(stack) = 1
    BY <1>1, <2>1, PartFacts DEF Fits
  <2> QED
    BY <1>1, <2>2, PartFacts DEF Callers
<1> QED
  BY <1>1, <1>3, <1>4, NextPart DEF Documenting, InParams

\* A call among parameters returns: past a flattened field, which has none of
\* its own, or from the part, whose fields are then all done.
LEMMA ParamsDocument ==
  EmbeddedAreUntagged /\ IInv /\ Documenting /\ EndParams => Documenting'
<1> SUFFICES ASSUME EmbeddedAreUntagged, IInv, Documenting, EndParams PROVE Documenting'
  OBVIOUS
<1> DEFINE docs == documented[part]
           fs == FieldsOf(OfPart)
<1>1. /\ AtEnd("params") /\ stack # << >> /\ state = "generating" /\ Top.field > Len(FieldsOf(Top.type))
      /\ UNCHANGED <<program, definitions, linked, documented, state>>
      /\ Len(stack) \in Nat \ {0}
  BY TopIsTyped DEF EndParams, AtEnd, IInv, Typed
<1>2. DocumentsMore
  BY <1>1 DEF DocumentsMore
<1>3. state' # "served"
  BY <1>1
<1>4. CASE Len(stack) = 1
  <2>1. stack' = << >> /\ part' = part + 1
    BY <1>4 DEF EndParams
  <2>2. PartDone(part)
    <3>1. CASE program.parts[part].what = "params"
      <4>1. Stands(stack, OfPart, fs, docs)
        BY <1>1, <3>1 DEF Documenting, InParams
      <4>2. OfPart \in Types /\ Len(fs) \in Nat
        BY <1>1, PartFacts, ProgramIsTyped DEF OfPart
      <4>3. stack[1].field \in Nat /\ stack[1].field > Len(fs)
        BY <1>1, <1>4, <4>1, PartFacts, FrameHasType DEF Stands
      <4>4. \A j \in 1..Len(fs) : FieldDone(fs, j, docs)
        BY <4>1, <4>2, <4>3 DEF Stands
      <4> QED
        BY <1>1, <4>4, PartFacts, AllFieldsDone DEF OfPart
    <3> QED
      BY <3>1 DEF PartDone
  <2> QED
    BY <1>1, <1>2, <1>3, <2>1, <2>2, NextPart DEF Documenting, InParams
<1>5. CASE Len(stack) > 1
  <2> DEFINE g == [Caller EXCEPT !.field = @ + 1]
  <2>1. stack' = BackTo(g) /\ part' = part
    BY <1>1, <1>5, PartFacts DEF EndParams
  <2>2. /\ Caller \in Frames /\ Caller = stack[Len(stack) - 1]
        /\ Caller.field <= Len(FieldsOf(Caller.type))
    BY <1>1, <1>5, AtEndFacts
  <2>3. /\ g \in Frames /\ g.type = Caller.type /\ g.use = Caller.use /\ g.field = Caller.field + 1
        /\ Caller.type \in Types /\ Caller.field \in Nat \ {0}
    BY <2>2 DEF Frames
  <2> HIDE DEF g
  <2>4. \A i \in 1..part' - 1 : PartDone(i)'
    BY <1>1, <1>2, <2>1, PartFacts, PartsStayDone DEF Documenting
  <2>5. InParams'
    <3> SUFFICES ASSUME program.parts[part].what = "params"
                 PROVE  Stands(stack', OfPart, fs, docs)
      BY <1>1, <2>1 DEF InParams, OfPart, FieldsOf
    <3>1. Stands(stack, OfPart, fs, docs)
      BY <1>1 DEF Documenting, InParams
    <3>2. /\ Len(stack') = Len(stack) - 1 /\ stack'[Len(stack) - 1] = g
          /\ \A i \in 1..Len(stack) - 1 : i # Len(stack) - 1 => stack'[i] = stack[i]
      BY <1>1, <1>5, <2>1, <2>3, PartFacts, ReplacedCaller
    <3>3. \A i \in 1..Len(stack') : stack'[i].use = "params"
      <4>1. g.use = "params"
        BY <1>1, <1>5, <2>2, <2>3, <3>1 DEF Stands
      <4>2. ASSUME NEW i \in 1..Len(stack') PROVE i \in 1..Len(stack) /\ i <= Len(stack) - 1 /\ Len(stack) - 1 \in Nat
        BY <1>1, <1>5, <3>2
      <4> QED
        BY <3>1, <3>2, <4>1, <4>2 DEF Stands
    <3>4. stack[1].type = OfPart /\ stack'[1].type = stack[1].type
          /\ Flattened(fs[stack[1].field])
      <4>1. stack[1].type = OfPart /\ Flattened(fs[stack[1].field])
        BY <1>5, <3>1 DEF Stands
      <4>2. stack'[1].type = stack[1].type
        <5>1. 1 \in 1..Len(stack) - 1
          BY <1>1, <1>5
        <5>2. CASE Len(stack) - 1 = 1
          BY <2>2, <2>3, <3>2, <5>2
        <5>3. CASE Len(stack) - 1 # 1
          BY <3>2, <5>1, <5>3
        <5> QED
          BY <5>2, <5>3
      <4> QED
        BY <4>1, <4>2
    <3>5. CASE Len(stack) > 2
      <4>1. stack'[1] = stack[1]
        BY <1>1, <3>2, <3>5, PartFacts
      <4> HIDE DEF fs, docs
      <4> QED
        BY <3>1, <3>3, <3>4, <4>1 DEF Stands
    <3>6. CASE Len(stack) = 2
      <4>1. stack'[1] = g /\ Caller = stack[1]
        BY <2>2, <3>2, <3>6
      <4>2. FieldDone(fs, Caller.field, docs)
        <5>1. Caller.field \in DOMAIN program.fields[Caller.type]
          BY <1>1, <2>2, <2>3, PartFacts, ProgramIsTyped DEF FieldsOf
        <5>2. fs[Caller.field].place = "none"
          BY <1>1, <2>3, <3>4, <4>1, <5>1, PartFacts DEF EmbeddedAreUntagged, FieldsOf
        <5> QED
          BY <5>2 DEF FieldDone
      <4> HIDE DEF fs, docs
      <4>3. \A j \in 1..g.field - 1 : FieldDone(fs, j, docs)
        BY <2>3, <3>1, <4>1, <4>2 DEF Stands
      <4> QED
        BY <3>2, <3>3, <3>4, <3>6, <4>1, <4>3 DEF Stands
    <3> QED
      BY <1>1, <1>5, <3>5, <3>6, OneOrMore
  <2> QED
    BY <1>3, <2>4, <2>5 DEF Documenting
<1> QED
  BY <1>1, <1>4, <1>5, OneOrMore

LEMMA NextDocuments ==
  EmbeddedAreUntagged /\ IInv /\ Documenting /\ [Next]_vars => Documenting'
<1> SUFFICES ASSUME EmbeddedAreUntagged, IInv, Documenting, [Next]_vars PROVE Documenting'
  OBVIOUS
<1>1. CASE Serve \/ UNCHANGED vars
  <2>1. UNCHANGED <<program, part, stack, documented>>
    BY <1>1 DEF Serve, vars
  <2>2. state' = "served" => part' > Len(program'.parts)
    BY <1>1, <2>1 DEF Serve, vars, Documenting
  <2>3. \A i \in 1..part' - 1 : PartDone(i)'
    <3>1. DocumentsMore
      BY <2>1 DEF DocumentsMore
    <3>2. \A i \in 1..part - 1 : i \in DOMAIN program.parts
      BY ProgramIsTyped DEF IInv, Typed
    <3> QED
      BY <2>1, <3>1, <3>2, PartsStayDone DEF Documenting
  <2>4. InParams'
    BY <2>1 DEF Documenting, InParams, OfPart, FieldsOf
  <2> QED
    BY <2>2, <2>3, <2>4 DEF Documenting
<1> QED
  BY <1>1, VisitDocuments, RootDocuments, PromoteDocuments, SchemaStepDocuments,
     ParameterDocuments, ParamsDocument DEF Next

\* Whatever ParseParams takes from a request for a parameter struct is in the
\* served document, at the same place and under the same name, for any programs
\* in which no embedded struct carries a parameter's tag
\* (middleware/typed/request.go:56-76 against swagger/generator.go:264-309).
THEOREM ParametersAreDocumented ==
  ASSUME EmbeddedAreUntagged
  PROVE  Spec => []ParsedIsDocumented
<1>1. Init => Documenting
  BY DEF Init, Documenting, InParams
<1>2. IInv /\ Documenting => ParsedIsDocumented
  <2> SUFFICES ASSUME IInv, Documenting, state = "served", NEW i \in DOMAIN program.parts
               PROVE  PartDone(i)
    BY DEF ParsedIsDocumented, PartDone
  <2>1. i \in 1..Len(program.parts) /\ Len(program.parts) \in Nat /\ part \in Nat
    BY ProgramIsTyped DEF IInv, Typed
  <2>2. i \in 1..part - 1
    BY <2>1 DEF Documenting
  <2> QED
    BY <2>2 DEF Documenting
<1>3. IInv /\ Documenting /\ [Next]_vars => Documenting'
  BY NextDocuments
<1> QED
  BY <1>1, <1>2, <1>3, InvariantHolds, PTL DEF Spec
===============================================================================
