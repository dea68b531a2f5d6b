-------------------------------- MODULE GoJSON --------------------------------
(***************************************************************************)
(* What encoding/json makes of Go structs, as a reference for Schema: which *)
(* fields it knows by which names, which structs it looks into for fields   *)
(* to promote, which of the fields that compete for a name it keeps, and    *)
(* the object a struct is encoded as.  None of it looks at what Schema does *)
(* with a field; where the two agree is what Encodable says.                *)
(***************************************************************************)
EXTENDS Schema

\* Pointers are followed.
IsObject(f) == f.kind \in {"struct", "structs", "pointer", "pointers"}
MayEmbed(f) == f.embedded /\ f.kind \in {"struct", "pointer"}

\* A struct, or a pointer to one, is looked into unless its tag names it.  Other
\* fields are encoded if exported, embedded structs even if not.
Embeds(f) == MayEmbed(f) /\ f.tag \in {"none", "unnamed"}
Shown(f) == (f.exported \/ MayEmbed(f)) /\ f.tag # "dash" /\ ~Embeds(f)
GoName(f) == IF f.tag \in {"none", "unnamed"} THEN f.name ELSE f.tag

\* A field's place is its struct type and its index there.
Places(prog) == UNION {{<<t, i>> : i \in DOMAIN prog.fields[t]} : t \in Types}
FieldAt(prog, e) == prog.fields[e[1]][e[2]]

\* A way to a field: the places of embedded structs, each in the one before,
\* and last the field's own.
Leads(prog, w) ==
  /\ \A k \in 1..Len(w) - 1 :
       Embeds(FieldAt(prog, w[k])) /\ FieldAt(prog, w[k]).of = w[k + 1][1]
  /\ Shown(FieldAt(prog, w[Len(w)]))
Ways(prog) ==
  LET embedded == {e \in Places(prog) : Embeds(FieldAt(prog, e))}
      through == UNION {[1..k -> embedded] : k \in 0..MaxDepth - 1}
  IN  {w \in {Append(v, e) : v \in through, e \in Places(prog)} : Leads(prog, w)}

Found(prog, w) == FieldAt(prog, w[Len(w)])
Rivals(prog, v, w) == v[1][1] = w[1][1] /\ GoName(Found(prog, v)) = GoName(Found(prog, w))

\* The shortest way wins, and of equally short ones that to a field whose tag
\* names it; where that decides nothing, none does.
Tagged(prog, w) == Found(prog, w).tag \in Names
Wins(prog, w, v) ==
  \/ Len(w) < Len(v)
  \/ Len(w) = Len(v) /\ Tagged(prog, w) /\ ~Tagged(prog, v)
Dominates(prog, ways, w) == \A v \in ways \ {w} : Rivals(prog, v, w) => Wins(prog, w, v)

\* No two fields compete for a name at the same distance, or in different
\* embedded structs: one of them lies beside the way to the other.
NoRivals(prog) ==
  \A v, w \in Ways(prog) :
    Rivals(prog, v, w) /\ Len(v) <= Len(w) =>
      \/ v = w
      \/ Len(v) < Len(w) /\ \A k \in 1..Len(v) - 1 : v[k] = w[k]

\* What the generator and encoding/json see alike of one field: structs embedded
\* by value without a tag; exported fields with a tag that names them, no pointer
\* to a struct among them; and unexported fields or "-" for what both skip.
SeenAlike(f) ==
  /\ f.tag # "unnamed"
  /\ f.tag = "none" => Flattened(f) \/ ~(f.exported \/ MayEmbed(f))
  /\ f.tag = "dash" => ~Flattened(f)
  /\ f.tag \in Names => /\ f.exported \/ MayEmbed(f)
                        /\ f.kind \notin {"pointer", "pointers"}

\* The programs they see alike: besides, no fields compete, types with a name
\* have one each, and bodies and responses have one.
Encodable(prog) ==
  /\ NoRivals(prog)
  /\ \A t \in Types : \A i \in DOMAIN prog.fields[t] : SeenAlike(prog.fields[t][i])
  /\ \A t, u \in Types : prog.name[t] = prog.name[u] /\ prog.name[t] # "" => t = u
  /\ \A i \in DOMAIN prog.parts :
       prog.parts[i].what # "params" => prog.name[prog.parts[i].type] # ""
ProgramsAreEncodable == \A prog \in Programs : Encodable(prog)

\* What encoding/json keeps of a program's types: of the fields that compete
\* for a name, the one that dominates.  The validator demands every required one.
TypeFields(prog) ==
  LET ways == Ways(prog)
  IN  [ members |-> {<<w[1][1], Found(prog, w)>> : w \in {w \in ways : Dominates(prog, ways, w)}},
        needed |->
          {<<w[1][1], GoName(Found(prog, w))>> :
             w \in {w \in ways : Found(prog, w).required}} ]

\* A schema writes a struct out in place if it has no name, or inside one that
\* has none, and refers to it otherwise.
InPlace(prog, f, nested) == IsObject(f) /\ ~(nested /\ prog.name[f.of] # "")
Needed(json, t) == {e[2] : e \in {e \in json.needed : e[1] = t}}
Shape(prog, json, f, nested) ==
  IF InPlace(prog, f, nested) THEN Node(IsList(f), {}, Needed(json, f.of))
  ELSE Node(IsList(f), IF IsObject(f) THEN {prog.name[f.of]} ELSE {}, {})

\* The chains of k members, each in the struct that the one before has.
Chains(prog, json, t, nested, k) ==
  { fs \in [1..k -> {e[2] : e \in json.members}] :
      \A j \in 1..k :
        IF j = 1 THEN <<t, fs[1]>> \in json.members
        ELSE /\ InPlace(prog, fs[j - 1], nested /\ j = 2)
             /\ <<fs[j - 1].of, fs[j]>> \in json.members }

\* s is the schema of the object a struct of type t is encoded as: its paths
\* are the names along the chains from t, neither fewer nor more.
Encodes(prog, json, s, t, list, nested) ==
  /\ s[<< >>] = Node(list, {}, Needed(json, t))
  /\ \A p \in DOMAIN s \ {<< >>} : \E fs \in Chains(prog, json, t, nested, Len(p)) :
       /\ \A j \in 1..Len(p) : GoName(fs[j]) = p[j]
       /\ s[p] = Shape(prog, json, fs[Len(p)], nested /\ Len(p) = 1)
  /\ \A p \in DOMAIN s : \A fs \in Chains(prog, json, t, nested, Len(p) + 1) :
       (\A j \in 1..Len(p) : GoName(fs[j]) = p[j]) =>
         Append(p, GoName(fs[Len(p) + 1])) \in DOMAIN s

\* When a part is done, every definition is the object its type is encoded as,
\* in whatever order types were met, promoted and inlined.
\* swagger/generator.go:437: "This matches Go's JSON marshaling behavior where
\* embedded struct fields are promoted".  It holds where programs are Encodable;
\* it fails for fields that generator.go:438-485 sees otherwise than encoding/json.
DefinitionsAreEncodings ==
  stack = << >> =>
    LET json == TypeFields(program)
    IN  \A n \in DOMAIN definitions, t \in Types :
          NameOf(t) = n => Encodes(program, json, definitions[n], t, FALSE, TRUE)
===============================================================================
