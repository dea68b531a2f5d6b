------------------------------- MODULE MCSchema -------------------------------
(* Small programs for Schema. *)
EXTENDS GoJSON

InGo(n) == IF n = "x" THEN "X" ELSE "Y"
LowerCase == [n \in {"x", "y", "X", "Y"} |-> IF n \in {"x", "X"} THEN "x" ELSE "y"]

\* An exported field with a tag, all the rest of it as if left out.
Bare(n, kind, of) ==
  [ name |-> InGo(n), tag |-> n, required |-> FALSE, place |-> "none",
    embedded |-> FALSE, exported |-> TRUE, kind |-> kind, of |-> of ]
Plain(n) == Bare(n, "plain", "Order")
Required(n) == [Plain(n) EXCEPT !.required = TRUE]
Hidden(n) == [Plain(n) EXCEPT !.name = n, !.tag = "none", !.exported = FALSE]
Embed(t) == [Bare("y", "struct", t) EXCEPT !.embedded = TRUE, !.tag = "none"]
Param(n, place) == [Plain(n) EXCEPT !.tag = "dash", !.place = place]

\* An Order holds Items, an Item holds Notes, each in every way a struct can
\* hold another: flattened, as a property, as a list, embedded with a tag.
Holds(t) ==
  { Embed(t), Bare("x", "struct", t), Bare("y", "structs", t),
    [Embed(t) EXCEPT !.tag = "x"] }
OrderFields ==
  Holds("Item") \cup Holds("Note") \cup
  { Plain("x"), Required("y"), Hidden("x"), [Embed("Note") EXCEPT !.exported = FALSE],
    Param("x", "both"), Bare("x", "plains", "Order") }
ItemFields == Holds("Note") \cup {Plain("x"), Required("y"), Param("y", "query")}

Types3 == {"Order", "Item", "Note"}
Fields3(o, i, n) ==
  [t \in Types3 |-> CASE t = "Order" -> o [] t = "Item" -> i [] t = "Note" -> n]
Nameless(t) == [u \in Types3 |-> IF u = t THEN "" ELSE u]

\* Embedded types have names.
Legal(d) ==
  \A t \in {"Order", "Item"} : \A k \in DOMAIN d.fields[t] :
    d.fields[t][k].embedded => d.name[d.fields[t][k].of] # ""

Declared ==
  { d \in [ name : {[t \in Types3 |-> t], Nameless("Note")},
            fields : { Fields3(<<f, g>>, i, n) :
                         f \in OrderFields, g \in OrderFields,
                         i \in {<<h>> : h \in ItemFields} \cup {<<Embed("Note"), Plain("x")>>},
                         n \in {<<Required("x")>>, <<Plain("y")>>} } ] :
      Legal(d) }

Part(what, t) == [what |-> what, type |-> t]
Acyclic ==
  { p \in { [name |-> d.name, fields |-> d.fields, parts |-> <<first, Part("body", "Order")>>] :
             d \in Declared,
             first \in {Part("response", "Item"), Part("params", "Order"), Part("response", "Order")} } :
      Encodable(p) }

\* Embeddings that the generator and encoding/json see differently: by pointer,
\* with a tag that gives no name, and with the tag "-".
Differing ==
  { [Embed("Note") EXCEPT !.kind = "pointer"],
    [Embed("Note") EXCEPT !.tag = "unnamed"], [Embed("Note") EXCEPT !.tag = "dash"] }
SeenDifferently ==
  { [ name |-> [t \in Types3 |-> t],
      fields |-> Fields3(<<f>>, << >>, <<Plain("x")>>),
      parts |-> <<Part("response", "Order")>> ] : f \in Differing }

\* A tree: a Note and the Notes that answer it.
Tree ==
  { [ name |-> [t \in {"Order", "Note"} |-> t],
      fields |-> [t \in {"Order", "Note"} |-> <<Plain("x"), Bare("y", "structs", t)>>],
      parts |-> <<Part("response", "Note")>> ] }
===============================================================================
