----------------------------- MODULE GoJSON_proofs -----------------------------
(***************************************************************************)
(* Proofs about GoJSON: the definitions that Schema generates are what     *)
(* encoding/json makes of the types.  A call that has come to the k-th     *)
(* field of its type has the properties of the ways that start before it,  *)
(* each the value of a shallowest of those that share its name (Halfway);  *)
(* where it ends, these are the members of the object (CompleteIsEncoding).*)
(* Merging an embedded struct's properties lets the parent's win, which is *)
(* right because without rivals the earlier way to a name is no longer     *)
(* (EarlierIsShallower).  Deeper calls have followed shorter ways          *)
(* (Shallow), so that what the stack has room for is what Ways counts.     *)
(***************************************************************************)
EXTENDS GoJSON, Schema_proofs, SequenceTheorems

\* Ways of any length; those through the fields of t before the k-th.
AllWays(prog) == {w \in Seq(Places(prog)) : w # << >> /\ Leads(prog, w)}
Before(prog, t, k) == {w \in AllWays(prog) : w[1][1] = t /\ w[1][2] < k}
NameBy(prog, w) == GoName(Found(prog, w))
NamesBy(prog, W) == {NameBy(prog, w) : w \in W}
Demanded(prog, W) == {w \in W : Found(prog, w).required}
Shallowest(prog, W, w) == \A v \in W : NameBy(prog, v) = NameBy(prog, w) => Len(w) <= Len(v)

\* The schema of the property n among props, and what it must be for f.
Under(props, n) ==
  [q \in {Tail(p) : p \in {p \in DOMAIN props : p[1] = n}} |-> props[<<n>> \o q]]
IsValue(prog, json, sub, f, nested) ==
  IF InPlace(prog, f, nested)
  THEN << >> \in DOMAIN sub /\ Encodes(prog, json, sub, f.of, IsList(f), FALSE)
  ELSE sub = Leaf(IsList(f), IF IsObject(f) THEN {prog.name[f.of]} ELSE {})

\* What becomes of two sets of properties: mine win.
Beside(mine, theirs) == {p \in DOMAIN theirs : \A q \in DOMAIN mine : q[1] # p[1]}
Merged(mine, theirs) ==
  [p \in DOMAIN mine \cup Beside(mine, theirs) |->
     IF p \in Beside(mine, theirs) THEN theirs[p] ELSE mine[p]]

\* A call is halfway through a type: it has the properties of the ways through
\* the fields behind it, each the value of a shallowest field.
Halfway(prog, json, t, k, nested, props, required) ==
  /\ required = NamesBy(prog, Demanded(prog, Before(prog, t, k)))
  /\ \A w \in Before(prog, t, k) : <<NameBy(prog, w)>> \in DOMAIN props
  /\ \A p \in DOMAIN props : \E w \in Before(prog, t, k) :
       /\ NameBy(prog, w) = p[1] /\ Shallowest(prog, Before(prog, t, k), w)
       /\ IsValue(prog, json, Under(props, p[1]), Found(prog, w), nested)

\* The deeper the call, the shorter the ways it has followed.
Shallow(prog, t, k, i) == \A w \in Before(prog, t, k) : Len(w) + i <= MaxDepth + 1

\* A part's own call is for a type with a name.
Roots(prog, g) == g.nested /\ prog.name[g.type] # ""

\* What a call is for, given its caller's frame.
Asks(prog, c, g) ==
  LET f == prog.fields[c.type][c.field]
  IN  /\ g.type = f.of
      /\ g.use = "embedded" => Flattened(f) /\ g.nested = c.nested
      /\ g.use # "embedded" =>
           /\ Encoded(f) /\ IsObject(f)
           /\ g.nested = (g.use = "definition")
           /\ InPlace(prog, f, c.nested) = (g.use = "inline")

\* The i-th call of the stack s has done its work so far.
Right(prog, s, i) ==
  /\ i # 1 => (s[i].use \in SchemaUses <=> s[i - 1].use \in SchemaUses)
  /\ s[i].use \in SchemaUses =>
       /\ Halfway(prog, TypeFields(prog), s[i].type, s[i].field, s[i].nested, s[i].props,
                  s[i].required)
       /\ Shallow(prog, s[i].type, s[i].field, i)
       /\ IF i = 1 THEN Roots(prog, s[i]) ELSE Asks(prog, s[i - 1], s[i])

DefinesRight(prog, defs) ==
  /\ "" \notin DOMAIN defs
  /\ \A n \in DOMAIN defs : \A t \in Types :
       prog.name[t] = n => Encodes(prog, TypeFields(prog), defs[n], t, FALSE, TRUE)

Encoding ==
  /\ \A i \in 1..Len(stack) : Right(program, stack, i)
  /\ DefinesRight(program, definitions)

-------------------------------------------------------------------------------
(* Programs and their ways *)

LEMMA ProgIsTyped ==
  ASSUME NEW prog \in Programs, NEW t \in Types
  PROVE  /\ prog.fields[t] \in Seq(Fields) /\ Len(prog.fields[t]) \in Nat
         /\ DOMAIN prog.fields[t] = 1..Len(prog.fields[t])
         /\ prog.name[t] \in TypeNames
         /\ \A i \in 1..Len(prog.fields[t]) :
              prog.fields[t][i] \in Fields /\ prog.fields[t][i].of \in Types
<1>1. prog.fields \in [Types -> Seq(Fields)] /\ prog.name \in [Types -> TypeNames]
  BY SchemaAssumption
<1>2. prog.fields[t] \in Seq(Fields)
  BY <1>1
<1>3. \A i \in 1..Len(prog.fields[t]) : prog.fields[t][i] \in Fields
  BY <1>2
<1> QED
  BY <1>1, <1>2, <1>3 DEF Fields

LEMMA PlaceIs ==
  ASSUME NEW prog \in Programs
  PROVE  /\ \A t \in Types : \A i \in 1..Len(prog.fields[t]) : <<t, i>> \in Places(prog)
         /\ \A e \in Places(prog) :
              /\ e[1] \in Types /\ e[2] \in 1..Len(prog.fields[e[1]]) /\ e = <<e[1], e[2]>>
              /\ FieldAt(prog, e) \in Fields /\ FieldAt(prog, e).of \in Types
<1>1. \A t \in Types : DOMAIN prog.fields[t] = 1..Len(prog.fields[t])
  BY ProgIsTyped
<1>2. \A t \in Types : \A i \in 1..Len(prog.fields[t]) : <<t, i>> \in Places(prog)
  BY <1>1 DEF Places
<1>3. ASSUME NEW e \in Places(prog)
      PROVE  /\ e[1] \in Types /\ e[2] \in 1..Len(prog.fields[e[1]]) /\ e = <<e[1], e[2]>>
             /\ FieldAt(prog, e) \in Fields /\ FieldAt(prog, e).of \in Types
  <2>1. \E t \in Types : \E i \in 1..Len(prog.fields[t]) : e = <<t, i>>
    BY <1>1 DEF Places
  <2> QED
    BY <2>1, ProgIsTyped DEF FieldAt
<1> QED
  BY <1>2, <1>3

\* The last place of a way is that of the field it finds.
LEMMA WayIs ==
  ASSUME NEW prog \in Programs, NEW w \in AllWays(prog)
  PROVE  /\ w \in Seq(Places(prog)) /\ w # << >> /\ Len(w) \in Nat \ {0} /\ Leads(prog, w)
         /\ \A k \in 1..Len(w) : w[k] \in Places(prog)
         /\ w[1][1] \in Types /\ w[1][2] \in 1..Len(prog.fields[w[1][1]])
         /\ Found(prog, w) \in Fields /\ Shown(Found(prog, w))
<1>1. w \in Seq(Places(prog)) /\ w # << >> /\ Leads(prog, w)
  BY DEF AllWays
<1>2. Len(w) \in Nat \ {0} /\ \A k \in 1..Len(w) : w[k] \in Places(prog)
  BY <1>1
<1>3. w[1] \in Places(prog) /\ w[Len(w)] \in Places(prog)
  BY <1>2
<1> QED
  BY <1>1, <1>2, <1>3, PlaceIs DEF Leads, Found

\* TLC's ways are those that are short enough.
LEMMA WaysAreAllShort ==
  ASSUME NEW prog \in Programs
  PROVE  Ways(prog) = {w \in AllWays(prog) : Len(w) <= MaxDepth}
<1> DEFINE embedded == {e \in Places(prog) : Embeds(FieldAt(prog, e))}
<1>1. ASSUME NEW w \in Ways(prog) PROVE w \in AllWays(prog) /\ Len(w) <= MaxDepth
  <2>1. PICK k \in 0..MaxDepth - 1 : \E v \in [1..k -> embedded], e \in Places(prog) : w = Append(v, e)
    BY DEF Ways
  <2>2. PICK v \in [1..k -> embedded], e \in Places(prog) : w = Append(v, e)
    BY <2>1
  <2>3. Leads(prog, w)
    BY DEF Ways
  <2>4. k \in Nat /\ MaxDepth \in Nat
    BY SchemaAssumption
  <2>5. v \in Seq(Places(prog)) /\ Len(v) = k
    BY <2>4
  <2>6. w \in Seq(Places(prog)) /\ Len(w) = k + 1
    BY <2>2, <2>5
  <2> QED
    BY <2>3, <2>4, <2>6 DEF AllWays
<1>2. ASSUME NEW w \in AllWays(prog), Len(w) <= MaxDepth PROVE w \in Ways(prog)
  <2> DEFINE n == Len(w)
             v == [k \in 1..n - 1 |-> w[k]]
  <2>1. w \in Seq(Places(prog)) /\ n \in Nat \ {0} /\ Leads(prog, w)
        /\ \A k \in 1..n : w[k] \in Places(prog)
    BY WayIs
  <2>2. v \in [1..n - 1 -> embedded]
    BY <2>1 DEF Leads
  <2>3. n - 1 \in 0..MaxDepth - 1
    <3>1. n \in Nat \ {0} /\ n <= MaxDepth /\ MaxDepth \in Nat
      BY <1>2, <2>1, SchemaAssumption
    <3> HIDE DEF n, v
    <3> QED
      BY <3>1
  <2>4. v \in Seq(Places(prog)) /\ Len(v) = n - 1
    BY <2>1, <2>2
  <2>5. w[n] \in Places(prog)
    BY <2>1
  <2>6. Append(v, w[n]) \in Seq(Places(prog)) /\ Len(Append(v, w[n])) = n
        /\ \A i \in 1..n : Append(v, w[n])[i] = w[i]
    BY <2>1, <2>4, <2>5
  <2>7. w = Append(v, w[n])
    BY <2>1, <2>6, SeqEqual
  <2> HIDE DEF v, n
  <2>8. v \in UNION {[1..k -> embedded] : k \in 0..MaxDepth - 1}
    BY <2>2, <2>3
  <2> QED
    BY <2>1, <2>5, <2>7, <2>8 DEF Ways
<1>3. \A w \in Ways(prog) : w \in AllWays(prog)
  BY <1>1
<1> QED
  BY <1>1, <1>2

-------------------------------------------------------------------------------
(* The ways through one field more *)

LEMMA BeforeIs ==
  ASSUME NEW prog \in Programs, NEW t \in Types, NEW k \in Nat \ {0}
  PROVE  /\ Before(prog, t, 1) = {}
         /\ \A w \in AllWays(prog) :
              w \in Before(prog, t, k + 1) <=> w \in Before(prog, t, k) \/ w[1] = <<t, k>>
         /\ \A w \in Before(prog, t, k) :
              w \in AllWays(prog) /\ w[1][1] = t /\ w[1][2] < k /\ w \in Before(prog, t, k + 1)
         /\ \A w \in Before(prog, t, k + 1) : w \in AllWays(prog) /\ w[1][1] = t
<1>1. ASSUME NEW w \in AllWays(prog)
      PROVE  /\ w[1] = <<w[1][1], w[1][2]>> /\ w[1][2] \in Nat \ {0}
  <2>1. w[1] \in Places(prog) /\ w[1][1] \in Types
    BY WayIs
  <2>2. Len(prog.fields[w[1][1]]) \in Nat
    BY <2>1, ProgIsTyped
  <2> QED
    BY <2>1, <2>2, PlaceIs
<1>2. Before(prog, t, 1) = {}
  BY <1>1 DEF Before
<1>3. ASSUME NEW w \in AllWays(prog)
      PROVE  w \in Before(prog, t, k + 1) <=> w \in Before(prog, t, k) \/ w[1] = <<t, k>>
  <2> DEFINE j == w[1][2]
  <2>1. w[1] = <<w[1][1], j>> /\ j \in Nat
    BY <1>1
  <2>2. j < k + 1 <=> j < k \/ j = k
    <3> HIDE DEF j
    <3> QED BY <2>1
  <2> QED
    BY <2>1, <2>2 DEF Before
<1>4. \A w \in Before(prog, t, k) :
        w \in AllWays(prog) /\ w[1][1] = t /\ w[1][2] < k
  BY DEF Before
<1>5. \A w \in Before(prog, t, k + 1) : w \in AllWays(prog) /\ w[1][1] = t
  BY DEF Before
<1> QED
  BY <1>2, <1>3, <1>4, <1>5

\* After the last field, all ways from the type have been followed.
LEMMA BeforeTheEnd ==
  ASSUME NEW prog \in Programs, NEW t \in Types, NEW k \in Nat, k > Len(prog.fields[t])
  PROVE  Before(prog, t, k) = {w \in AllWays(prog) : w[1][1] = t}
<1>1. ASSUME NEW w \in AllWays(prog), w[1][1] = t PROVE w[1][2] < k
  <2>1. w[1][2] \in 1..Len(prog.fields[t]) /\ Len(prog.fields[t]) \in Nat
    BY <1>1, WayIs, ProgIsTyped
  <2> QED
    BY <2>1
<1> QED
  BY <1>1 DEF Before

\* A field that is encoded is found on the spot, one that is skipped never.
LEMMA ThroughPlain ==
  ASSUME NEW prog \in Programs, NEW t \in Types, NEW k \in 1..Len(prog.fields[t]),
         ~Embeds(prog.fields[t][k])
  PROVE  /\ Shown(prog.fields[t][k]) =>
              << <<t, k>> >> \in AllWays(prog) /\ Found(prog, << <<t, k>> >>) = prog.fields[t][k]
         /\ \A w \in AllWays(prog) :
              w[1] = <<t, k>> => w = << <<t, k>> >> /\ Shown(prog.fields[t][k])
<1> DEFINE e == <<t, k>>
<1>1. e \in Places(prog) /\ FieldAt(prog, e) = prog.fields[t][k]
  BY PlaceIs DEF FieldAt
<1>2. <<e>> \in Seq(Places(prog)) /\ Len(<<e>>) = 1 /\ <<e>>[1] = e /\ <<e>> # << >>
  BY <1>1
<1>3. Shown(prog.fields[t][k]) =>
        <<e>> \in AllWays(prog) /\ Found(prog, <<e>>) = prog.fields[t][k]
  <2> HIDE DEF e
  <2> QED
    BY <1>1, <1>2 DEF AllWays, Leads, Found
<1>4. ASSUME NEW w \in AllWays(prog), w[1] = e
      PROVE  w = <<e>> /\ Shown(prog.fields[t][k])
  <2> HIDE DEF e
  <2> DEFINE n == Len(w)
  <2>1. w \in Seq(Places(prog)) /\ n \in Nat \ {0} /\ Leads(prog, w)
    BY WayIs
  <2>2. ~(1 \in 1..n - 1)
    BY <1>1, <1>4, <2>1 DEF Leads
  <2>3. n = 1
    <3> HIDE DEF n
    <3> QED BY <2>1, <2>2
  <2>4. w = <<e>>
    BY <1>2, <1>4, <2>1, <2>3, SeqEqual
  <2> QED
    BY <1>1, <1>4, <2>1, <2>3, <2>4 DEF Leads
<1> QED
  BY <1>3, <1>4

\* The ways through an embedded struct are those from its type, one longer.
LEMMA ThroughEmbedded ==
  ASSUME NEW prog \in Programs, NEW t \in Types, NEW k \in 1..Len(prog.fields[t]),
         Embeds(prog.fields[t][k])
  PROVE  LET of == prog.fields[t][k].of
         IN  /\ \A v \in AllWays(prog) : v[1][1] = of =>
                  \E w \in AllWays(prog) : /\ w[1] = <<t, k>> /\ Len(w) = Len(v) + 1
                                           /\ Found(prog, w) = Found(prog, v)
             /\ \A w \in AllWays(prog) : w[1] = <<t, k>> =>
                  \E v \in AllWays(prog) : /\ v[1][1] = of /\ Len(w) = Len(v) + 1
                                           /\ Found(prog, w) = Found(prog, v)
<1> DEFINE e == <<t, k>>
           of == prog.fields[t][k].of
<1>1. e \in Places(prog) /\ FieldAt(prog, e) = prog.fields[t][k]
  BY PlaceIs DEF FieldAt
<1>2. FieldAt(prog, e).of = of /\ Embeds(FieldAt(prog, e)) /\ ~Shown(FieldAt(prog, e))
  BY <1>1 DEF Embeds, Shown
<1> HIDE DEF e, of
<1>3. ASSUME NEW v \in AllWays(prog), v[1][1] = of
      PROVE  \E w \in AllWays(prog) : /\ w[1] = e /\ Len(w) = Len(v) + 1
                                      /\ Found(prog, w) = Found(prog, v)
  <2> DEFINE n == Len(v)
             w == <<e>> \o v
  <2>1. v \in Seq(Places(prog)) /\ n \in Nat \ {0} /\ Leads(prog, v)
    BY WayIs
  <2>2. /\ w \in Seq(Places(prog)) /\ Len(w) = n + 1 /\ w[1] = e
        /\ \A j \in 2..n + 1 : w[j] = v[j - 1]
    BY <1>1, <2>1
  <2>3. w[n + 1] = v[n]
    BY <2>1, <2>2
  <2> HIDE DEF w
  <2>4. ASSUME NEW j \in 1..n
        PROVE  Embeds(FieldAt(prog, w[j])) /\ FieldAt(prog, w[j]).of = w[j + 1][1]
    <3>1. n \in Nat \ {0} /\ (j = 1 \/ j \in 2..n)
      BY <2>1
    <3>2. CASE j = 1
      <4>1. w[2] = v[1]
        BY <2>2, <3>1
      <4> QED
        BY <1>2, <1>3, <2>2, <3>2, <4>1
    <3>3. CASE j \in 2..n
      <4> HIDE DEF n
      <4>1. j - 1 \in 1..n - 1 /\ j \in 2..n + 1 /\ j + 1 \in 2..n + 1 /\ j + 1 - 1 = j - 1 + 1
        BY <3>1, <3>3
      <4>2. w[j] = v[j - 1] /\ w[j + 1] = v[j - 1 + 1]
        BY <2>2, <4>1
      <4>3. Embeds(FieldAt(prog, v[j - 1])) /\ FieldAt(prog, v[j - 1]).of = v[j - 1 + 1][1]
        BY <2>1, <4>1 DEF Leads, n
      <4> QED
        BY <4>2, <4>3
    <3> QED
      BY <3>1, <3>2, <3>3
  <2>5. Len(w) - 1 = n /\ w # << >>
    BY <2>1, <2>2
  <2>6. Leads(prog, w)
    BY <2>1, <2>2, <2>3, <2>4, <2>5 DEF Leads
  <2>7. w \in AllWays(prog) /\ Found(prog, w) = Found(prog, v)
    BY <2>2, <2>3, <2>5, <2>6 DEF AllWays, Found
  <2> QED
    BY <2>2, <2>7
<1>4. ASSUME NEW w \in AllWays(prog), w[1] = e
      PROVE  \E v \in AllWays(prog) : /\ v[1][1] = of /\ Len(w) = Len(v) + 1
                                      /\ Found(prog, w) = Found(prog, v)
  <2> DEFINE n == Len(w)
             v == Tail(w)
  <2>1. w \in Seq(Places(prog)) /\ n \in Nat \ {0} /\ Leads(prog, w) /\ w # << >>
    BY WayIs
  <2>2. n # 1
    BY <1>2, <1>4, <2>1 DEF Leads
  <2>3. /\ v \in Seq(Places(prog)) /\ Len(v) = n - 1
        /\ \A j \in 1..n - 1 : v[j] = w[j + 1]
    BY <2>1
  <2> HIDE DEF v
  <2>4. n - 1 \in Nat \ {0} /\ n - 1 + 1 = n /\ 1 \in 1..n - 1 /\ n - 1 \in 1..n - 1
    <3> HIDE DEF n
    <3> QED BY <2>1, <2>2
  <2>5. v # << >>
    BY <2>3, <2>4
  <2>6. v[1] = w[2] /\ v[n - 1] = w[n]
    <3>1. \A j \in 1..n - 1 : v[j] = w[j + 1]
      BY <2>3
    <3> HIDE DEF n
    <3>2. v[1] = w[1 + 1] /\ v[n - 1] = w[n - 1 + 1]
      BY <2>4, <3>1
    <3> QED
      BY <2>4, <3>2
  <2>7. v[1][1] = of
    BY <1>2, <1>4, <2>1, <2>4, <2>6 DEF Leads
  <2>8. ASSUME NEW j \in 1..n - 1 - 1
        PROVE  Embeds(FieldAt(prog, v[j])) /\ FieldAt(prog, v[j]).of = v[j + 1][1]
    <3>1. j \in 1..n - 1 /\ j + 1 \in 1..n - 1
      <4> HIDE DEF n
      <4> QED BY <2>4
    <3> QED
      BY <2>1, <2>3, <3>1 DEF Leads
  <2>9. Leads(prog, v)
    BY <2>1, <2>3, <2>6, <2>8 DEF Leads
  <2>10. v \in AllWays(prog) /\ Found(prog, w) = Found(prog, v)
    BY <2>3, <2>6, <2>9, <2>5 DEF AllWays, Found
  <2>11. Len(w) = Len(v) + 1
    BY <2>3, <2>4
  <2> QED
    BY <2>7, <2>10, <2>11
<1> QED
  BY <1>3, <1>4 DEF e, of

-------------------------------------------------------------------------------
(* A schema under one of its properties *)

LEMMA HeadAndTail ==
  ASSUME NEW S, NEW p \in Seq(S), p # << >>
  PROVE  /\ p[1] \in S /\ Tail(p) \in Seq(S) /\ p = <<p[1]>> \o Tail(p)
         /\ Len(p) \in Nat \ {0} /\ Len(Tail(p)) = Len(p) - 1
         /\ \A i \in 1..Len(p) - 1 : Tail(p)[i] = p[i + 1]
<1> DEFINE q == <<p[1]>> \o Tail(p)
<1>1. /\ p[1] \in S /\ Tail(p) \in Seq(S) /\ Len(p) \in Nat \ {0} /\ Len(Tail(p)) = Len(p) - 1
      /\ \A i \in 1..Len(p) - 1 : Tail(p)[i] = p[i + 1]
  OBVIOUS
<1>2. q \in Seq(S) /\ Len(q) = Len(p) /\ \A i \in 1..Len(p) : q[i] = p[i]
  BY <1>1
<1>3. p = q
  BY <1>2, SeqEqual
<1> QED
  BY <1>1, <1>3

LEMMA UnderIs ==
  ASSUME NEW props \in Schemas, << >> \notin DOMAIN props
  PROVE  /\ \A p \in DOMAIN props :
              /\ p \in Seq(Names) /\ p[1] \in Names /\ p = <<p[1]>> \o Tail(p)
              /\ Tail(p) \in DOMAIN Under(props, p[1])
              /\ Under(props, p[1])[Tail(p)] = props[p]
         /\ \A n : \A q \in DOMAIN Under(props, n) :
              /\ q \in Seq(Names) /\ <<n>> \o q \in DOMAIN props /\ n \in Names
              /\ Under(props, n)[q] = props[<<n>> \o q]
<1>1. \A p \in DOMAIN props :
        p \in Seq(Names) /\ p[1] \in Names /\ Tail(p) \in Seq(Names) /\ p = <<p[1]>> \o Tail(p)
  BY SchemaHasType, HeadAndTail
<1>2. ASSUME NEW p \in DOMAIN props
      PROVE  /\ Tail(p) \in DOMAIN Under(props, p[1])
             /\ Under(props, p[1])[Tail(p)] = props[p]
  BY <1>1 DEF Under
<1>3. ASSUME NEW n, NEW q \in DOMAIN Under(props, n)
      PROVE  /\ q \in Seq(Names) /\ <<n>> \o q \in DOMAIN props /\ n \in Names
             /\ Under(props, n)[q] = props[<<n>> \o q]
  <2>1. \E p \in DOMAIN props : p[1] = n /\ q = Tail(p)
    BY DEF Under
  <2> QED
    BY <1>1, <2>1 DEF Under
<1> QED
  BY <1>1, <1>2, <1>3

LEMMA UnderSame ==
  ASSUME NEW props \in Schemas, NEW other \in Schemas, NEW n,
         << >> \notin DOMAIN props, << >> \notin DOMAIN other,
         \A p \in DOMAIN props : p[1] = n => p \in DOMAIN other /\ other[p] = props[p],
         \A p \in DOMAIN other : p[1] = n => p \in DOMAIN props
  PROVE  Under(props, n) = Under(other, n)
<1> DEFINE P == {p \in DOMAIN props : p[1] = n}
           D == {Tail(p) : p \in P}
<1>1. P = {p \in DOMAIN other : p[1] = n}
  OBVIOUS
<1>2. ASSUME NEW q \in D PROVE <<n>> \o q \in P
  <2>1. PICK p \in P : q = Tail(p)
    OBVIOUS
  <2>2. p = <<p[1]>> \o Tail(p) /\ p[1] = n
    BY UnderIs
  <2> QED
    BY <2>1, <2>2
<1>3. \A q \in D : props[<<n>> \o q] = other[<<n>> \o q]
  BY <1>2
<1>4. Under(props, n) = [q \in D |-> props[<<n>> \o q]]
  BY DEF Under
<1>5. Under(other, n) = [q \in D |-> other[<<n>> \o q]]
  BY <1>1 DEF Under
<1> HIDE DEF D, P
<1> QED
  BY <1>3, <1>4, <1>5

\* The property n is what it has been set to, and no other is touched.
LEMMA SetPropIs ==
  ASSUME NEW f \in Frames, << >> \notin DOMAIN f.props,
         NEW n \in Names, NEW sub \in Schemas, NEW required \in BOOLEAN,
         NEW g, g = SetProp(f, n, sub, required)
  PROVE  /\ required => g.required = f.required \cup {n}
         /\ ~required => g.required = f.required
         /\ Under(g.props, n) = sub
         /\ \A m \in Names \ {n} : Under(g.props, m) = Under(f.props, m)
         /\ \A p \in DOMAIN g.props : p[1] = n \/ p \in DOMAIN f.props
         /\ \A p \in DOMAIN f.props : p[1] # n => p \in DOMAIN g.props
         /\ << >> \in DOMAIN sub => <<n>> \in DOMAIN g.props
<1> DEFINE old == {p \in DOMAIN f.props : p[1] # n}
           new == {<<n>> \o q : q \in DOMAIN sub}
           props == [p \in old \cup new |-> IF p[1] = n THEN sub[Tail(p)] ELSE f.props[p]]
<1>1. /\ DOMAIN f = {"type", "field", "use", "nested", "props", "required"}
      /\ f.props \in Schemas
  BY DEF Frames
<1>2. g.props = props /\ g.required = IF required THEN f.required \cup {n} ELSE f.required
  BY <1>1 DEF SetProp
<1>3. g \in Frames /\ << >> \notin DOMAIN g.props
  BY SetPropIsFrame
<1>4. g.props \in Schemas
  BY <1>3, FrameHasType
<1>5. /\ DOMAIN f.props \subseteq Seq(Names)
      /\ DOMAIN sub \subseteq Seq(Names) /\ sub = [q \in DOMAIN sub |-> sub[q]]
  BY <1>1, SchemaHasType
<1>6. \A q \in DOMAIN sub : /\ (<<n>> \o q)[1] = n /\ Tail(<<n>> \o q) = q
                            /\ <<n>> \o q \in new
  BY <1>5
<1>7. \A p \in new : p[1] = n /\ Tail(p) \in DOMAIN sub
  BY <1>6
<1>8. DOMAIN props = old \cup new
  OBVIOUS
<1>9. Under(g.props, n) = sub
  <2> DEFINE D == {Tail(p) : p \in {p \in DOMAIN props : p[1] = n}}
  <2>1. {p \in DOMAIN props : p[1] = n} = new
    BY <1>7
  <2>2. D = DOMAIN sub
    <3>1. D = {Tail(p) : p \in new}
      <4> HIDE DEF new, props
      <4> QED BY <2>1
    <3>2. \A q \in DOMAIN sub : <<n>> \o q \in new /\ q = Tail(<<n>> \o q)
      BY <1>6
    <3>3. \A q \in DOMAIN sub : q \in {Tail(p) : p \in new}
      <4> HIDE DEF new
      <4> QED BY <3>2
    <3>4. \A p \in new : Tail(p) \in DOMAIN sub
      BY <1>7
    <3> HIDE DEF new, D
    <3> QED BY <3>1, <3>3, <3>4
  <2>3. ASSUME NEW q \in DOMAIN sub PROVE props[<<n>> \o q] = sub[q]
    <3> DEFINE p == <<n>> \o q
    <3>1. p \in new /\ p[1] = n /\ Tail(p) = q
      BY <1>6
    <3> HIDE DEF p, new, old
    <3>2. props[p] = sub[q]
      BY <3>1
    <3> QED
      BY <3>2 DEF p
  <2>4. Under(props, n) = [q \in D |-> props[<<n>> \o q]]
    BY DEF Under
  <2>5. Under(props, n) = [q \in DOMAIN sub |-> props[<<n>> \o q]]
    <3> HIDE DEF D
    <3> QED BY <2>2, <2>4
  <2>6. [q \in DOMAIN sub |-> props[<<n>> \o q]] = [q \in DOMAIN sub |-> sub[q]]
    BY <2>3
  <2> HIDE DEF props
  <2> QED
    BY <1>2, <1>5, <2>5, <2>6
<1>10. ASSUME NEW m \in Names \ {n} PROVE Under(g.props, m) = Under(f.props, m)
  <2>1. \A p \in DOMAIN props : p[1] = m => p \in DOMAIN f.props /\ f.props[p] = props[p]
    BY <1>7, <1>10
  <2>2. \A p \in DOMAIN f.props : p[1] = m => p \in DOMAIN props
    BY <1>10
  <2> HIDE DEF props
  <2> QED
    BY <1>1, <1>2, <1>3, <1>4, <2>1, <2>2, UnderSame
<1>11. \A p \in DOMAIN props : p[1] = n \/ p \in DOMAIN f.props
  BY <1>7
<1>12. \A p \in DOMAIN f.props : p[1] # n => p \in DOMAIN props
  OBVIOUS
<1>13. << >> \in DOMAIN sub => <<n>> \in DOMAIN props
  <2>1. <<n>> \o << >> = <<n>>
    OBVIOUS
  <2> QED
    BY <1>6, <2>1
<1> HIDE DEF props
<1> QED
  BY <1>2, <1>9, <1>10, <1>11, <1>12, <1>13

\* Promoted properties come in only where there is none of the name.
LEMMA MergeIs ==
  ASSUME NEW mine \in Schemas, << >> \notin DOMAIN mine,
         NEW theirs \in Schemas, << >> \notin DOMAIN theirs
  PROVE  LET props == Merged(mine, theirs)
         IN  /\ props \in Schemas /\ << >> \notin DOMAIN props
             /\ DOMAIN props = DOMAIN mine \cup Beside(mine, theirs)
             /\ \A q \in DOMAIN mine : Under(props, q[1]) = Under(mine, q[1])
             /\ \A p \in Beside(mine, theirs) : Under(props, p[1]) = Under(theirs, p[1])
<1> DEFINE new == {p \in DOMAIN theirs : \A q \in DOMAIN mine : q[1] # p[1]}
           D == DOMAIN mine \cup new
           props == [p \in D |-> IF p \in new THEN theirs[p] ELSE mine[p]]
<1>1. new = Beside(mine, theirs) /\ props = Merged(mine, theirs)
  BY DEF Beside, Merged
<1>2. /\ DOMAIN mine \subseteq Seq(Names) /\ mine \in [DOMAIN mine -> Nodes]
      /\ DOMAIN theirs \subseteq Seq(Names) /\ theirs \in [DOMAIN theirs -> Nodes]
  BY SchemaHasType
<1>3. D \in SUBSET Seq(Names) /\ << >> \notin D /\ props \in [D -> Nodes] /\ DOMAIN props = D
  BY <1>2
<1>4. props \in Schemas /\ << >> \notin DOMAIN props
  BY <1>3, SchemaIsTyped
<1>5. \A q \in DOMAIN mine : \A p \in DOMAIN props :
        p[1] = q[1] => p \in DOMAIN mine /\ mine[p] = props[p]
  OBVIOUS
<1>6. \A q \in DOMAIN mine : Under(props, q[1]) = Under(mine, q[1])
  <2>1. \A p \in DOMAIN mine : p \in DOMAIN props
    BY <1>3
  <2> HIDE DEF props
  <2> QED
    BY <1>4, <1>5, <2>1, UnderSame
<1>7. ASSUME NEW q \in new, NEW p \in DOMAIN props, p[1] = q[1]
      PROVE  p \in DOMAIN theirs /\ theirs[p] = props[p]
  <2>1. p \in new
    BY <1>3, <1>7
  <2> QED
    BY <2>1
<1>8. \A q \in new : \A p \in DOMAIN theirs : p[1] = q[1] => p \in DOMAIN props
  BY <1>3
<1>9. \A q \in new : Under(props, q[1]) = Under(theirs, q[1])
  <2> HIDE DEF props, new
  <2> QED
    BY <1>4, <1>7, <1>8, UnderSame
<1>10. DOMAIN props = DOMAIN mine \cup new
  BY <1>3
<1> HIDE DEF props, new
<1> QED
  BY <1>4, <1>6, <1>9, <1>1, <1>10

-------------------------------------------------------------------------------
(* From one field to the next *)

LEMMA ShownIsNamed ==
  ASSUME NEW f \in Fields, Shown(f) PROVE GoName(f) \in Names /\ f.required \in BOOLEAN
BY DEF Fields, Shown, GoName

LEMMA NewIsHalfway ==
  ASSUME NEW prog \in Programs, NEW json, NEW t \in Types, NEW nested
  PROVE  Halfway(prog, json, t, 1, nested, Nothing, {})
<1>1. Before(prog, t, 1) = {}
  BY BeforeIs
<1>2. DOMAIN Nothing = {}
  BY DEF Nothing
<1>3. NamesBy(prog, Demanded(prog, {})) = {}
  BY DEF NamesBy, Demanded
<1> QED
  BY <1>1, <1>2, <1>3 DEF Halfway

LEMMA SkipsNothing ==
  ASSUME NEW prog \in Programs, NEW t \in Types, NEW k \in 1..Len(prog.fields[t]),
         ~Embeds(prog.fields[t][k]), ~Shown(prog.fields[t][k])
  PROVE  Before(prog, t, k + 1) = Before(prog, t, k)
<1>1. k \in Nat \ {0}
  BY ProgIsTyped
<1>2. \A w \in AllWays(prog) : w[1] # <<t, k>>
  BY ThroughPlain
<1>3. \A w \in AllWays(prog) : w \in Before(prog, t, k + 1) <=> w \in Before(prog, t, k)
  BY <1>1, <1>2, BeforeIs
<1>4. Before(prog, t, k + 1) \subseteq AllWays(prog) /\ Before(prog, t, k) \subseteq AllWays(prog)
  BY DEF Before
<1> QED
  BY <1>3, <1>4

\* A field that is encoded is the shallowest of its name.
LEMMA PutIsHalfway ==
  ASSUME NEW prog \in Programs, NEW json, NEW t \in Types, NEW k \in 1..Len(prog.fields[t]),
         ~Embeds(prog.fields[t][k]), Shown(prog.fields[t][k]), NEW nested,
         NEW g \in Frames, << >> \notin DOMAIN g.props,
         Halfway(prog, json, t, k, nested, g.props, g.required),
         NEW sub \in Schemas, << >> \in DOMAIN sub,
         IsValue(prog, json, sub, prog.fields[t][k], nested)
  PROVE  LET f == prog.fields[t][k]
             h == SetProp(g, GoName(f), sub, f.required)
         IN  Halfway(prog, json, t, k + 1, nested, h.props, h.required)
<1> DEFINE f == prog.fields[t][k]
           n == GoName(f)
           h == SetProp(g, n, sub, f.required)
           w0 == << <<t, k>> >>
           B == Before(prog, t, k)
           C == Before(prog, t, k + 1)
<1>1. k \in Nat \ {0} /\ f \in Fields
  BY ProgIsTyped
<1>2. n \in Names /\ f.required \in BOOLEAN
  BY <1>1, ShownIsNamed
<1>3. /\ w0 \in AllWays(prog) /\ Found(prog, w0) = f /\ NameBy(prog, w0) = n
      /\ \A w \in AllWays(prog) : w[1] = <<t, k>> => w = w0
      /\ w0[1] = <<t, k>> /\ Len(w0) = 1
  BY ThroughPlain DEF NameBy
<1>4. /\ f.required => h.required = g.required \cup {n}
      /\ ~f.required => h.required = g.required
      /\ Under(h.props, n) = sub
      /\ \A m \in Names \ {n} : Under(h.props, m) = Under(g.props, m)
      /\ \A p \in DOMAIN h.props : p[1] = n \/ p \in DOMAIN g.props
      /\ \A p \in DOMAIN g.props : p[1] # n => p \in DOMAIN h.props
      /\ <<n>> \in DOMAIN h.props
  <2> HIDE DEF f, n, h
  <2>1. h = SetProp(g, n, sub, f.required)
    BY DEF h
  <2> QED
    BY <1>2, <2>1, SetPropIs
<1>5. C = B \cup {w0}
  <2>1. \A w \in AllWays(prog) : w \in C <=> w \in B \/ w = w0
    BY <1>1, <1>3, BeforeIs
  <2>2. C \subseteq AllWays(prog) /\ B \subseteq AllWays(prog)
    BY <1>1, BeforeIs
  <2> QED
    BY <1>3, <2>1, <2>2
<1>6. \A w \in C : Len(w) \in Nat \ {0}
  BY <1>1, BeforeIs, WayIs
<1> HIDE DEF f, n, h, w0, B, C
<1>7. h.required = NamesBy(prog, Demanded(prog, C))
  <2>1. g.required = NamesBy(prog, Demanded(prog, B))
    BY DEF Halfway, B
  <2>2. Demanded(prog, C) = IF f.required THEN Demanded(prog, B) \cup {w0} ELSE Demanded(prog, B)
    BY <1>3, <1>5 DEF Demanded
  <2> QED
    BY <1>3, <1>4, <2>1, <2>2 DEF NamesBy
<1>8. ASSUME NEW w \in C PROVE <<NameBy(prog, w)>> \in DOMAIN h.props
  <2>1. CASE NameBy(prog, w) = n
    BY <1>4, <2>1
  <2>2. CASE NameBy(prog, w) # n
    <3>1. w \in B
      BY <1>3, <1>5, <2>2
    <3>2. <<NameBy(prog, w)>> \in DOMAIN g.props
      BY <3>1 DEF Halfway, B
    <3> QED
      BY <1>4, <2>2, <3>2
  <2> QED
    BY <2>1, <2>2
<1>9. ASSUME NEW p \in DOMAIN h.props
      PROVE  \E w \in C : /\ NameBy(prog, w) = p[1] /\ Shallowest(prog, C, w)
                          /\ IsValue(prog, json, Under(h.props, p[1]), Found(prog, w), nested)
  <2>1. CASE p[1] = n
    <3>1. Shallowest(prog, C, w0)
      BY <1>3, <1>6 DEF Shallowest
    <3>2. IsValue(prog, json, Under(h.props, p[1]), Found(prog, w0), nested)
      BY <1>3, <1>4, <2>1 DEF f
    <3> QED
      BY <1>3, <1>5, <2>1, <3>1, <3>2
  <2>2. CASE p[1] # n
    <3>1. p \in DOMAIN g.props /\ g.props \in Schemas
      BY <1>4, <2>2, FrameHasType
    <3>2. p \in DOMAIN g.props /\ Under(h.props, p[1]) = Under(g.props, p[1])
      BY <1>4, <2>2, <3>1, UnderIs
    <3>3. PICK w \in B : /\ NameBy(prog, w) = p[1] /\ Shallowest(prog, B, w)
                         /\ IsValue(prog, json, Under(g.props, p[1]), Found(prog, w), nested)
      BY <3>2 DEF Halfway, B
    <3>4. Shallowest(prog, C, w)
      BY <1>3, <1>5, <2>2, <3>3 DEF Shallowest
    <3> QED
      BY <1>5, <3>2, <3>3, <3>4
  <2> QED
    BY <2>1, <2>2
<1>10. Halfway(prog, json, t, k + 1, nested, h.props, h.required)
  BY <1>7, <1>8, <1>9 DEF Halfway, C
<1> QED
  BY <1>10 DEF h, n, f

\* Ways stay short enough for the stack.
LEMMA StaysShallow ==
  ASSUME NEW prog \in Programs, NEW t \in Types, NEW k \in 1..Len(prog.fields[t]),
         ~Embeds(prog.fields[t][k]), NEW i \in Nat, i <= MaxDepth, Shallow(prog, t, k, i)
  PROVE  Shallow(prog, t, k + 1, i)
<1> SUFFICES ASSUME NEW w \in Before(prog, t, k + 1) PROVE Len(w) + i <= MaxDepth + 1
  BY DEF Shallow
<1>1. k \in Nat \ {0} /\ MaxDepth \in Nat
  BY ProgIsTyped, SchemaAssumption
<1>2. w \in AllWays(prog)
  BY <1>1, BeforeIs
<1>3. CASE w \in Before(prog, t, k)
  BY <1>3 DEF Shallow
<1>4. CASE w[1] = <<t, k>>
  <2>1. w = << <<t, k>> >>
    BY <1>2, <1>4, ThroughPlain
  <2>2. Len(w) = 1
    BY <2>1
  <2> QED
    BY <1>1, <2>2
<1> QED
  BY <1>1, <1>2, <1>3, <1>4, BeforeIs

LEMMA StaysShallowBehindEmbedded ==
  ASSUME NEW prog \in Programs, NEW t \in Types, NEW k \in 1..Len(prog.fields[t]),
         Embeds(prog.fields[t][k]), NEW i \in Nat, Shallow(prog, t, k, i),
         NEW j \in Nat, j > Len(prog.fields[prog.fields[t][k].of]),
         Shallow(prog, prog.fields[t][k].of, j, i + 1)
  PROVE  Shallow(prog, t, k + 1, i)
<1> DEFINE of == prog.fields[t][k].of
<1> SUFFICES ASSUME NEW w \in Before(prog, t, k + 1) PROVE Len(w) + i <= MaxDepth + 1
  BY DEF Shallow
<1>1. k \in Nat \ {0} /\ MaxDepth \in Nat /\ of \in Types
  BY ProgIsTyped, SchemaAssumption
<1>2. w \in AllWays(prog)
  BY <1>1, BeforeIs
<1>3. CASE w \in Before(prog, t, k)
  BY <1>3 DEF Shallow
<1>4. CASE w[1] = <<t, k>>
  <2>1. PICK v \in AllWays(prog) : v[1][1] = of /\ Len(w) = Len(v) + 1
    BY <1>2, <1>4, ThroughEmbedded
  <2>2. v \in Before(prog, of, j)
    BY <1>1, <2>1, BeforeTheEnd
  <2>3. Len(v) + (i + 1) <= MaxDepth + 1 /\ Len(v) \in Nat
    BY <2>2, WayIs DEF Shallow
  <2> QED
    BY <1>1, <2>1, <2>3
<1> QED
  BY <1>1, <1>2, <1>3, <1>4, BeforeIs

\* What is behind an embedded field was found before what it promotes, and no
\* deeper: otherwise they would be rivals.
LEMMA EarlierIsShallower ==
  ASSUME NEW prog \in Programs, NoRivals(prog), NEW t \in Types,
         NEW k \in 1..Len(prog.fields[t]), Embeds(prog.fields[t][k]),
         NEW i \in Nat \ {0}, Shallow(prog, t, k + 1, i),
         NEW a \in Before(prog, t, k), NEW w \in Before(prog, t, k + 1), w[1] = <<t, k>>,
         NameBy(prog, a) = NameBy(prog, w)
  PROVE  Len(a) <= Len(w)
<1>1. k \in Nat \ {0} /\ MaxDepth \in Nat
  BY ProgIsTyped, SchemaAssumption
<1>2. /\ a \in AllWays(prog) /\ a[1][1] = t /\ a[1][2] < k /\ a \in Before(prog, t, k + 1)
      /\ w \in AllWays(prog) /\ w[1][1] = t
  BY <1>1, BeforeIs
<1>3. Len(a) \in Nat \ {0} /\ Len(w) \in Nat \ {0}
  BY <1>2, WayIs
<1>4. Len(a) <= MaxDepth /\ Len(w) <= MaxDepth
  <2>1. Len(a) + i <= MaxDepth + 1 /\ Len(w) + i <= MaxDepth + 1
    BY <1>2 DEF Shallow
  <2> QED
    BY <1>1, <1>3, <2>1
<1>5. a \in Ways(prog) /\ w \in Ways(prog)
  BY <1>2, <1>4, WaysAreAllShort
<1>6. Len(w) > 1
  <2>1. PICK v \in AllWays(prog) : Len(w) = Len(v) + 1
    BY <1>2, ThroughEmbedded
  <2> QED
    BY <2>1, WayIs
<1>7. a[1] # w[1]
  BY <1>1, <1>2
<1>8. SUFFICES ASSUME Len(w) <= Len(a) PROVE FALSE
  BY <1>3
<1>9. Rivals(prog, w, a)
  BY <1>2 DEF Rivals, NameBy
<1>10. w = a \/ \A j \in 1..Len(w) - 1 : w[j] = a[j]
  BY <1>5, <1>8, <1>9 DEF NoRivals
<1>11. 1 \in 1..Len(w) - 1
  BY <1>3, <1>6
<1> QED
  BY <1>7, <1>10, <1>11

LEMMA MergeIsHalfway ==
  ASSUME NEW prog \in Programs, NoRivals(prog), NEW json, NEW t \in Types,
         NEW k \in 1..Len(prog.fields[t]), Embeds(prog.fields[t][k]), NEW nested,
         NEW mine \in Schemas, << >> \notin DOMAIN mine, NEW required,
         Halfway(prog, json, t, k, nested, mine, required),
         NEW theirs \in Schemas, << >> \notin DOMAIN theirs, NEW needed,
         NEW j \in Nat, j > Len(prog.fields[prog.fields[t][k].of]),
         Halfway(prog, json, prog.fields[t][k].of, j, nested, theirs, needed),
         NEW i \in Nat \ {0}, Shallow(prog, t, k + 1, i)
  PROVE  Halfway(prog, json, t, k + 1, nested, Merged(mine, theirs), required \cup needed)
<1> DEFINE new == Beside(mine, theirs)
           props == Merged(mine, theirs)
           of == prog.fields[t][k].of
           A == Before(prog, t, k)
           B == Before(prog, of, j)
           C == Before(prog, t, k + 1)
<1>1. k \in Nat \ {0} /\ of \in Types
  BY ProgIsTyped
<1>2. /\ DOMAIN props = DOMAIN mine \cup new
      /\ \A q \in DOMAIN mine : Under(props, q[1]) = Under(mine, q[1])
      /\ \A p \in new : Under(props, p[1]) = Under(theirs, p[1])
  BY MergeIs
<1>3. B = {v \in AllWays(prog) : v[1][1] = of}
  BY <1>1, BeforeTheEnd
<1>4. /\ \A v \in AllWays(prog) : v[1][1] = of =>
           \E w \in AllWays(prog) : /\ w[1] = <<t, k>> /\ Len(w) = Len(v) + 1
                                    /\ Found(prog, w) = Found(prog, v)
      /\ \A w \in AllWays(prog) : w[1] = <<t, k>> =>
           \E v \in AllWays(prog) : /\ v[1][1] = of /\ Len(w) = Len(v) + 1
                                    /\ Found(prog, w) = Found(prog, v)
  <2> HIDE DEF new, props, A, B, C
  <2> QED
    BY ThroughEmbedded
<1>5. \A a \in A : a \in C
  BY <1>1, BeforeIs
<1>6. ASSUME NEW v \in B
      PROVE  \E w \in C : w[1] = <<t, k>> /\ Len(w) = Len(v) + 1 /\ Found(prog, w) = Found(prog, v)
  <2>1. v \in AllWays(prog) /\ v[1][1] = of
    BY <1>3
  <2>2. PICK w \in AllWays(prog) :
        w[1] = <<t, k>> /\ Len(w) = Len(v) + 1 /\ Found(prog, w) = Found(prog, v)
    BY <1>4, <2>1
  <2>3. w \in C
    BY <1>1, <2>2, BeforeIs
  <2> QED
    BY <2>2, <2>3
<1>7. ASSUME NEW w \in C, w \notin A
      PROVE  /\ w[1] = <<t, k>>
             /\ \E v \in B : Len(w) = Len(v) + 1 /\ Found(prog, w) = Found(prog, v)
  <2>1. w \in AllWays(prog) /\ w[1] = <<t, k>>
    BY <1>1, <1>7, BeforeIs
  <2>2. PICK v \in AllWays(prog) :
        v[1][1] = of /\ Len(w) = Len(v) + 1 /\ Found(prog, w) = Found(prog, v)
    BY <1>4, <2>1
  <2>3. v \in B
    BY <1>3, <2>2
  <2> QED
    BY <2>1, <2>2, <2>3
<1>8. \A a \in A, w \in C : w \notin A /\ NameBy(prog, a) = NameBy(prog, w) => Len(a) <= Len(w)
  BY <1>7, EarlierIsShallower
<1>9. /\ required = NamesBy(prog, Demanded(prog, A))
      /\ \A w \in A : <<NameBy(prog, w)>> \in DOMAIN mine
      /\ \A p \in DOMAIN mine : \E w \in A :
           /\ NameBy(prog, w) = p[1] /\ Shallowest(prog, A, w)
           /\ IsValue(prog, json, Under(mine, p[1]), Found(prog, w), nested)
  BY DEF Halfway
<1>10. /\ needed = NamesBy(prog, Demanded(prog, B))
       /\ \A w \in B : <<NameBy(prog, w)>> \in DOMAIN theirs
       /\ \A p \in DOMAIN theirs : \E w \in B :
            /\ NameBy(prog, w) = p[1] /\ Shallowest(prog, B, w)
            /\ IsValue(prog, json, Under(theirs, p[1]), Found(prog, w), nested)
  BY DEF Halfway
<1>11. \A v \in B : Len(v) \in Nat
  BY <1>3, WayIs
<1>12. \A p \in new : p \in DOMAIN theirs /\ \A q \in DOMAIN mine : q[1] # p[1]
  BY DEF Beside
<1>13. \A p \in DOMAIN theirs : (\A q \in DOMAIN mine : q[1] # p[1]) => p \in new
  BY DEF Beside
<1> HIDE DEF new, props, A, B, C, of
<1>14. required \cup needed = NamesBy(prog, Demanded(prog, C))
  <2>1. \A n : n \in NamesBy(prog, Demanded(prog, A)) => n \in NamesBy(prog, Demanded(prog, C))
    BY <1>5 DEF NamesBy, Demanded
  <2>2. \A n : n \in NamesBy(prog, Demanded(prog, B)) => n \in NamesBy(prog, Demanded(prog, C))
    BY <1>6 DEF NamesBy, NameBy, Demanded
  <2>3. ASSUME NEW n \in NamesBy(prog, Demanded(prog, C))
        PROVE  n \in required \cup needed
    <3>1. PICK w \in C : Found(prog, w).required /\ n = NameBy(prog, w)
      BY DEF NamesBy, Demanded
    <3>2. CASE w \in A
      BY <1>9, <3>1, <3>2 DEF NamesBy, Demanded
    <3>3. CASE w \notin A
      <4>1. PICK v \in B : Found(prog, w) = Found(prog, v)
        BY <1>7, <3>3
      <4> QED
        BY <1>10, <3>1, <4>1 DEF NamesBy, NameBy, Demanded
    <3> QED
      BY <3>2, <3>3
  <2> QED
    BY <1>9, <1>10, <2>1, <2>2, <2>3
<1>15. ASSUME NEW w \in C PROVE <<NameBy(prog, w)>> \in DOMAIN props
  <2>1. CASE w \in A
    BY <1>2, <1>9, <2>1
  <2>2. CASE w \notin A
    <3> DEFINE n == NameBy(prog, w)
    <3>1. PICK v \in B : Found(prog, w) = Found(prog, v)
      BY <1>7, <2>2
    <3>2. <<n>> \in DOMAIN theirs /\ <<n>>[1] = n
      BY <1>10, <3>1 DEF NameBy
    <3> HIDE DEF n
    <3>3. CASE \A q \in DOMAIN mine : q[1] # n
      BY <1>2, <1>13, <3>2, <3>3 DEF n
    <3>4. CASE \E q \in DOMAIN mine : q[1] = n
      <4>1. <<n>> \in DOMAIN mine
        BY <1>9, <3>4
      <4> QED
        BY <1>2, <4>1 DEF n
    <3> QED
      BY <3>3, <3>4
  <2> QED
    BY <2>1, <2>2
<1>16. ASSUME NEW p \in DOMAIN props
       PROVE  \E w \in C : /\ NameBy(prog, w) = p[1] /\ Shallowest(prog, C, w)
                           /\ IsValue(prog, json, Under(props, p[1]), Found(prog, w), nested)
  <2>1. CASE p \in DOMAIN mine
    <3>1. PICK a \in A : /\ NameBy(prog, a) = p[1] /\ Shallowest(prog, A, a)
                         /\ IsValue(prog, json, Under(mine, p[1]), Found(prog, a), nested)
      BY <1>9, <2>1
    <3>2. Shallowest(prog, C, a)
      BY <1>8, <3>1 DEF Shallowest
    <3> QED
      BY <1>2, <1>5, <2>1, <3>1, <3>2
  <2>2. CASE p \notin DOMAIN mine
    <3>1. p \in new /\ p \in DOMAIN theirs
      BY <1>2, <1>12, <2>2
    <3>2. PICK v \in B : /\ NameBy(prog, v) = p[1] /\ Shallowest(prog, B, v)
                         /\ IsValue(prog, json, Under(theirs, p[1]), Found(prog, v), nested)
      BY <1>10, <3>1
    <3>3. PICK w \in C : Len(w) = Len(v) + 1 /\ Found(prog, w) = Found(prog, v)
      BY <1>6
    <3>4. NameBy(prog, w) = p[1]
      BY <3>2, <3>3 DEF NameBy
    <3>5. ASSUME NEW u \in C, NameBy(prog, u) = NameBy(prog, w) PROVE Len(w) <= Len(u)
      <4>1. u \notin A
        <5>1. SUFFICES ASSUME u \in A PROVE FALSE
          OBVIOUS
        <5>2. <<p[1]>> \in DOMAIN mine /\ <<p[1]>>[1] = p[1]
          BY <1>9, <3>4, <3>5, <5>1
        <5> QED
          BY <1>12, <3>1, <5>2
      <4>2. PICK x \in B : Len(u) = Len(x) + 1 /\ Found(prog, u) = Found(prog, x)
        BY <1>7, <4>1
      <4>3. NameBy(prog, x) = NameBy(prog, v)
        BY <3>2, <3>4, <3>5, <4>2 DEF NameBy
      <4>4. Len(v) <= Len(x)
        BY <3>2, <4>3 DEF Shallowest
      <4> QED
        BY <1>11, <3>3, <4>2, <4>4
    <3>6. Shallowest(prog, C, w)
      BY <3>5 DEF Shallowest
    <3> QED
      BY <1>2, <3>1, <3>2, <3>3, <3>4, <3>6
  <2> QED
    BY <2>1, <2>2
<1>17. Halfway(prog, json, t, k + 1, nested, props, required \cup needed)
  BY <1>14, <1>15, <1>16 DEF Halfway, C
<1> QED
  BY <1>17 DEF props, new

-------------------------------------------------------------------------------
(* A finished type *)

Members(prog) == TypeFields(prog).members
From(prog, t) == {w \in Ways(prog) : w[1][1] = t}

\* Without rivals the fields that dominate are the shallowest.
LEMMA MemberIs ==
  ASSUME NEW prog \in Programs, NoRivals(prog), NEW t \in Types
  PROVE  /\ \A w \in From(prog, t) :
              Shallowest(prog, From(prog, t), w) => <<t, Found(prog, w)>> \in Members(prog)
         /\ \A f \in Fields : <<t, f>> \in Members(prog) =>
              \E w \in From(prog, t) : f = Found(prog, w) /\ Shallowest(prog, From(prog, t), w)
         /\ Needed(TypeFields(prog), t) = NamesBy(prog, Demanded(prog, From(prog, t)))
         /\ \A e \in Members(prog) : e[2] \in Fields
<1> DEFINE ways == Ways(prog)
           W == From(prog, t)
           winners == {w \in ways : Dominates(prog, ways, w)}
<1>1. Members(prog) = {<<w[1][1], Found(prog, w)>> : w \in winners}
  BY DEF Members, TypeFields
<1>2. \A w \in W : w \in ways /\ w[1][1] = t
  BY DEF From
<1>3. \A w \in ways : w \in AllWays(prog) /\ Len(w) \in Nat
  BY WaysAreAllShort, WayIs
<1>4. ASSUME NEW w \in W PROVE w \in winners <=> Shallowest(prog, W, w)
  <2>1. \A v \in ways : Rivals(prog, v, w) <=> v \in W /\ NameBy(prog, v) = NameBy(prog, w)
    BY <1>2 DEF From, Rivals, NameBy
  <2>2. ASSUME w \in winners, NEW v \in W, NameBy(prog, v) = NameBy(prog, w)
        PROVE  Len(w) <= Len(v)
    <3>1. v = w \/ Wins(prog, w, v)
      BY <1>2, <2>1, <2>2 DEF Dominates
    <3>2. Len(w) \in Nat /\ Len(v) \in Nat
      BY <1>2, <1>3
    <3> QED
      BY <3>1, <3>2 DEF Wins
  <2>3. ASSUME Shallowest(prog, W, w), NEW v \in ways \ {w}, Rivals(prog, v, w)
        PROVE  Wins(prog, w, v)
    <3>1. Rivals(prog, w, v) /\ Len(w) <= Len(v)
      BY <2>1, <2>3 DEF Rivals, Shallowest
    <3>2. Len(w) < Len(v)
      BY <1>2, <2>3, <3>1 DEF NoRivals
    <3> QED
      BY <3>2 DEF Wins
  <2> QED
    BY <1>2, <2>2, <2>3 DEF Shallowest, Dominates
<1>5. \A w \in W : Shallowest(prog, W, w) => <<t, Found(prog, w)>> \in Members(prog)
  <2> HIDE DEF winners, W, ways
  <2> QED BY <1>1, <1>4, <1>2
<1>6. ASSUME NEW f \in Fields, <<t, f>> \in Members(prog)
      PROVE  \E w \in W : f = Found(prog, w) /\ Shallowest(prog, W, w)
  <2>1. PICK w \in winners : <<t, f>> = <<w[1][1], Found(prog, w)>>
    BY <1>1, <1>6
  <2>2. w[1][1] = t /\ f = Found(prog, w) /\ w \in ways
    BY <2>1
  <2>3. w \in W
    BY <2>2 DEF From
  <2> HIDE DEF winners, W, ways
  <2> QED BY <1>4, <2>1, <2>2, <2>3
<1>7. \A e \in Members(prog) : e[2] \in Fields
  <2>1. \A w \in winners : Found(prog, w) \in Fields
    BY <1>3, WayIs
  <2> HIDE DEF winners, W, ways
  <2> QED BY <1>1, <2>1
<1>8. Needed(TypeFields(prog), t) = NamesBy(prog, Demanded(prog, W))
  <2> DEFINE demanded == {w \in ways : Found(prog, w).required}
             needed == {<<w[1][1], GoName(Found(prog, w))>> : w \in demanded}
  <2>1. Needed(TypeFields(prog), t) = {e[2] : e \in {e \in needed : e[1] = t}}
    BY DEF Needed, TypeFields
  <2>2. ASSUME NEW n \in {e[2] : e \in {e \in needed : e[1] = t}}
        PROVE  n \in NamesBy(prog, Demanded(prog, W))
    <3>1. PICK w \in demanded : w[1][1] = t /\ n = GoName(Found(prog, w))
      OBVIOUS
    <3> QED
      BY <3>1 DEF NamesBy, NameBy, Demanded, From
  <2>3. ASSUME NEW n \in NamesBy(prog, Demanded(prog, W))
        PROVE  n \in {e[2] : e \in {e \in needed : e[1] = t}}
    <3>1. PICK w \in W : Found(prog, w).required /\ n = GoName(Found(prog, w))
      BY DEF NamesBy, NameBy, Demanded
    <3>2. w \in demanded /\ w[1][1] = t
      BY <1>2, <3>1
    <3>3. <<t, n>> \in needed /\ <<t, n>>[1] = t /\ <<t, n>>[2] = n
      BY <3>1, <3>2
    <3> HIDE DEF needed
    <3> QED BY <3>3
  <2> HIDE DEF needed
  <2> QED
    BY <2>1, <2>2, <2>3
<1> QED
  BY <1>5, <1>6, <1>7, <1>8 DEF Members

LEMMA OneWinner ==
  ASSUME NEW prog \in Programs, NoRivals(prog), NEW t \in Types,
         NEW v \in From(prog, t), Shallowest(prog, From(prog, t), v),
         NEW w \in From(prog, t), Shallowest(prog, From(prog, t), w),
         NameBy(prog, v) = NameBy(prog, w)
  PROVE  v = w
<1>1. v \in Ways(prog) /\ w \in Ways(prog) /\ Rivals(prog, v, w)
  BY DEF From, Rivals, NameBy
<1>2. Len(v) \in Nat /\ Len(w) \in Nat
  BY <1>1, WaysAreAllShort, WayIs
<1>3. Len(v) <= Len(w) /\ Len(w) <= Len(v)
  BY DEF Shallowest
<1> QED
  BY <1>1, <1>2, <1>3 DEF NoRivals

\* A chain goes on in the struct of a member that is in place.
LEMMA ChainOfOne ==
  ASSUME NEW prog \in Programs, NEW t \in Types, NEW nested, NEW f,
         <<t, f>> \in Members(prog)
  PROVE  [j \in 1..1 |-> f] \in Chains(prog, TypeFields(prog), t, nested, 1)
<1>1. f \in {e[2] : e \in TypeFields(prog).members}
  <2>1. <<t, f>>[2] = f
    OBVIOUS
  <2> QED
    BY <2>1 DEF Members
<1> QED
  BY <1>1 DEF Chains, Members

\* What the definition of chains says, with members for short.
LEMMA ChainIs ==
  ASSUME NEW prog, NEW t, NEW nested, NEW k \in Nat \ {0},
         NEW fs \in Chains(prog, TypeFields(prog), t, nested, k)
  PROVE  /\ fs \in [1..k -> {e[2] : e \in Members(prog)}] /\ <<t, fs[1]>> \in Members(prog)
         /\ \A j \in 1..k : j # 1 =>
              /\ InPlace(prog, fs[j - 1], nested /\ j = 2)
              /\ <<fs[j - 1].of, fs[j]>> \in Members(prog)
<1>1. fs \in [1..k -> {e[2] : e \in Members(prog)}]
  BY DEF Chains, Members
<1>2. \A j \in 1..k :
        IF j = 1 THEN <<t, fs[1]>> \in Members(prog)
        ELSE /\ InPlace(prog, fs[j - 1], nested /\ j = 2)
             /\ <<fs[j - 1].of, fs[j]>> \in Members(prog)
  BY DEF Chains, Members
<1>3. 1 \in 1..k
  OBVIOUS
<1>4. <<t, fs[1]>> \in Members(prog)
  BY <1>2, <1>3
<1>5. ASSUME NEW j \in 1..k, j # 1
      PROVE  /\ InPlace(prog, fs[j - 1], nested /\ j = 2)
             /\ <<fs[j - 1].of, fs[j]>> \in Members(prog)
  BY <1>2, <1>5
<1> QED
  BY <1>1, <1>4, <1>5

LEMMA LongerChain ==
  ASSUME NEW prog \in Programs, NEW t \in Types, NEW nested, NEW f,
         <<t, f>> \in Members(prog), InPlace(prog, f, nested),
         NEW k \in Nat \ {0}, NEW gs \in Chains(prog, TypeFields(prog), f.of, FALSE, k)
  PROVE  [j \in 1..k + 1 |-> IF j = 1 THEN f ELSE gs[j - 1]]
           \in Chains(prog, TypeFields(prog), t, nested, k + 1)
<1> DEFINE fs == [j \in 1..k + 1 |-> IF j = 1 THEN f ELSE gs[j - 1]]
           F == {e[2] : e \in Members(prog)}
<1>1. f \in F
  <2>1. <<t, f>>[2] = f
    OBVIOUS
  <2> QED
    BY <2>1 DEF Members
<1>2. /\ gs \in [1..k -> F] /\ <<f.of, gs[1]>> \in Members(prog)
      /\ \A j \in 1..k : j # 1 =>
           /\ InPlace(prog, gs[j - 1], FALSE /\ j = 2)
           /\ <<gs[j - 1].of, gs[j]>> \in Members(prog)
  BY ChainIs DEF InPlace
<1> HIDE DEF F
<1>3. \A j \in 1..k + 1 : fs[j] \in F
  BY <1>1, <1>2
<1>4. /\ fs \in [1..k + 1 -> F] /\ fs[1] = f
      /\ \A j \in 1..k + 1 : j # 1 => fs[j] = gs[j - 1]
  BY <1>3
<1> HIDE DEF fs
<1>5. ASSUME NEW j \in 1..k + 1, j # 1
      PROVE  /\ InPlace(prog, fs[j - 1], nested /\ j = 2)
             /\ <<fs[j - 1].of, fs[j]>> \in Members(prog)
  <2>1. CASE j = 2
    <3>1. fs[j - 1] = f /\ fs[j] = gs[1]
      BY <1>4, <1>5, <2>1
    <3> QED
      BY <1>2, <2>1, <3>1 DEF InPlace
  <2>2. CASE j # 2
    <3>1. j - 1 \in 1..k /\ j - 1 # 1 /\ j - 1 \in 1..k + 1 /\ j - 1 # 2 - 1
      BY <1>5, <2>2
    <3>2. fs[j - 1] = gs[j - 1 - 1] /\ fs[j] = gs[j - 1]
      BY <1>4, <1>5, <3>1
    <3>3. /\ InPlace(prog, gs[j - 1 - 1], FALSE /\ j - 1 = 2)
          /\ <<gs[j - 1 - 1].of, gs[j - 1]>> \in Members(prog)
      BY <1>2, <3>1
    <3> QED
      BY <2>2, <3>2, <3>3 DEF InPlace
  <2> QED
    BY <2>1, <2>2
<1>6. <<t, fs[1]>> \in Members(prog)
  BY <1>4
<1>7. fs \in Chains(prog, TypeFields(prog), t, nested, k + 1)
  BY <1>4, <1>5, <1>6 DEF Chains, Members, F
<1> QED
  BY <1>7 DEF fs

LEMMA ShorterChain ==
  ASSUME NEW prog \in Programs, NEW t \in Types, NEW nested,
         NEW k \in Nat \ {0}, NEW fs \in Chains(prog, TypeFields(prog), t, nested, k + 1)
  PROVE  /\ <<t, fs[1]>> \in Members(prog) /\ InPlace(prog, fs[1], nested)
         /\ [j \in 1..k |-> fs[j + 1]] \in Chains(prog, TypeFields(prog), fs[1].of, FALSE, k)
<1> DEFINE gs == [j \in 1..k |-> fs[j + 1]]
           F == {e[2] : e \in Members(prog)}
<1>1. /\ fs \in [1..k + 1 -> F] /\ <<t, fs[1]>> \in Members(prog)
      /\ \A j \in 1..k + 1 : j # 1 =>
           /\ InPlace(prog, fs[j - 1], nested /\ j = 2)
           /\ <<fs[j - 1].of, fs[j]>> \in Members(prog)
  <2> DEFINE m == k + 1
  <2>1. m \in Nat \ {0} /\ fs \in Chains(prog, TypeFields(prog), t, nested, m)
    OBVIOUS
  <2> HIDE DEF m
  <2>2. /\ fs \in [1..m -> F] /\ <<t, fs[1]>> \in Members(prog)
        /\ \A j \in 1..m : j # 1 =>
             /\ InPlace(prog, fs[j - 1], nested /\ j = 2)
             /\ <<fs[j - 1].of, fs[j]>> \in Members(prog)
    BY <2>1, ChainIs DEF InPlace
  <2> QED
    BY <2>2 DEF m
<1> HIDE DEF F
<1>2. InPlace(prog, fs[1], nested) /\ <<fs[1].of, fs[2]>> \in Members(prog)
  <2>1. 2 \in 1..k + 1 /\ 2 # 1 /\ 2 - 1 = 1
    OBVIOUS
  <2>2. InPlace(prog, fs[1], nested /\ 2 = 2) /\ <<fs[1].of, fs[2]>> \in Members(prog)
    BY <1>1, <2>1
  <2> QED
    BY <2>2 DEF InPlace
<1>3. gs \in [1..k -> F] /\ \A j \in 1..k : gs[j] = fs[j + 1]
  BY <1>1
<1> HIDE DEF gs
<1>4. ASSUME NEW j \in 1..k, j # 1
      PROVE  /\ InPlace(prog, gs[j - 1], FALSE /\ j = 2)
             /\ <<gs[j - 1].of, gs[j]>> \in Members(prog)
  <2>1. j - 1 \in 1..k /\ j + 1 \in 1..k + 1 /\ j + 1 # 1 /\ j + 1 # 2 /\ j - 1 + 1 = j /\ j + 1 - 1 = j
    BY <1>4
  <2>2. gs[j - 1] = fs[j] /\ gs[j] = fs[j + 1]
    BY <1>3, <2>1
  <2>3. /\ InPlace(prog, fs[j], nested /\ j + 1 = 2)
        /\ <<fs[j].of, fs[j + 1]>> \in Members(prog)
    BY <1>1, <2>1
  <2> QED
    BY <2>1, <2>2, <2>3 DEF InPlace
<1>5. <<fs[1].of, gs[1]>> \in Members(prog)
  <2>1. gs[1] = fs[2]
    BY <1>3
  <2> QED
    BY <1>2, <2>1
<1>6. gs \in Chains(prog, TypeFields(prog), fs[1].of, FALSE, k)
  BY <1>3, <1>4, <1>5 DEF Chains, Members, F
<1> QED
  BY <1>1, <1>2, <1>6 DEF gs

\* Behind the last field all is found, and what a call returns is what its
\* type is encoded as.
LEMMA AllIsFound ==
  ASSUME NEW prog \in Programs, NEW t \in Types, NEW i \in Nat \ {0},
         NEW k \in Nat, k > Len(prog.fields[t]), Shallow(prog, t, k, i)
  PROVE  Before(prog, t, k) = From(prog, t)
<1>1. Before(prog, t, k) = {w \in AllWays(prog) : w[1][1] = t}
  BY BeforeTheEnd
<1>2. ASSUME NEW w \in Before(prog, t, k) PROVE Len(w) <= MaxDepth
  <2>1. Len(w) + i <= MaxDepth + 1 /\ Len(w) \in Nat /\ MaxDepth \in Nat
    BY <1>1, WayIs, SchemaAssumption DEF Shallow
  <2> QED
    BY <2>1
<1> QED
  BY <1>1, <1>2, WaysAreAllShort DEF From

\* A path that is documented is one of a chain.
LEMMA PathIsChain ==
  ASSUME NEW prog \in Programs, NEW t \in Types, NEW nested \in BOOLEAN,
         NEW props \in Schemas, << >> \notin DOMAIN props, NEW p \in DOMAIN props,
         NEW f \in Fields, <<t, f>> \in Members(prog), GoName(f) = p[1],
         IsValue(prog, TypeFields(prog), Under(props, p[1]), f, nested)
  PROVE  \E fs \in Chains(prog, TypeFields(prog), t, nested, Len(p)) :
           /\ \A j \in 1..Len(p) : GoName(fs[j]) = p[j]
           /\ props[p] = Shape(prog, TypeFields(prog), fs[Len(p)], nested /\ Len(p) = 1)
<1> DEFINE json == TypeFields(prog)
           n == p[1]
           q == Tail(p)
           sub == Under(props, n)
           m == Len(q)
<1>1. /\ p \in Seq(Names) /\ p # << >> /\ p = <<n>> \o q
      /\ q \in DOMAIN sub /\ sub[q] = props[p]
  BY UnderIs
<1>2. /\ q \in Seq(Names) /\ m \in Nat /\ Len(p) = m + 1
      /\ \A j \in 1..m : q[j] = p[j + 1]
  <2>1. /\ q \in Seq(Names) /\ m \in Nat
    BY <1>1, HeadAndTail
  <2>2. Len(p) \in Nat /\ m = Len(p) - 1 /\ \A j \in 1..Len(p) - 1 : q[j] = p[j + 1]
    BY <1>1, HeadAndTail
  <2> HIDE DEF q
  <2> QED
    BY <2>1, <2>2
<1>3. IsValue(prog, json, sub, f, nested)
  OBVIOUS
<1> HIDE DEF json, n, q, sub
<1>4. CASE q = << >>
  <2> DEFINE fs == [j \in 1..1 |-> f]
  <2>1. Len(p) = 1
    BY <1>2, <1>4
  <2>2. fs \in Chains(prog, json, t, nested, 1)
    BY ChainOfOne DEF json
  <2>3. Len(p) = 1 /\ fs \in Chains(prog, json, t, nested, 1) /\ fs[1] = f
    BY <2>1, <2>2
  <2>4. sub[<< >>] = Shape(prog, json, f, nested)
    <3>1. CASE InPlace(prog, f, nested)
      BY <1>3, <3>1 DEF IsValue, Encodes, Shape
    <3>2. CASE ~InPlace(prog, f, nested)
      BY <1>3, <3>2 DEF IsValue, Leaf, Shape
    <3> QED
      BY <3>1, <3>2
  <2>5. Shape(prog, json, f, nested) = Shape(prog, json, fs[Len(p)], nested /\ Len(p) = 1)
    BY <2>3 DEF Shape, InPlace
  <2>6. \A j \in 1..Len(p) : GoName(fs[j]) = p[j]
    BY <2>3
  <2> HIDE DEF fs
  <2> QED
    BY <1>1, <1>4, <2>3, <2>4, <2>5, <2>6 DEF json
<1>5. CASE q # << >>
  <2>1. m \in Nat \ {0}
    BY <1>2, <1>5
  <2>2. InPlace(prog, f, nested) /\ Encodes(prog, json, sub, f.of, IsList(f), FALSE)
    <3>1. CASE ~InPlace(prog, f, nested)
      <4>1. DOMAIN sub = {<< >>}
        BY <1>3, <3>1 DEF IsValue, Leaf
      <4> QED
        BY <1>1, <1>5, <4>1
    <3>2. CASE InPlace(prog, f, nested)
      BY <1>3, <3>2 DEF IsValue
    <3> QED
      BY <3>1, <3>2
  <2>3. PICK gs \in Chains(prog, json, f.of, FALSE, m) :
          /\ \A j \in 1..m : GoName(gs[j]) = q[j]
          /\ sub[q] = Shape(prog, json, gs[m], FALSE /\ m = 1)
    BY <1>1, <1>5, <2>2 DEF Encodes
  <2> DEFINE fs == [j \in 1..m + 1 |-> IF j = 1 THEN f ELSE gs[j - 1]]
  <2> HIDE DEF m
  <2>4. fs \in Chains(prog, json, t, nested, m + 1)
    <3>1. InPlace(prog, f, nested) /\ m \in Nat \ {0} /\ gs \in Chains(prog, TypeFields(prog), f.of, FALSE, m)
      BY <2>1, <2>2, <2>3 DEF json
    <3> QED
      BY <3>1, LongerChain, Zenon DEF json
  <2>5. fs[1] = f /\ \A j \in 1..m : fs[j + 1] = gs[j]
    <3>1. 1 \in 1..m + 1 /\ \A j \in 1..m : j + 1 \in 1..m + 1 /\ j + 1 # 1 /\ j + 1 - 1 = j
      BY <2>1
    <3>2. fs[1] = f
      BY <3>1
    <3>3. ASSUME NEW j \in 1..m PROVE fs[j + 1] = gs[j]
      BY <3>1
    <3> QED
      BY <3>2, <3>3
  <2>6. fs[m + 1] = gs[m]
    BY <2>1, <2>5
  <2> HIDE DEF fs
  <2>7. ASSUME NEW j \in 1..m + 1 PROVE GoName(fs[j]) = p[j]
    <3>1. CASE j = 1
      BY <2>5, <3>1 DEF n
    <3>2. CASE j # 1
      <4>1. j - 1 \in 1..m /\ j - 1 + 1 = j
        BY <2>1, <2>7, <3>2
      <4>2. fs[j] = gs[j - 1] /\ q[j - 1] = p[j]
        BY <1>2, <2>5, <4>1
      <4> QED
        BY <2>3, <4>1, <4>2
    <3> QED
      BY <3>1, <3>2
  <2>8. props[p] = Shape(prog, json, fs[m + 1], nested /\ m + 1 = 1)
    <3>1. props[p] = Shape(prog, json, gs[m], FALSE /\ m = 1)
      BY <1>1, <2>3
    <3>2. m + 1 # 1
      BY <2>1
    <3>3. Shape(prog, json, gs[m], FALSE /\ m = 1) = Shape(prog, json, gs[m], nested /\ m + 1 = 1)
      BY <3>2 DEF Shape, InPlace
    <3> QED
      BY <2>6, <3>1, <3>3
  <2>9. Len(p) = m + 1
    BY <1>2
  <2> QED
    BY <2>4, <2>7, <2>8, <2>9 DEF json
<1> QED
  BY <1>4, <1>5

\* A chain from t goes through the field that has the name among its members.
LEMMA ChainStartsRight ==
  ASSUME NEW prog \in Programs, NoRivals(prog), NEW t \in Types,
         NEW f \in Fields, <<t, f>> \in Members(prog),
         NEW g \in Fields, <<t, g>> \in Members(prog), GoName(f) = GoName(g)
  PROVE  f = g
<1>1. PICK v \in From(prog, t) : f = Found(prog, v) /\ Shallowest(prog, From(prog, t), v)
  BY MemberIs
<1>2. PICK w \in From(prog, t) : g = Found(prog, w) /\ Shallowest(prog, From(prog, t), w)
  BY MemberIs
<1>3. NameBy(prog, v) = NameBy(prog, w)
  BY <1>1, <1>2 DEF NameBy
<1> QED
  BY <1>1, <1>2, <1>3, OneWinner

\* And the paths of chains are documented.
LEMMA ChainIsPath ==
  ASSUME NEW prog \in Programs, NoRivals(prog), NEW t \in Types, NEW nested \in BOOLEAN,
         NEW props \in Schemas, << >> \notin DOMAIN props, NEW p \in DOMAIN props,
         NEW f \in Fields, <<t, f>> \in Members(prog), GoName(f) = p[1],
         IsValue(prog, TypeFields(prog), Under(props, p[1]), f, nested),
         NEW fs \in Chains(prog, TypeFields(prog), t, nested, Len(p) + 1),
         \A j \in 1..Len(p) : GoName(fs[j]) = p[j]
  PROVE  Append(p, GoName(fs[Len(p) + 1])) \in DOMAIN props
<1> DEFINE json == TypeFields(prog)
           n == p[1]
           q == Tail(p)
           sub == Under(props, n)
           m == Len(p)
           x == GoName(fs[m + 1])
           gs == [j \in 1..m |-> fs[j + 1]]
<1>1. /\ p \in Seq(Names) /\ p # << >> /\ p = <<n>> \o q /\ q \in DOMAIN sub
  BY UnderIs
<1>2. /\ q \in Seq(Names) /\ m \in Nat \ {0} /\ Len(q) = m - 1
      /\ \A j \in 1..m - 1 : q[j] = p[j + 1]
  BY <1>1, HeadAndTail
<1>3. /\ <<t, fs[1]>> \in Members(prog) /\ InPlace(prog, fs[1], nested)
      /\ gs \in Chains(prog, json, fs[1].of, FALSE, m)
  <2> HIDE DEF m
  <2> QED
    BY <1>2, ShorterChain DEF m
<1>4. fs[1] \in Fields
  <2>1. \A e \in Members(prog) : e[2] \in Fields
    BY MemberIs
  <2>2. <<t, fs[1]>>[2] = fs[1]
    OBVIOUS
  <2> QED
    BY <1>3, <2>1, <2>2
<1>5. GoName(fs[1]) = p[1]
  BY <1>2
<1>6. fs[1] = f
  BY <1>3, <1>4, <1>5, ChainStartsRight
<1>7. Encodes(prog, json, sub, f.of, IsList(f), FALSE)
  BY <1>3, <1>6 DEF IsValue
<1>8. \A j \in 1..m - 1 : GoName(gs[j]) = q[j]
  <2> SUFFICES ASSUME NEW j \in 1..m - 1 PROVE GoName(gs[j]) = q[j]
    OBVIOUS
  <2> HIDE DEF q, m
  <2>1. j \in 1..m /\ j + 1 \in 1..m
    BY <1>2
  <2> QED
    BY <1>2, <2>1 DEF m
<1>9. Len(q) + 1 = m /\ gs[m] = fs[m + 1]
  <2> HIDE DEF q, m
  <2> QED
    BY <1>2
<1> HIDE DEF json, n, q, sub, m, gs
<1>10. Append(q, GoName(gs[m])) \in DOMAIN sub
  <2>1. gs \in Chains(prog, json, f.of, FALSE, Len(q) + 1)
    BY <1>3, <1>6, <1>9
  <2>2. \A j \in 1..Len(q) : GoName(gs[j]) = q[j]
    BY <1>2, <1>8
  <2> QED
    BY <1>1, <1>7, <1>9, <2>1, <2>2 DEF Encodes
<1>11. Append(q, x) \in DOMAIN sub
  BY <1>9, <1>10 DEF m
<1>12. <<n>> \o Append(q, x) \in DOMAIN props /\ n \in Names /\ Append(q, x) \in Seq(Names)
  BY <1>11, UnderIs DEF sub
<1>13. <<n>> \o Append(q, x) = Append(p, x)
  <2>1. x \in Names
    <3>1. Append(q, x)[Len(q) + 1] = x /\ Len(Append(q, x)) = Len(q) + 1
      BY <1>2
    <3>2. Len(q) + 1 \in 1..Len(Append(q, x))
      BY <1>2, <3>1
    <3> HIDE DEF x
    <3> QED
      BY <1>12, <3>1, <3>2
  <2> HIDE DEF x
  <2> DEFINE l == Append(<<n>> \o q, x)
             r == <<n>> \o Append(q, x)
  <2>2. q \in Seq(Names) /\ <<n>> \in Seq(Names) /\ Len(<<n>>) = 1 /\ <<n>>[1] = n
    BY <1>2, <1>12
  <2>3. /\ <<n>> \o q \in Seq(Names) /\ Len(<<n>> \o q) = Len(q) + 1
        /\ (<<n>> \o q)[1] = n /\ \A j \in 2..Len(q) + 1 : (<<n>> \o q)[j] = q[j - 1]
    BY <2>2
  <2>4. /\ Append(q, x) \in Seq(Names) /\ Len(Append(q, x)) = Len(q) + 1
        /\ Append(q, x)[Len(q) + 1] = x /\ \A j \in 1..Len(q) : Append(q, x)[j] = q[j]
    BY <2>1, <2>2
  <2>5. /\ l \in Seq(Names) /\ Len(l) = Len(q) + 2 /\ l[1] = n /\ l[Len(q) + 2] = x
        /\ \A j \in 2..Len(q) + 1 : l[j] = q[j - 1]
    BY <2>1, <2>2, <2>3
  <2>6. /\ r \in Seq(Names) /\ Len(r) = Len(q) + 2 /\ r[1] = n
        /\ \A j \in 2..Len(q) + 2 : r[j] = Append(q, x)[j - 1]
    BY <2>2, <2>4
  <2>7. r[Len(q) + 2] = x /\ \A j \in 2..Len(q) + 1 : r[j] = q[j - 1]
    BY <2>2, <2>4, <2>6
  <2>8. Len(q) \in Nat
    BY <2>2
  <2> HIDE DEF l, r
  <2>9. \A j \in 1..Len(q) + 2 : j = 1 \/ j \in 2..Len(q) + 1 \/ j = Len(q) + 2
    BY <2>8
  <2>10. \A j \in 1..Len(q) + 2 : l[j] = r[j]
    BY <2>5, <2>6, <2>7, <2>9
  <2>11. l = r
    BY <2>10, <2>5, <2>6, SeqEqual
  <2> QED
    BY <1>1, <2>11 DEF l, r
<1> QED
  BY <1>12, <1>13 DEF x, m

LEMMA CompleteIsEncoding ==
  ASSUME NEW prog \in Programs, NoRivals(prog), NEW t \in Types, NEW nested \in BOOLEAN,
         NEW props \in Schemas, << >> \notin DOMAIN props, NEW required,
         NEW i \in Nat \ {0}, NEW k \in Nat, k > Len(prog.fields[t]),
         Halfway(prog, TypeFields(prog), t, k, nested, props, required),
         Shallow(prog, t, k, i),
         NEW list, NEW s, DOMAIN s = {<< >>} \cup DOMAIN props,
         s[<< >>] = Node(list, {}, required), \A p \in DOMAIN props : s[p] = props[p]
  PROVE  Encodes(prog, TypeFields(prog), s, t, list, nested)
<1> DEFINE json == TypeFields(prog)
           W == From(prog, t)
<1>1. Before(prog, t, k) = W
  BY AllIsFound
<1>2. required = Needed(json, t)
  BY <1>1, MemberIs DEF Halfway
<1>3. ASSUME NEW p \in DOMAIN props
      PROVE  \E f \in Fields : /\ <<t, f>> \in Members(prog) /\ GoName(f) = p[1]
                               /\ IsValue(prog, json, Under(props, p[1]), f, nested)
  <2>1. PICK w \in W : /\ NameBy(prog, w) = p[1] /\ Shallowest(prog, W, w)
                       /\ IsValue(prog, json, Under(props, p[1]), Found(prog, w), nested)
    BY <1>1 DEF Halfway
  <2>2. Found(prog, w) \in Fields
    BY WaysAreAllShort, WayIs DEF From
  <2>3. <<t, Found(prog, w)>> \in Members(prog)
    BY <2>1, MemberIs
  <2> QED
    BY <2>1, <2>2, <2>3 DEF NameBy
<1>4. ASSUME NEW p \in DOMAIN props
      PROVE  \E fs \in Chains(prog, json, t, nested, Len(p)) :
               /\ \A j \in 1..Len(p) : GoName(fs[j]) = p[j]
               /\ s[p] = Shape(prog, json, fs[Len(p)], nested /\ Len(p) = 1)
  <2>1. PICK f \in Fields : /\ <<t, f>> \in Members(prog) /\ GoName(f) = p[1]
                            /\ IsValue(prog, json, Under(props, p[1]), f, nested)
    BY <1>3
  <2>2. s[p] = props[p]
    OBVIOUS
  <2> QED
    BY <2>1, <2>2, PathIsChain
<1>5. ASSUME NEW p \in DOMAIN s, NEW fs \in Chains(prog, json, t, nested, Len(p) + 1),
             \A j \in 1..Len(p) : GoName(fs[j]) = p[j]
      PROVE  Append(p, GoName(fs[Len(p) + 1])) \in DOMAIN s
  <2>1. CASE p = << >>
    <3>1. Len(p) + 1 = 1
      BY <2>1
    <3>2. fs \in Chains(prog, json, t, nested, 1)
      BY <1>5, <3>1
    <3>3. <<t, fs[1]>> \in Members(prog)
      BY <3>2, ChainIs
    <3>4. \A e \in Members(prog) : e[2] \in Fields
      BY MemberIs
    <3>5. <<t, fs[1]>>[2] = fs[1]
      OBVIOUS
    <3>6. fs[1] \in Fields
      BY <3>3, <3>4, <3>5
    <3>7. PICK w \in W : fs[1] = Found(prog, w)
      BY <3>3, <3>6, MemberIs
    <3>8. <<GoName(fs[1])>> \in DOMAIN props
      BY <1>1, <3>7 DEF Halfway, NameBy
    <3>9. Append(p, GoName(fs[1])) = <<GoName(fs[1])>>
      BY <2>1
    <3> QED
      BY <3>1, <3>8, <3>9
  <2>2. CASE p # << >>
    <3>1. p \in DOMAIN props
      BY <2>2
    <3>2. PICK f \in Fields : /\ <<t, f>> \in Members(prog) /\ GoName(f) = p[1]
                              /\ IsValue(prog, json, Under(props, p[1]), f, nested)
      BY <1>3, <3>1
    <3>3. Append(p, GoName(fs[Len(p) + 1])) \in DOMAIN props
      BY <1>5, <3>1, <3>2, ChainIsPath
    <3> QED
      BY <3>3
  <2> QED
    BY <2>1, <2>2
<1>6. DOMAIN s \ {<< >>} = DOMAIN props
  OBVIOUS
<1> HIDE DEF json
<1>7. Encodes(prog, json, s, t, list, nested)
  BY <1>2, <1>4, <1>5, <1>6 DEF Encodes
<1> QED
  BY <1>7 DEF json

-------------------------------------------------------------------------------
(* Calls and returns *)

LEMMA FieldIsOneOf ==
  ASSUME ProgramsAreEncodable, NEW prog \in Programs, NEW t \in Types,
         NEW k \in 1..Len(prog.fields[t])
  PROVE  LET f == prog.fields[t][k]
         IN  /\ Flattened(f) => Embeds(f)
             /\ Encoded(f) => /\ ~Embeds(f) /\ Shown(f) /\ JSONName(f) = GoName(f)
                              /\ IsStruct(f) <=> IsObject(f)
             /\ ~Flattened(f) /\ ~Encoded(f) => ~Embeds(f) /\ ~Shown(f)
<1>1. DOMAIN prog.fields[t] = 1..Len(prog.fields[t])
  BY ProgIsTyped
<1>2. SeenAlike(prog.fields[t][k])
  <2>1. Encodable(prog)
    BY DEF ProgramsAreEncodable
  <2> QED
    BY <1>1, <2>1 DEF Encodable
<1>3. prog.fields[t][k] \in Fields
  BY ProgIsTyped
<1> DEFINE f == prog.fields[t][k]
<1> HIDE DEF f
<1>4. f \in Fields /\ SeenAlike(f)
  BY <1>2, <1>3 DEF f
<1>5. f.tag \in Names \cup {"none", "dash", "unnamed"} /\ f.kind \in Kinds
  BY <1>4 DEF Fields
<1>6. Flattened(f) => Embeds(f)
  BY <1>4 DEF Flattened, Embeds, MayEmbed, SeenAlike
<1>7. Encoded(f) => f.tag \in Names
  BY <1>4, <1>5 DEF Encoded, SeenAlike
<1>8. Encoded(f) => /\ ~Embeds(f) /\ Shown(f) /\ JSONName(f) = GoName(f)
                    /\ IsStruct(f) <=> IsObject(f)
  BY <1>4, <1>5, <1>7, SchemaAssumption
  DEF Encoded, Embeds, Shown, SeenAlike, JSONName, GoName, IsStruct, IsObject, Kinds
<1>9. ~Flattened(f) /\ ~Encoded(f) => ~Embeds(f) /\ ~Shown(f)
  BY <1>4 DEF Flattened, Encoded, Embeds, Shown, SeenAlike, MayEmbed
<1> QED
  BY <1>6, <1>8, <1>9 DEF f

LEMMA ResultEncodes ==
  ASSUME ProgramsAreEncodable, NEW prog \in Programs, NEW f \in Frames,
         << >> \notin DOMAIN f.props, f.field > Len(prog.fields[f.type]),
         Halfway(prog, TypeFields(prog), f.type, f.field, f.nested, f.props, f.required),
         NEW i \in Nat \ {0}, Shallow(prog, f.type, f.field, i), NEW list
  PROVE  Encodes(prog, TypeFields(prog), Result(f, list), f.type, list, f.nested)
<1> DEFINE s == Result(f, list)
<1>1. /\ f.type \in Types /\ f.field \in Nat /\ f.nested \in BOOLEAN /\ f.props \in Schemas
  BY FrameHasType
<1>2. /\ DOMAIN s = {<< >>} \cup DOMAIN f.props /\ s[<< >>] = Node(list, {}, f.required)
      /\ \A p \in DOMAIN f.props : s[p] = f.props[p]
  BY DEF Result
<1>3. NoRivals(prog)
  BY DEF ProgramsAreEncodable, Encodable
<1> HIDE DEF s
<1>4. Encodes(prog, TypeFields(prog), s, f.type, list, f.nested)
  <2> DEFINE t == f.type
             k == f.field
             nested == f.nested
             props == f.props
             required == f.required
  <2>1. /\ t \in Types /\ k \in Nat /\ k > Len(prog.fields[t]) /\ nested \in BOOLEAN
        /\ props \in Schemas /\ << >> \notin DOMAIN props
        /\ Halfway(prog, TypeFields(prog), t, k, nested, props, required)
        /\ Shallow(prog, t, k, i)
        /\ DOMAIN s = {<< >>} \cup DOMAIN props /\ s[<< >>] = Node(list, {}, required)
        /\ \A p \in DOMAIN props : s[p] = props[p]
    BY <1>1, <1>2
  <2> HIDE DEF t, k, nested, props, required
  <2>2. Encodes(prog, TypeFields(prog), s, t, list, nested)
    BY <1>3, <2>1, CompleteIsEncoding
  <2> QED
    BY <2>2 DEF t, nested
<1> QED
  BY <1>4 DEF s

LEMMA CallEncodes ==
  ASSUME IInv, Encoding, NEW g \in Frames, Call(g),
         g.field = 1, g.props = Nothing, g.required = {},
         g.use \in SchemaUses /\ stack = << >> => Roots(program, g),
         g.use \in SchemaUses /\ stack # << >> => Asks(program, Top, g),
         stack # << >> => (g.use \in SchemaUses <=> Top.use \in SchemaUses)
  PROVE  Encoding'
<1>1. /\ program \in Programs /\ stack \in Seq(Frames) /\ Len(stack) \in Nat
      /\ Len(stack) <= MaxDepth /\ MaxDepth \in Nat
  BY SchemaAssumption DEF IInv, Typed
<1>2. program' = program /\ definitions' = definitions
  BY DEF Call
<1>3. CASE stack' = stack
  <2>1. /\ \A i \in 1..Len(stack) : Right(program, stack, i)
        /\ DefinesRight(program, definitions)
    BY DEF Encoding
  <2>2. \A i \in 1..Len(stack') : Right(program', stack', i)
    BY <1>2, <1>3, <2>1
  <2>3. DefinesRight(program', definitions')
    BY <1>2, <2>1
  <2> QED
    BY <2>2, <2>3 DEF Encoding
<1>4. CASE stack' = Append(stack, g)
  <2>1. g.type \in Types
    BY FrameHasType
  <2>2. /\ Len(stack') = Len(stack) + 1 /\ stack'[Len(stack) + 1] = g
        /\ \A i \in 1..Len(stack) : stack'[i] = stack[i]
    BY <1>1, <1>4, Called
  <2>3. stack # << >> => Len(stack) \in Nat \ {0} /\ Top = stack[Len(stack)]
    BY <1>1, TopIsTyped
  <2>4. ASSUME NEW i \in 1..Len(stack) PROVE Right(program, stack', i)
    <3>1. Right(program, stack, i) /\ stack'[i] = stack[i]
      BY <2>2 DEF Encoding
    <3>2. i # 1 => stack'[i - 1] = stack[i - 1]
      BY <1>1, <2>2
    <3> QED
      BY <3>1, <3>2 DEF Right
  <2>5. ASSUME NEW k \in Nat, k = Len(stack) + 1
        PROVE  Right(program, stack', k)
    <3>1. Halfway(program, TypeFields(program), g.type, 1, g.nested, Nothing, {})
      BY <1>1, <2>1, NewIsHalfway
    <3>2. Shallow(program, g.type, 1, k)
      BY <1>1, <2>1, BeforeIs DEF Shallow
    <3>3. k = 1 => stack = << >>
      BY <1>1, <2>3, <2>5
    <3>4. k # 1 => stack # << >> /\ stack'[k - 1] = Top
      <4>1. stack = << >> => Len(stack) = 0
        OBVIOUS
      <4> QED
        BY <1>1, <2>2, <2>3, <2>5, <4>1
    <3>5. stack'[k] = g
      BY <2>2, <2>5
    <3>6. k = 1 /\ g.use \in SchemaUses => Roots(program, g)
      BY <3>3
    <3>7. k # 1 =>
            /\ g.use \in SchemaUses => Asks(program, stack'[k - 1], g)
            /\ g.use \in SchemaUses <=> stack'[k - 1].use \in SchemaUses
      BY <3>4
    <3> QED
      BY <3>1, <3>2, <3>5, <3>6, <3>7 DEF Right
  <2>6. \A i \in 1..Len(stack') : Right(program, stack', i)
    <3> SUFFICES ASSUME NEW i \in 1..Len(stack') PROVE Right(program, stack', i)
      OBVIOUS
    <3>1. i \in 1..Len(stack) \/ (i \in Nat /\ i = Len(stack) + 1)
      BY <1>1, <2>2
    <3> QED
      BY <2>4, <2>5, <3>1
  <2> QED
    BY <1>2, <2>6 DEF Encoding
<1> QED
  BY <1>3, <1>4 DEF Call

\* The frame of a call moves on, within the call or when a callee returns.
LEMMA MoveEncodes ==
  ASSUME IInv, Encoding, NEW k \in Nat \ {0}, k <= Len(stack), NEW g \in Frames,
         program' = program, Len(stack') = k, stack'[k] = g,
         \A i \in 1..k : i # k => stack'[i] = stack[i],
         g.type = stack[k].type, g.use = stack[k].use, g.nested = stack[k].nested,
         g.use \in SchemaUses =>
           /\ Halfway(program, TypeFields(program), g.type, g.field, g.nested, g.props, g.required)
           /\ Shallow(program, g.type, g.field, k),
         DefinesRight(program, definitions')
  PROVE  Encoding'
<1>1. ASSUME NEW i \in 1..k PROVE Right(program, stack', i)
  <2>1. Len(stack) \in Nat /\ Right(program, stack, i)
    BY DEF Encoding, IInv, Typed
  <2>2. i # 1 => stack'[i - 1] = stack[i - 1]
    OBVIOUS
  <2>3. CASE i = k
    <3>1. Roots(program, stack[k]) => Roots(program, g)
      BY DEF Roots
    <3>2. k # 1 => (Asks(program, stack[k - 1], stack[k]) => Asks(program, stack'[k - 1], g))
      BY <2>2, <2>3 DEF Asks
    <3>3. stack'[i] = g /\ i = k
      BY <2>3
    <3> QED
      BY <2>1, <2>2, <3>1, <3>2, <3>3 DEF Right
  <2>4. CASE i # k
    BY <2>1, <2>2, <2>4 DEF Right
  <2> QED
    BY <2>3, <2>4
<1> QED
  BY <1>1 DEF Encoding

\* What holds of the call on top when it looks at a field.
LEMMA AtFieldEncoding ==
  ASSUME ProgramsAreEncodable, IInv, Encoding, AtField(SchemaUses)
  PROVE  /\ program \in Programs /\ Top \in Frames /\ Top.type \in Types
         /\ Top.field \in 1..Len(program.fields[Top.type]) /\ Top.nested \in BOOLEAN
         /\ << >> \notin DOMAIN Top.props
         /\ Here = program.fields[Top.type][Top.field] /\ Here \in Fields /\ Here.of \in Types
         /\ Flattened(Here) => Embeds(Here)
         /\ Encoded(Here) => /\ ~Embeds(Here) /\ Shown(Here) /\ JSONName(Here) \in Names
                             /\ JSONName(Here) = GoName(Here) /\ (IsStruct(Here) <=> IsObject(Here))
         /\ ~Flattened(Here) /\ ~Encoded(Here) => ~Embeds(Here) /\ ~Shown(Here)
         /\ Len(stack) \in Nat \ {0} /\ Len(stack) <= MaxDepth /\ stack[Len(stack)] = Top
         /\ Halfway(program, TypeFields(program), Top.type, Top.field, Top.nested, Top.props,
                    Top.required)
         /\ Shallow(program, Top.type, Top.field, Len(stack))
<1>1. /\ Len(stack) \in Nat \ {0} /\ Top = stack[Len(stack)] /\ Top \in Frames
      /\ Top.use \in SchemaUses /\ Top.field <= Len(FieldsOf(Top.type))
      /\ << >> \notin DOMAIN Top.props
      /\ Encoded(Here) => JSONName(Here) \in Names
  BY AtFieldFacts
<1>2. program \in Programs /\ Len(stack) <= MaxDepth
  BY DEF IInv, Typed
<1>3. Top.type \in Types /\ Top.field \in Nat \ {0} /\ Top.nested \in BOOLEAN
  BY <1>1, FrameHasType
<1>4. Len(program.fields[Top.type]) \in Nat
  BY <1>2, <1>3, ProgIsTyped
<1>5. Top.field \in 1..Len(program.fields[Top.type])
  BY <1>1, <1>3, <1>4 DEF FieldsOf
<1>6. Here = program.fields[Top.type][Top.field]
  BY DEF Here, FieldsOf
<1>7. Here \in Fields /\ Here.of \in Types
  BY <1>2, <1>3, <1>5, <1>6, ProgIsTyped
<1>8. /\ Flattened(Here) => Embeds(Here)
      /\ Encoded(Here) => /\ ~Embeds(Here) /\ Shown(Here) /\ JSONName(Here) = GoName(Here)
                          /\ IsStruct(Here) <=> IsObject(Here)
      /\ ~Flattened(Here) /\ ~Encoded(Here) => ~Embeds(Here) /\ ~Shown(Here)
  BY <1>2, <1>3, <1>5, <1>6, FieldIsOneOf
<1>9. Right(program, stack, Len(stack))
  BY <1>1 DEF Encoding
<1>10. /\ Halfway(program, TypeFields(program), Top.type, Top.field, Top.nested, Top.props,
                  Top.required)
       /\ Shallow(program, Top.type, Top.field, Len(stack))
  BY <1>1, <1>9 DEF Right
<1> QED
  BY <1>1, <1>2, <1>3, <1>5, <1>6, <1>7, <1>8, <1>10


-------------------------------------------------------------------------------
(* The steps of one call *)

LEMMA InitEncodes == Init => Encoding
<1> SUFFICES ASSUME Init PROVE Encoding
  OBVIOUS
<1>1. stack = << >> /\ definitions = Nothing
  BY DEF Init
<1>2. DefinesRight(program, Nothing)
  BY NothingIsSchema DEF DefinesRight
<1>3. \A i \in 1..Len(stack) : Right(program, stack, i)
  BY <1>1
<1> QED
  BY <1>1, <1>2, <1>3 DEF Encoding

LEMMA NewCall ==
  ASSUME NEW t \in Types, NEW use \in Uses, NEW nested \in BOOLEAN,
         NEW g, g = Frame(t, use, nested)
  PROVE  /\ g \in Frames /\ g.type = t /\ g.use = use /\ g.nested = nested
         /\ g.field = 1 /\ g.props = Nothing /\ g.required = {}
<1>1. g \in Frames
  BY NewFrame
<1> QED
  BY <1>1 DEF Frame

LEMMA VisitEncodes ==
  ASSUME ProgramsAreEncodable, IInv, Encoding, Visit PROVE Encoding'
<1> DEFINE p == program.parts[part]
           use == IF p.what = "params" THEN "params" ELSE "root"
           nested == TRUE
           g == Frame(p.type, use, nested)
<1>1. stack = << >> /\ Call(g) /\ part <= Len(program.parts)
  BY DEF Visit
<1>2. program \in Programs /\ part \in 1..Len(program.parts) + 1
  BY DEF IInv, Typed
<1>3. /\ Len(program.parts) \in Nat /\ DOMAIN program.parts = 1..Len(program.parts)
      /\ \A i \in 1..Len(program.parts) : program.parts[i].type \in Types
  BY <1>2, ProgramIsTyped
<1>4. part \in DOMAIN program.parts /\ p.type \in Types
  BY <1>1, <1>2, <1>3
<1>5. Encodable(program)
  BY <1>2 DEF ProgramsAreEncodable
<1>6. use \in Uses /\ (use \in SchemaUses => p.what # "params")
  BY DEF Uses, SchemaUses
<1>7. use \in SchemaUses => program.name[p.type] # ""
  BY <1>4, <1>5, <1>6 DEF Encodable
<1>8. nested \in BOOLEAN
  OBVIOUS
<1> HIDE DEF p, use, nested
<1>9. /\ g \in Frames /\ g.type = p.type /\ g.use = use /\ g.nested = nested
      /\ g.field = 1 /\ g.props = Nothing /\ g.required = {}
  BY <1>4, <1>6, <1>8, NewCall
<1> HIDE DEF g
<1>10. g.use \in SchemaUses => Roots(program, g)
  BY <1>7, <1>9 DEF Roots, nested
<1> QED
  BY <1>1, <1>9, <1>10, CallEncodes

LEMMA PromoteEncodes ==
  ASSUME IInv, Encoding, Promote PROVE Encoding'
<1> DEFINE use == IF Top.use = "params" THEN "params" ELSE "embedded"
           g == Frame(Here.of, use, Top.nested)
<1>1. AtField(SchemaUses \cup {"params"}) /\ Flattened(Here) /\ Call(g)
  BY DEF Promote
<1>2. stack # << >> /\ Top \in Frames /\ Top.use \in SchemaUses \cup {"params"} /\ Here.of \in Types
  BY <1>1, AtFieldFacts DEF AtField
<1>3. Top.nested \in BOOLEAN
  BY <1>2, FrameHasType
<1>4. /\ use \in Uses /\ (use \in SchemaUses => use = "embedded")
      /\ (use \in SchemaUses <=> Top.use \in SchemaUses)
  BY <1>2 DEF Uses, SchemaUses
<1>5. Here = program.fields[Top.type][Top.field]
  BY DEF Here, FieldsOf
<1> HIDE DEF use
<1>6. /\ g \in Frames /\ g.type = Here.of /\ g.use = use /\ g.nested = Top.nested
      /\ g.field = 1 /\ g.props = Nothing /\ g.required = {}
  BY <1>2, <1>3, <1>4, NewCall
<1> HIDE DEF g
<1>7. g.use \in SchemaUses => Asks(program, Top, g)
  BY <1>1, <1>4, <1>5, <1>6 DEF Asks
<1> QED
  BY <1>1, <1>2, <1>4, <1>6, <1>7, CallEncodes

\* A struct is referred to if its parent may and it has a name.
LEMMA ReferableIs ==
  ASSUME NEW f, IsObject(f)
  PROVE  Referable(f) <=> ~InPlace(program, f, Top.nested)
BY DEF Referable, InPlace, NameOf

LEMMA DefineOrInlineEncodes ==
  ASSUME ProgramsAreEncodable, IInv, Encoding, Define \/ Inline PROVE Encoding'
<1>1. stack # << >> /\ Top.use \in SchemaUses /\ Here.of \in Types
  BY AtFieldFacts DEF AtField, Define, Inline
<1>2. Here = program.fields[Top.type][Top.field]
  BY DEF Here, FieldsOf
<1>3. CASE Define
  <2> DEFINE nested == TRUE
             g == Frame(Here.of, "definition", nested)
  <2>1. Call(g) /\ Encoded(Here) /\ IsStruct(Here) /\ IsObject(Here) /\ Referable(Here)
    <3>1. AtField(SchemaUses) /\ Encoded(Here) /\ IsStruct(Here) /\ Referable(Here) /\ Call(g)
      BY <1>3 DEF Define
    <3>2. IsStruct(Here) <=> IsObject(Here)
      BY <3>1, AtFieldEncoding
    <3> QED
      BY <3>1, <3>2
  <2>2. nested \in BOOLEAN /\ "definition" \in Uses
    BY DEF Uses, SchemaUses
  <2> HIDE DEF nested
  <2>3. /\ g \in Frames /\ g.type = Here.of /\ g.use = "definition" /\ g.nested = nested
        /\ g.field = 1 /\ g.props = Nothing /\ g.required = {}
    BY <1>1, <2>2, NewCall
  <2> HIDE DEF g
  <2>4. ~InPlace(program, Here, Top.nested)
    BY <2>1, ReferableIs
  <2>5. Asks(program, Top, g)
    BY <1>1, <1>2, <2>1, <2>3, <2>4 DEF Asks, InPlace, nested
  <2> QED
    BY <1>1, <2>1, <2>3, <2>5, CallEncodes DEF SchemaUses
<1>4. CASE Inline
  <2> DEFINE nested == FALSE
             g == Frame(Here.of, "inline", nested)
  <2>1. Call(g) /\ Encoded(Here) /\ IsStruct(Here) /\ IsObject(Here) /\ ~Referable(Here)
    <3>1. AtField(SchemaUses) /\ Encoded(Here) /\ IsStruct(Here) /\ ~Referable(Here) /\ Call(g)
      BY <1>4 DEF Inline
    <3>2. IsStruct(Here) <=> IsObject(Here)
      BY <3>1, AtFieldEncoding
    <3> QED
      BY <3>1, <3>2
  <2>2. nested \in BOOLEAN /\ "inline" \in Uses
    BY DEF Uses, SchemaUses
  <2> HIDE DEF nested
  <2>3. /\ g \in Frames /\ g.type = Here.of /\ g.use = "inline" /\ g.nested = nested
        /\ g.field = 1 /\ g.props = Nothing /\ g.required = {}
    BY <1>1, <2>2, NewCall
  <2> HIDE DEF g
  <2>4. InPlace(program, Here, Top.nested)
    BY <2>1, ReferableIs
  <2>5. Asks(program, Top, g)
    BY <1>1, <1>2, <2>1, <2>3, <2>4 DEF Asks, InPlace, nested
  <2> QED
    BY <1>1, <2>1, <2>3, <2>5, CallEncodes DEF SchemaUses
<1> QED
  BY <1>3, <1>4

\* The call on top moves past a field.
LEMMA WithinEncodes ==
  ASSUME IInv, Encoding, stack # << >>, NEW g \in Frames, stack' = WithTop(g),
         UNCHANGED <<program, definitions>>,
         g.type = Top.type, g.use = Top.use, g.nested = Top.nested,
         g.use \in SchemaUses =>
           /\ Halfway(program, TypeFields(program), g.type, g.field, g.nested, g.props, g.required)
           /\ Shallow(program, g.type, g.field, Len(stack))
  PROVE  Encoding'
<1>1. stack \in Seq(Frames)
  BY DEF IInv, Typed
<1>2. Len(stack) \in Nat \ {0} /\ Top = stack[Len(stack)]
  BY <1>1, TopIsTyped
<1>3. /\ Len(stack') = Len(stack) /\ stack'[Len(stack)] = g
      /\ \A i \in 1..Len(stack) : i # Len(stack) => stack'[i] = stack[i]
  BY <1>1, ReplacedTop
<1>4. DefinesRight(program, definitions')
  BY DEF Encoding
<1> DEFINE k == Len(stack)
<1>5. /\ k \in Nat \ {0} /\ k <= Len(stack) /\ Len(stack') = k /\ stack'[k] = g
      /\ \A i \in 1..k : i # k => stack'[i] = stack[i]
      /\ g.type = stack[k].type /\ g.use = stack[k].use /\ g.nested = stack[k].nested
      /\ g.use \in SchemaUses =>
           /\ Halfway(program, TypeFields(program), g.type, g.field, g.nested, g.props, g.required)
           /\ Shallow(program, g.type, g.field, k)
  BY <1>2, <1>3
<1> HIDE DEF k
<1> QED
  BY <1>4, <1>5, MoveEncodes

LEMMA SkipEncodes ==
  ASSUME ProgramsAreEncodable, IInv, Encoding, SkipField PROVE Encoding'
<1> DEFINE g == [Top EXCEPT !.field = @ + 1]
<1>1. /\ AtField(SchemaUses) /\ stack' = WithTop(g) /\ stack # << >>
      /\ ~Flattened(Here) /\ ~Encoded(Here) /\ UNCHANGED <<program, definitions>>
  BY DEF SkipField, AtField
<1>2. /\ program \in Programs /\ Top \in Frames /\ Top.type \in Types
      /\ Top.field \in 1..Len(program.fields[Top.type])
      /\ Here = program.fields[Top.type][Top.field] /\ ~Embeds(Here) /\ ~Shown(Here)
      /\ Len(stack) \in Nat \ {0} /\ Len(stack) <= MaxDepth
      /\ Halfway(program, TypeFields(program), Top.type, Top.field, Top.nested, Top.props,
                 Top.required)
      /\ Shallow(program, Top.type, Top.field, Len(stack))
  BY <1>1, AtFieldEncoding
<1>3. /\ g \in Frames /\ g.type = Top.type /\ g.use = Top.use /\ g.nested = Top.nested
      /\ g.field = Top.field + 1 /\ g.props = Top.props /\ g.required = Top.required
  BY <1>2 DEF Frames
<1>4. Before(program, Top.type, Top.field + 1) = Before(program, Top.type, Top.field)
  BY <1>2, SkipsNothing
<1>5. Halfway(program, TypeFields(program), Top.type, Top.field + 1, Top.nested, Top.props,
              Top.required)
  BY <1>2, <1>4 DEF Halfway
<1>6. Shallow(program, Top.type, Top.field + 1, Len(stack))
  BY <1>2, <1>4 DEF Shallow
<1> HIDE DEF g
<1> QED
  BY <1>1, <1>3, <1>5, <1>6, WithinEncodes

LEMMA PutEncodes ==
  ASSUME ProgramsAreEncodable, IInv, Encoding, PutPlain \/ Refer PROVE Encoding'
<1>1. /\ AtField(SchemaUses) /\ stack # << >> /\ Encoded(Here)
      /\ UNCHANGED <<program, definitions>>
  BY DEF PutPlain, Refer, AtField
<1>2. /\ program \in Programs /\ Top \in Frames /\ Top.type \in Types
      /\ Top.field \in 1..Len(program.fields[Top.type]) /\ << >> \notin DOMAIN Top.props
      /\ Here = program.fields[Top.type][Top.field] /\ ~Embeds(Here) /\ Shown(Here)
      /\ Here \in Fields /\ Here.of \in Types /\ JSONName(Here) \in Names
      /\ JSONName(Here) = GoName(Here) /\ (IsStruct(Here) <=> IsObject(Here))
      /\ Len(stack) \in Nat \ {0} /\ Len(stack) <= MaxDepth
      /\ Halfway(program, TypeFields(program), Top.type, Top.field, Top.nested, Top.props,
                 Top.required)
      /\ Shallow(program, Top.type, Top.field, Len(stack))
  BY <1>1, AtFieldEncoding
<1> DEFINE sub == Leaf(IsList(Here), IF IsStruct(Here) THEN {NameOf(Here.of)} ELSE {})
           g == SetProp(Top, JSONName(Here), sub, Here.required)
<1>3. stack' = WithTop(g) /\ ~InPlace(program, Here, Top.nested)
  <2>1. CASE PutPlain
    BY <1>2, <2>1 DEF PutPlain, InPlace
  <2>2. CASE Refer
    BY <1>2, <2>2, ReferableIs DEF Refer
  <2> QED
    BY <2>1, <2>2
<1>4. sub \in Schemas /\ << >> \in DOMAIN sub
  <2>1. NameOf(Here.of) \in TypeNames
    BY <1>2, ProgIsTyped DEF NameOf
  <2> DEFINE refs == IF IsStruct(Here) THEN {NameOf(Here.of)} ELSE {}
  <2>2. refs \in SUBSET TypeNames /\ IsList(Here) \in BOOLEAN
    BY <2>1, ListIsBoolean
  <2> HIDE DEF refs
  <2>3. Leaf(IsList(Here), refs) \in Schemas /\ << >> \in DOMAIN Leaf(IsList(Here), refs)
    BY <2>2, LeafIsSchema
  <2> QED
    BY <2>3 DEF refs
<1>5. IsValue(program, TypeFields(program), sub, Here, Top.nested)
  BY <1>2, <1>3 DEF IsValue, NameOf
<1> HIDE DEF sub
<1>6. Here.required \in BOOLEAN
  BY <1>2, ShownIsNamed
<1>7. /\ g \in Frames /\ g.type = Top.type /\ g.use = Top.use /\ g.nested = Top.nested
      /\ g.field = Top.field + 1
  <2> DEFINE n == JSONName(Here)
             required == Here.required
  <2>1. n \in Names /\ required \in BOOLEAN /\ g = SetProp(Top, n, sub, required)
    BY <1>2, <1>6
  <2> HIDE DEF n, required, g
  <2> QED
    BY <1>2, <1>4, <2>1, SetPropIsFrame
<1>8. Halfway(program, TypeFields(program), Top.type, Top.field + 1, Top.nested, g.props,
              g.required)
  BY <1>2, <1>4, <1>5, PutIsHalfway
<1>9. Shallow(program, Top.type, Top.field + 1, Len(stack))
  <2> DEFINE i == Len(stack)
  <2>1. i \in Nat /\ i <= MaxDepth /\ Shallow(program, Top.type, Top.field, i)
    BY <1>2
  <2> HIDE DEF i
  <2>2. Shallow(program, Top.type, Top.field + 1, i)
    BY <1>2, <2>1, StaysShallow
  <2> QED
    BY <2>2 DEF i
<1> HIDE DEF g
<1> QED
  BY <1>1, <1>3, <1>7, <1>8, <1>9, WithinEncodes

LEMMA ParameterEncodes ==
  ASSUME IInv, Encoding, PutParameter PROVE Encoding'
<1> DEFINE g == [Top EXCEPT !.field = @ + 1]
<1>1. /\ AtField({"params"}) /\ stack' = WithTop(g) /\ stack # << >>
      /\ UNCHANGED <<program, definitions>>
  BY DEF PutParameter, AtField
<1>2. Top \in Frames /\ Top.use \in {"params"}
  BY <1>1, AtFieldFacts
<1>3. /\ g \in Frames /\ g.type = Top.type /\ g.use = Top.use /\ g.nested = Top.nested
  BY <1>2 DEF Frames
<1>4. g.use \notin SchemaUses
  BY <1>2, <1>3 DEF SchemaUses
<1> HIDE DEF g
<1> QED
  BY <1>1, <1>3, <1>4, WithinEncodes

-------------------------------------------------------------------------------
(* Returns *)

LEMMA OneLess ==
  ASSUME NEW n \in Nat, n > 1
  PROVE  n - 1 \in Nat \ {0} /\ n - 1 <= n /\ (n - 1) + 1 = n
OBVIOUS

\* The call on top returns to its caller, which moves past the field.
LEMMA ReturnEncodes ==
  ASSUME IInv, Encoding, Len(stack) > 1, NEW g \in Frames, stack' = BackTo(g),
         program' = program,
         g.type = Caller.type, g.use = Caller.use, g.nested = Caller.nested,
         g.use \in SchemaUses =>
           /\ Halfway(program, TypeFields(program), g.type, g.field, g.nested, g.props, g.required)
           /\ Shallow(program, g.type, g.field, Len(stack) - 1),
         DefinesRight(program, definitions')
  PROVE  Encoding'
<1> DEFINE k == Len(stack) - 1
<1>1. stack \in Seq(Frames) /\ Len(stack) \in Nat /\ Caller = stack[k]
  BY DEF IInv, Typed, Caller
<1>2. /\ Len(stack') = k /\ stack'[k] = g
      /\ \A i \in 1..k : i # k => stack'[i] = stack[i]
  BY <1>1, ReplacedCaller
<1>3. k \in Nat \ {0} /\ k <= Len(stack)
  BY <1>1, OneLess
<1>4. g.use \in SchemaUses =>
        /\ Halfway(program, TypeFields(program), g.type, g.field, g.nested, g.props, g.required)
        /\ Shallow(program, g.type, g.field, k)
  OBVIOUS
<1> HIDE DEF k
<1>5. g.type = stack[k].type /\ g.use = stack[k].use /\ g.nested = stack[k].nested
  BY <1>1
<1> QED
  BY <1>2, <1>3, <1>4, <1>5, MoveEncodes

\* What holds of the call on top and of its caller when it returns.
LEMMA AtEndEncoding ==
  ASSUME ProgramsAreEncodable, IInv, Encoding,
         NEW use \in {"embedded", "definition", "inline"}, AtEnd(use)
  PROVE  /\ program \in Programs /\ Len(stack) \in Nat /\ Len(stack) > 1 /\ Len(stack) <= MaxDepth
         /\ Top \in Frames /\ Top.use = use /\ Top.type \in Types /\ Top.nested \in BOOLEAN
         /\ << >> \notin DOMAIN Top.props
         /\ Top.field \in Nat /\ Top.field > Len(program.fields[Top.type])
         /\ Halfway(program, TypeFields(program), Top.type, Top.field, Top.nested, Top.props,
                    Top.required)
         /\ Shallow(program, Top.type, Top.field, Len(stack))
         /\ Caller \in Frames /\ Caller.type \in Types /\ Caller.nested \in BOOLEAN
         /\ << >> \notin DOMAIN Caller.props
         /\ Caller.field \in 1..Len(program.fields[Caller.type])
         /\ Halfway(program, TypeFields(program), Caller.type, Caller.field, Caller.nested,
                    Caller.props, Caller.required)
         /\ Shallow(program, Caller.type, Caller.field, Len(stack) - 1)
         /\ Asked = program.fields[Caller.type][Caller.field] /\ Asked \in Fields
         /\ Asks(program, Caller, Top)
<1>1. /\ Len(stack) > 1 /\ Len(stack) \in Nat /\ Top \in Frames /\ Top.use = use
      /\ << >> \notin DOMAIN Top.props
      /\ Caller = stack[Len(stack) - 1] /\ Caller \in Frames
      /\ Caller.field <= Len(FieldsOf(Caller.type)) /\ << >> \notin DOMAIN Caller.props
  BY NotAlone, AtEndFacts
<1>2. program \in Programs /\ Len(stack) <= MaxDepth
  BY DEF IInv, Typed
<1>3. /\ Top.type \in Types /\ Top.nested \in BOOLEAN /\ Top.field \in Nat \ {0}
      /\ Caller.type \in Types /\ Caller.nested \in BOOLEAN /\ Caller.field \in Nat \ {0}
  BY <1>1, FrameHasType
<1>4. Top.field > Len(program.fields[Top.type])
  BY DEF AtEnd, FieldsOf
<1>5. Len(program.fields[Caller.type]) \in Nat
  BY <1>2, <1>3, ProgIsTyped
<1>6. Caller.field \in 1..Len(program.fields[Caller.type])
  BY <1>1, <1>3, <1>5 DEF FieldsOf
<1>7. Asked = program.fields[Caller.type][Caller.field]
  BY DEF Asked, FieldsOf
<1>8. Asked \in Fields
  BY <1>2, <1>3, <1>6, <1>7, ProgIsTyped
<1>9. /\ Right(program, stack, Len(stack)) /\ Right(program, stack, Len(stack) - 1)
      /\ Top = stack[Len(stack)]
  BY <1>1 DEF Encoding, Top
<1>10. use \in SchemaUses /\ Len(stack) # 1
  BY <1>1 DEF SchemaUses
<1>11. /\ Halfway(program, TypeFields(program), Top.type, Top.field, Top.nested, Top.props,
                  Top.required)
       /\ Shallow(program, Top.type, Top.field, Len(stack))
       /\ Asks(program, Caller, Top) /\ Caller.use \in SchemaUses
  BY <1>1, <1>9, <1>10 DEF Right
<1>12. /\ Halfway(program, TypeFields(program), Caller.type, Caller.field, Caller.nested,
                  Caller.props, Caller.required)
       /\ Shallow(program, Caller.type, Caller.field, Len(stack) - 1)
  BY <1>1, <1>9, <1>11 DEF Right
<1> QED
  BY <1>1, <1>2, <1>3, <1>4, <1>6, <1>7, <1>8, <1>11, <1>12

LEMMA EmbeddedEncodes ==
  ASSUME ProgramsAreEncodable, IInv, Encoding, EndEmbedded PROVE Encoding'
<1> DEFINE mine == Caller.props
           theirs == Top.props
           props == Merged(mine, theirs)
           required == Caller.required \cup Top.required
           g == [ type |-> Caller.type, field |-> Caller.field + 1, use |-> Caller.use,
                  nested |-> Caller.nested, props |-> props, required |-> required ]
           k == Len(stack) - 1
<1>1. AtEnd("embedded") /\ UNCHANGED <<program, definitions>>
  BY DEF EndEmbedded
<1>2. /\ program \in Programs /\ Len(stack) \in Nat /\ Len(stack) > 1 /\ Len(stack) <= MaxDepth
      /\ Top \in Frames /\ Top.use = "embedded" /\ << >> \notin DOMAIN Top.props
      /\ Top.field \in Nat /\ Top.field > Len(program.fields[Top.type])
      /\ Halfway(program, TypeFields(program), Top.type, Top.field, Top.nested, Top.props,
                 Top.required)
      /\ Shallow(program, Top.type, Top.field, Len(stack))
      /\ Caller \in Frames /\ Caller.type \in Types /\ << >> \notin DOMAIN Caller.props
      /\ Caller.field \in 1..Len(program.fields[Caller.type])
      /\ Halfway(program, TypeFields(program), Caller.type, Caller.field, Caller.nested,
                 Caller.props, Caller.required)
      /\ Shallow(program, Caller.type, Caller.field, Len(stack) - 1)
      /\ Asked = program.fields[Caller.type][Caller.field] /\ Asked \in Fields
      /\ Asks(program, Caller, Top)
  BY <1>1, AtEndEncoding
<1>3. Top.type = Asked.of /\ Flattened(Asked) /\ Top.nested = Caller.nested
  BY <1>2 DEF Asks
<1>4. Embeds(Asked)
  BY <1>2, <1>3, FieldIsOneOf
<1>5. /\ Top.props \in Schemas /\ Top.required \in SUBSET Names
      /\ Caller.props \in Schemas /\ Caller.required \in SUBSET Names
      /\ Caller.field \in Nat \ {0} /\ Caller.use \in Uses /\ Caller.nested \in BOOLEAN
  BY <1>2, FrameHasType
<1>6. NoRivals(program)
  BY <1>2 DEF ProgramsAreEncodable, Encodable
<1>7. stack' = BackTo(g)
  <2>1. stack' = BackTo([Caller EXCEPT !.field = @ + 1, !.props = props, !.required = required])
    BY DEF EndEmbedded, Merged, Beside
  <2> HIDE DEF props, required
  <2> QED
    BY <1>2, <2>1, FrameWith
<1>8. k \in Nat \ {0} /\ k + 1 = Len(stack) /\ Shallow(program, Caller.type, Caller.field, k)
  BY <1>2, OneLess
<1> HIDE DEF k
<1>9. Shallow(program, Caller.type, Caller.field + 1, k)
  BY <1>2, <1>3, <1>4, <1>8, StaysShallowBehindEmbedded
<1>10. props \in Schemas
       /\ Halfway(program, TypeFields(program), Caller.type, Caller.field + 1, Caller.nested,
                  props, required)
  <2> DEFINE json == TypeFields(program)
             t == Caller.type
             at == Caller.field
             j == Top.field
             nested == Caller.nested
             needed == Top.required
             had == Caller.required
  <2>1. /\ t \in Types /\ at \in 1..Len(program.fields[t]) /\ Embeds(program.fields[t][at])
        /\ mine \in Schemas /\ << >> \notin DOMAIN mine
        /\ theirs \in Schemas /\ << >> \notin DOMAIN theirs
        /\ Halfway(program, json, t, at, nested, mine, had)
        /\ j \in Nat /\ j > Len(program.fields[program.fields[t][at].of])
        /\ Halfway(program, json, program.fields[t][at].of, j, nested, theirs, needed)
        /\ Shallow(program, t, at + 1, k)
    BY <1>2, <1>3, <1>4, <1>5, <1>9
  <2> HIDE DEF mine, theirs, json, t, at, j, nested, needed, had
  <2>2. props \in Schemas
    BY <2>1, MergeIs
  <2>3. program \in Programs /\ k \in Nat \ {0}
    BY <1>2, <1>8
  <2>4. Halfway(program, json, t, at + 1, nested, props, had \cup needed)
    BY <1>6, <2>1, <2>3, MergeIsHalfway
  <2> QED
    BY <2>2, <2>4 DEF json, t, at, nested, needed, had
<1> HIDE DEF mine, theirs, props, required
<1>11. /\ g \in Frames /\ g.type = Caller.type /\ g.use = Caller.use /\ g.nested = Caller.nested
       /\ g.field = Caller.field + 1 /\ g.props = props /\ g.required = required
  BY <1>2, <1>5, <1>10 DEF Frames, required
<1> HIDE DEF g
<1>12. DefinesRight(program, definitions')
  BY <1>1 DEF Encoding
<1> QED
  BY <1>1, <1>2, <1>7, <1>9, <1>10, <1>11, <1>12, ReturnEncodes DEF k

\* A call returns what its field's value is, which the caller keeps.
LEMMA ReturnPuts ==
  ASSUME ProgramsAreEncodable, IInv, Encoding,
         NEW use \in {"definition", "inline"}, AtEnd(use),
         NEW sub \in Schemas, << >> \in DOMAIN sub,
         IsValue(program, TypeFields(program), sub, Asked, Caller.nested),
         stack' = BackTo(SetProp(Caller, JSONName(Asked), sub, Asked.required)),
         program' = program, DefinesRight(program, definitions')
  PROVE  Encoding'
<1> DEFINE g == SetProp(Caller, JSONName(Asked), sub, Asked.required)
           k == Len(stack) - 1
<1>1. /\ program \in Programs /\ Len(stack) \in Nat /\ Len(stack) > 1 /\ Len(stack) <= MaxDepth
      /\ Top.use = use
      /\ Caller \in Frames /\ Caller.type \in Types /\ << >> \notin DOMAIN Caller.props
      /\ Caller.field \in 1..Len(program.fields[Caller.type])
      /\ Halfway(program, TypeFields(program), Caller.type, Caller.field, Caller.nested,
                 Caller.props, Caller.required)
      /\ Shallow(program, Caller.type, Caller.field, Len(stack) - 1)
      /\ Asked = program.fields[Caller.type][Caller.field] /\ Asked \in Fields
      /\ Asks(program, Caller, Top)
  BY AtEndEncoding
<1>2. Encoded(Asked)
  BY <1>1 DEF Asks
<1>3. ~Embeds(Asked) /\ Shown(Asked) /\ JSONName(Asked) = GoName(Asked)
  BY <1>1, <1>2, FieldIsOneOf
<1>4. JSONName(Asked) \in Names /\ Asked.required \in BOOLEAN
  BY <1>1, <1>3, ShownIsNamed
<1>5. /\ g \in Frames /\ g.type = Caller.type /\ g.use = Caller.use /\ g.nested = Caller.nested
      /\ g.field = Caller.field + 1
  <2> DEFINE n == JSONName(Asked)
             required == Asked.required
  <2>1. n \in Names /\ required \in BOOLEAN /\ g = SetProp(Caller, n, sub, required)
    BY <1>4
  <2> HIDE DEF n, required, g
  <2> QED
    BY <1>1, <2>1, SetPropIsFrame
<1>6. Halfway(program, TypeFields(program), Caller.type, Caller.field + 1, Caller.nested,
              g.props, g.required)
  BY <1>1, <1>3, PutIsHalfway
<1>7. k \in Nat /\ k <= MaxDepth /\ Shallow(program, Caller.type, Caller.field, k)
  <2>1. k \in Nat /\ k <= Len(stack)
    BY <1>1, OneLess
  <2> HIDE DEF k
  <2>2. k <= MaxDepth
    BY <1>1, <2>1, SchemaAssumption
  <2> QED
    BY <1>1, <2>1, <2>2 DEF k
<1> HIDE DEF k
<1>8. Shallow(program, Caller.type, Caller.field + 1, k)
  BY <1>1, <1>3, <1>7, StaysShallow
<1>9. stack' = BackTo(g)
  OBVIOUS
<1> HIDE DEF g
<1> QED
  BY <1>1, <1>5, <1>6, <1>8, <1>9, ReturnEncodes DEF k

LEMMA InlineEncodes ==
  ASSUME ProgramsAreEncodable, IInv, Encoding, EndInline PROVE Encoding'
<1> DEFINE sub == Result(Top, IsList(Asked))
           nested == FALSE
<1>1. /\ AtEnd("inline") /\ UNCHANGED <<program, definitions>>
      /\ stack' = BackTo(SetProp(Caller, JSONName(Asked), sub, Asked.required))
  BY DEF EndInline
<1>2. /\ program \in Programs /\ Len(stack) \in Nat /\ Len(stack) > 1
      /\ Top \in Frames /\ Top.use = "inline" /\ << >> \notin DOMAIN Top.props
      /\ Top.field > Len(program.fields[Top.type])
      /\ Halfway(program, TypeFields(program), Top.type, Top.field, Top.nested, Top.props,
                 Top.required)
      /\ Shallow(program, Top.type, Top.field, Len(stack))
      /\ Asked = program.fields[Caller.type][Caller.field]
      /\ Asks(program, Caller, Top)
  BY <1>1, AtEndEncoding
<1>3. /\ Top.type = Asked.of /\ Top.nested = nested
      /\ InPlace(program, Asked, Caller.nested)
  BY <1>2 DEF Asks
<1>4. sub \in Schemas /\ << >> \in DOMAIN sub
  BY <1>2, ListIsBoolean, ResultIsSchema
<1> HIDE DEF nested
<1>5. Encodes(program, TypeFields(program), sub, Top.type, IsList(Asked), Top.nested)
  <2> DEFINE i == Len(stack)
  <2>1. i \in Nat \ {0} /\ Shallow(program, Top.type, Top.field, i)
    BY <1>2
  <2> HIDE DEF i
  <2> QED
    BY <1>2, <2>1, ResultEncodes
<1> HIDE DEF sub
<1>6. Encodes(program, TypeFields(program), sub, Asked.of, IsList(Asked), nested)
  BY <1>3, <1>5
<1>7. IsValue(program, TypeFields(program), sub, Asked, Caller.nested)
  BY <1>3, <1>4, <1>6 DEF IsValue, nested
<1>8. DefinesRight(program, definitions')
  BY <1>1 DEF Encoding
<1> QED
  BY <1>1, <1>4, <1>7, <1>8, ReturnPuts DEF sub

\* A definition of a type with a name disturbs no other type's.
LEMMA DefinesMore ==
  ASSUME ProgramsAreEncodable, program \in Programs, definitions \in Documents,
         DefinesRight(program, definitions),
         NEW t \in Types, program.name[t] # "", NEW schema \in Schemas,
         Encodes(program, TypeFields(program), schema, t, FALSE, TRUE),
         definitions' = Defined(NameOf(t), schema)
  PROVE  DefinesRight(program, definitions')
<1> DEFINE name == program.name[t]
           defs == Defined(NameOf(t), schema)
<1>1. name \in TypeNames /\ name = NameOf(t)
  BY ProgIsTyped DEF NameOf
<1>2. /\ DOMAIN defs = DOMAIN definitions \cup {name} /\ defs[name] = schema
      /\ \A n \in DOMAIN definitions : n # name => defs[n] = definitions[n]
  <2>1. defs = Defined(name, schema)
    BY <1>1
  <2> HIDE DEF name, defs
  <2> QED
    BY <1>1, <2>1, DefinedIsDocument
<1>3. Encodable(program)
  BY DEF ProgramsAreEncodable
<1>4. \A u \in Types : program.name[u] = name => u = t
  BY <1>3 DEF Encodable
<1>5. name # ""
  OBVIOUS
<1> HIDE DEF name, defs
<1>6. ASSUME NEW n \in DOMAIN defs, NEW u \in Types, program.name[u] = n
      PROVE  Encodes(program, TypeFields(program), defs[n], u, FALSE, TRUE)
  <2>1. CASE n = name
    <3>1. u = t /\ defs[n] = schema
      BY <1>2, <1>4, <1>6, <2>1
    <3> QED
      BY <3>1
  <2>2. CASE n # name
    <3>1. n \in DOMAIN definitions /\ defs[n] = definitions[n]
      BY <1>2, <2>2
    <3>2. Encodes(program, TypeFields(program), definitions[n], u, FALSE, TRUE)
      BY <1>6, <3>1 DEF DefinesRight
    <3> QED
      BY <3>1, <3>2
  <2> QED
    BY <2>1, <2>2
<1>7. "" \notin DOMAIN defs
  BY <1>2, <1>5 DEF DefinesRight
<1>8. DefinesRight(program, defs)
  BY <1>6, <1>7 DEF DefinesRight
<1> QED
  BY <1>8 DEF defs

LEMMA DefinitionEncodes ==
  ASSUME ProgramsAreEncodable, IInv, Encoding, EndDefinition PROVE Encoding'
<1> DEFINE schema == Result(Top, FALSE)
           sub == Leaf(IsList(Asked), {NameOf(Top.type)})
           nested == TRUE
           list == FALSE
<1>1. /\ AtEnd("definition") /\ program' = program
      /\ definitions' = Defined(NameOf(Top.type), schema)
      /\ stack' = BackTo(SetProp(Caller, JSONName(Asked), sub, Asked.required))
  BY DEF EndDefinition
<1>2. /\ program \in Programs /\ Len(stack) \in Nat /\ Len(stack) > 1
      /\ Top \in Frames /\ Top.use = "definition" /\ Top.type \in Types
      /\ << >> \notin DOMAIN Top.props /\ Top.field > Len(program.fields[Top.type])
      /\ Halfway(program, TypeFields(program), Top.type, Top.field, Top.nested, Top.props,
                 Top.required)
      /\ Shallow(program, Top.type, Top.field, Len(stack))
      /\ Asks(program, Caller, Top)
      /\ Asked = program.fields[Caller.type][Caller.field]
  BY <1>1, AtEndEncoding
<1>3. /\ Top.type = Asked.of /\ Top.nested = nested /\ IsObject(Asked)
      /\ ~InPlace(program, Asked, Caller.nested)
  BY <1>2 DEF Asks
<1>4. program.name[Top.type] # ""
  BY <1>3 DEF InPlace
<1>5. schema \in Schemas
  BY <1>2, ResultIsSchema
<1> HIDE DEF nested
<1>6. Encodes(program, TypeFields(program), schema, Top.type, list, Top.nested)
  <2> DEFINE i == Len(stack)
  <2>1. i \in Nat \ {0} /\ Shallow(program, Top.type, Top.field, i)
    BY <1>2
  <2>2. schema = Result(Top, list)
    OBVIOUS
  <2> HIDE DEF i, list, schema
  <2> QED
    BY <1>2, <2>1, <2>2, ResultEncodes
<1>7. Encodes(program, TypeFields(program), schema, Top.type, list, nested)
  BY <1>3, <1>6
<1>8. definitions \in Documents /\ DefinesRight(program, definitions)
  BY DEF IInv, Typed, Encoding
<1> HIDE DEF schema
<1>9. Encodes(program, TypeFields(program), schema, Top.type, FALSE, TRUE)
  BY <1>7 DEF nested, list
<1>10. DefinesRight(program, definitions')
  BY <1>1, <1>2, <1>4, <1>5, <1>8, <1>9, DefinesMore
<1>11. sub \in Schemas /\ << >> \in DOMAIN sub
  <2>1. {NameOf(Top.type)} \in SUBSET TypeNames
    BY <1>2, ProgIsTyped DEF NameOf
  <2> QED
    BY <2>1, ListIsBoolean, LeafIsSchema
<1>12. IsValue(program, TypeFields(program), sub, Asked, Caller.nested)
  BY <1>3 DEF IsValue, NameOf
<1> HIDE DEF sub
<1> QED
  BY <1>1, <1>10, <1>11, <1>12, ReturnPuts DEF sub

\* A part's own call defines its type once more.
LEMMA RootEncodes ==
  ASSUME ProgramsAreEncodable, IInv, Encoding, EndRoot PROVE Encoding'
<1> DEFINE schema == Result(Top, FALSE)
           nested == TRUE
           list == FALSE
<1>1. /\ AtEnd("root") /\ program' = program /\ stack' = Callers
      /\ definitions' = Defined(NameOf(Top.type), schema)
  BY DEF EndRoot
<1>2. /\ stack \in Seq(Frames) /\ stack # << >> /\ program \in Programs /\ Top.use = "root"
      /\ definitions \in Documents /\ DefinesRight(program, definitions)
  BY <1>1 DEF AtEnd, IInv, Typed, Encoding
<1>3. Len(stack) \in Nat \ {0} /\ Top = stack[Len(stack)] /\ Top \in Frames
  BY <1>2, TopIsTyped
<1>4. Fits(stack, Len(stack)) /\ Right(program, stack, Len(stack))
  BY <1>3 DEF IInv, Stacked, Encoding
<1>5. Len(stack) = 1 /\ << >> \notin DOMAIN Top.props
  BY <1>2, <1>3, <1>4 DEF Fits
<1>6. /\ Halfway(program, TypeFields(program), Top.type, Top.field, Top.nested, Top.props,
                 Top.required)
      /\ Shallow(program, Top.type, Top.field, 1) /\ Roots(program, Top)
  BY <1>2, <1>3, <1>4, <1>5 DEF Right, SchemaUses
<1>7. Top.type \in Types /\ Top.nested \in BOOLEAN /\ Top.field > Len(program.fields[Top.type])
  BY <1>1, <1>3, FrameHasType DEF AtEnd, FieldsOf
<1>8. Top.nested = nested /\ program.name[Top.type] # ""
  BY <1>6, <1>7 DEF Roots
<1>9. schema \in Schemas
  BY <1>3, <1>5, ResultIsSchema
<1> HIDE DEF nested
<1>10. Encodes(program, TypeFields(program), schema, Top.type, list, Top.nested)
  <2> DEFINE i == 1
  <2>1. i \in Nat \ {0} /\ Shallow(program, Top.type, Top.field, i)
    BY <1>6
  <2>2. schema = Result(Top, list)
    OBVIOUS
  <2> HIDE DEF i, list, schema
  <2> QED
    BY <1>2, <1>3, <1>5, <1>6, <1>7, <2>1, <2>2, ResultEncodes
<1>11. Encodes(program, TypeFields(program), schema, Top.type, list, nested)
  BY <1>8, <1>10
<1> HIDE DEF schema
<1>12. Encodes(program, TypeFields(program), schema, Top.type, FALSE, TRUE)
  BY <1>11 DEF nested, list
<1>13. DefinesRight(program, definitions')
  BY <1>1, <1>2, <1>7, <1>8, <1>9, <1>12, DefinesMore
<1>14. stack' = << >>
  BY <1>1, <1>2, <1>5 DEF Callers
<1>15. \A i \in 1..Len(stack') : Right(program', stack', i)
  BY <1>14
<1>16. DefinesRight(program', definitions')
  BY <1>1, <1>13
<1> QED
  BY <1>15, <1>16 DEF Encoding

LEMMA ParamsEncode ==
  ASSUME IInv, Encoding, EndParams PROVE Encoding'
<1>1. /\ AtEnd("params") /\ stack # << >> /\ UNCHANGED <<program, definitions>>
  BY DEF EndParams, AtEnd
<1>2. stack \in Seq(Frames) /\ DefinesRight(program, definitions)
  BY DEF IInv, Typed, Encoding
<1>3. Len(stack) \in Nat \ {0} /\ Top = stack[Len(stack)]
  BY <1>1, <1>2, TopIsTyped
<1>4. CASE Len(stack) = 1
  <2>1. stack' = << >>
    BY <1>4 DEF EndParams
  <2>2. \A i \in 1..Len(stack') : Right(program', stack', i)
    BY <2>1
  <2>3. DefinesRight(program', definitions')
    BY <1>1, <1>2
  <2> QED
    BY <2>2, <2>3 DEF Encoding
<1>5. CASE Len(stack) # 1
  <2> DEFINE g == [Caller EXCEPT !.field = @ + 1]
  <2>1. Len(stack) > 1
    BY <1>3, <1>5
  <2>2. stack' = BackTo(g)
    BY <1>5 DEF EndParams
  <2>3. Top.use = "params" /\ Caller = stack[Len(stack) - 1] /\ Caller \in Frames
    BY <1>1, <2>1, AtEndFacts
  <2>4. g \in Frames /\ g.type = Caller.type /\ g.use = Caller.use /\ g.nested = Caller.nested
    BY <2>3 DEF Frames
  <2>5. Right(program, stack, Len(stack))
    BY <1>3 DEF Encoding
  <2> HIDE DEF g
  <2>6. g.use \notin SchemaUses
    BY <1>3, <1>5, <2>3, <2>4, <2>5 DEF Right, SchemaUses
  <2>7. DefinesRight(program, definitions')
    BY <1>1, <1>2
  <2> QED
    BY <1>1, <2>1, <2>2, <2>4, <2>6, <2>7, ReturnEncodes
<1> QED
  BY <1>4, <1>5

LEMMA NextEncodes ==
  ASSUME ProgramsAreEncodable, IInv, Encoding, [Next]_vars PROVE Encoding'
<1>1. CASE UNCHANGED <<program, stack, definitions>>
  <2>1. /\ \A i \in 1..Len(stack) : Right(program, stack, i)
        /\ DefinesRight(program, definitions)
    BY DEF Encoding
  <2>2. \A i \in 1..Len(stack') : Right(program', stack', i)
    BY <1>1, <2>1
  <2>3. DefinesRight(program', definitions')
    BY <1>1, <2>1
  <2> QED
    BY <2>2, <2>3 DEF Encoding
<1>2. Serve \/ UNCHANGED vars => UNCHANGED <<program, stack, definitions>>
  BY DEF Serve, vars
<1> QED
  BY <1>1, <1>2, VisitEncodes, RootEncodes, PromoteEncodes, SkipEncodes, PutEncodes,
     DefineOrInlineEncodes, EmbeddedEncodes, DefinitionEncodes, InlineEncodes,
     ParameterEncodes, ParamsEncode DEF Next

\* Whenever no call is running, every definition in the document is the object
\* its type is encoded as, members, required fields and references alike, in
\* whatever order types were met, promoted and inlined; for programs that
\* encoding/json and the generator see alike (swagger/generator.go:437: "This
\* matches Go's JSON marshaling behavior where embedded struct fields are
\* promoted").
THEOREM DefinitionsEncode ==
  ASSUME ProgramsAreEncodable
  PROVE  Spec => []DefinitionsAreEncodings
<1>1. Init => Encoding
  BY InitEncodes
<1>2. IInv /\ Encoding => DefinitionsAreEncodings
  BY DEF Encoding, DefinesRight, DefinitionsAreEncodings, NameOf
<1>3. IInv /\ Encoding /\ [Next]_vars => Encoding'
  BY NextEncodes
<1> QED
  BY <1>1, <1>2, <1>3, InvariantHolds, PTL DEF Spec
===============================================================================
