---------------------------- MODULE Registry_proofs ----------------------------
(***************************************************************************)
(* Safety of Registry, for any declarations, any number of documents and   *)
(* any routing tree.                                                       *)
(***************************************************************************)
EXTENDS Registry, FiniteSetTheorems, SequenceTheorems, WellFoundedInduction, TLAPS

-------------------------------------------------------------------------------
(* The last of some indexes *)

LEMMA LastIsThere ==
  ASSUME NEW n \in Nat, NEW I, I \subseteq 1..n, I # {}
  PROVE  LastOf(I) \in I /\ \A j \in I : j <= LastOf(I)
<1> DEFINE Less == OpToRel(<, Nat)
           T == {n - i : i \in I}
<1>1. T \subseteq Nat /\ T # {}
  <2>1. \A i \in I : n - i \in Nat OBVIOUS
  <2> QED BY <2>1, Zenon
<1>2. \A x, y \in Nat : y < x => <<y, x>> \in Less BY DEF OpToRel
<1>3. IsWellFoundedOn(Less, Nat) BY NatLessThanWellFounded
<1> HIDE DEF Less, T
<1>4. PICK x \in T : \A y \in T : ~(<<y, x>> \in Less) BY <1>1, <1>3, WFMin, Zenon
<1>5. PICK i \in I : x = n - i BY DEF T
<1>6. ASSUME NEW j \in I PROVE j <= i
  <2>1. n - j \in T BY DEF T
  <2>2. ~(n - j < x) BY <2>1, <1>1, <1>2, <1>4
  <2> QED BY <2>2, <1>5
<1> QED BY <1>6, Zenon DEF LastOf

-------------------------------------------------------------------------------
(* The lock and the slice it protects *)

\* Each kind of call goes its own way.
Places ==
  /\ \A d \in Declarations : pc[d] \in {"idle", "lock", "append", "made"}
  /\ pc[Binder] \in {"idle", "bind", "bound"}
  /\ \A s \in Requests : pc[s] \in {"idle", "rlock", "generate", "replied"}

Types ==
  /\ pc \in [Procs -> {"idle", "lock", "append", "made", "bind", "bound",
                       "rlock", "generate", "replied"}]
  /\ Places
  /\ routes \in Seq(Declarations)
  /\ slice \in [Procs -> Seq(Declarations)]
  /\ next \in Nat
  /\ todo \in [Requests -> SUBSET DOMAIN Node]
  /\ known \in [Requests -> Nat]
  /\ DOMAIN ops = Requests /\ DOMAIN defs = Requests

\* At most one call is between the two halves of an append, and what it has
\* read is still what there is.
Locked ==
  /\ writer \subseteq Declarations
  /\ readers = IF pc[Binder] = "bind" THEN {Binder} ELSE {}
  /\ \A d \in Declarations : pc[d] = "append" <=> d \in writer
  /\ \A d, e \in writer : d = e
  /\ \A d \in writer : slice[d] = routes

\* The calls that have returned, each once.
Kept ==
  /\ \A d \in Declarations : pc[d] = "made" <=> \E i \in 1..Len(routes) : routes[i] = d
  /\ \A i, j \in 1..Len(routes) : routes[i] = routes[j] => i = j

Guarded == Types /\ Locked /\ Kept

\* Routes are only ever added, at the end.
Grows ==
  /\ Len(routes) <= Len(routes')
  /\ \A i \in 1..Len(routes) : routes'[i] = routes[i]

LEMMA Distinct ==
  /\ \A d \in Declarations : d \in Procs /\ d # Binder /\ d \notin Requests
  /\ \A s \in Requests : s \in Procs /\ s # Binder /\ s \notin Declarations
  /\ Binder \in Procs
BY RegistryAssumption DEF Procs

LEMMA InitGuarded == Init => Guarded
<1> SUFFICES ASSUME Init PROVE Guarded OBVIOUS
<1>1. Types
  <2>1. << >> \in Seq(Declarations) OBVIOUS
  <2> QED BY <2>1, Distinct DEF Init, Types, Places
<1>2. Locked BY Distinct DEF Init, Locked
<1>3. Kept BY Distinct DEF Init, Kept
<1> QED BY <1>1, <1>2, <1>3 DEF Guarded

LEMMA MakeHandlerGuarded ==
  ASSUME Guarded, NEW d \in Declarations, MakeHandler(d)
  PROVE  Guarded' /\ Grows
BY Distinct DEF Guarded, Types, Places, Locked, Kept, Grows, MakeHandler, Go, lock, doc

LEMMA ReadRoutesGuarded ==
  ASSUME Guarded, NEW d \in Declarations, ReadRoutes(d)
  PROVE  Guarded' /\ Grows
<1>1. Types' BY Distinct DEF Guarded, Types, Places, ReadRoutes, Go, doc
<1>2. Locked' BY Distinct DEF Guarded, Types, Places, Locked, ReadRoutes, Lock, Go
<1>3. Kept' BY Distinct DEF Guarded, Types, Places, Kept, ReadRoutes, Go
<1> QED BY <1>1, <1>2, <1>3 DEF Guarded, Types, Grows, ReadRoutes

LEMMA AppendRouteGuarded ==
  ASSUME Guarded, NEW d \in Declarations, AppendRoute(d)
  PROVE  Guarded' /\ Grows
<1> USE Distinct DEF Guarded, Go
<1>1. pc[d] = "append" /\ d \in writer /\ slice[d] = routes BY DEF Locked, AppendRoute
<1>2. routes' = Append(routes, d) BY <1>1 DEF AppendRoute
<1>3. /\ routes' \in Seq(Declarations) /\ Len(routes') = Len(routes) + 1
      /\ \A i \in 1..Len(routes) : routes'[i] = routes[i]
      /\ routes'[Len(routes) + 1] = d /\ Len(routes) \in Nat
  BY <1>2 DEF Types
<1>4. Types'
  <2>1. << >> \in Seq(Declarations) OBVIOUS
  <2> QED BY <1>3, <2>1 DEF Types, Places, AppendRoute, doc
<1>5. Locked' BY <1>1 DEF Types, Places, Locked, AppendRoute, Unlock
<1>6. \A i \in 1..Len(routes) : routes[i] # d BY <1>1 DEF Kept
<1>7. Kept' BY <1>1, <1>3, <1>6 DEF Types, Places, Kept, AppendRoute
<1> QED BY <1>3, <1>4, <1>5, <1>7 DEF Grows

\* RegisterWithRouter and the documents write nothing that the lock protects.
LEMMA BinderGuarded ==
  ASSUME Guarded, BeginBinding \/ BindRoute \/ EndBinding
  PROVE  Guarded' /\ Grows
<1> USE Distinct DEF Guarded, Go
<1>1. CASE BeginBinding
  <2>1. Types' BY <1>1 DEF Types, Places, BeginBinding, doc
  <2>2. Locked' BY <1>1 DEF Types, Places, Locked, BeginBinding, RLock
  <2>3. Kept' BY <1>1 DEF Types, Kept, BeginBinding
  <2> QED BY <1>1, <2>1, <2>2, <2>3 DEF Types, Grows, BeginBinding
<1>2. CASE BindRoute
  <2>1. Types' BY <1>2 DEF Types, Places, BindRoute, doc
  <2>2. Locked' /\ Kept' BY <1>2 DEF Types, Locked, Kept, BindRoute, lock
  <2> QED BY <1>2, <2>1, <2>2 DEF Types, Grows, BindRoute
<1>3. CASE EndBinding
  <2>0. << >> \in Seq(Declarations) OBVIOUS
  <2>1. Types' BY <1>3, <2>0 DEF Types, Places, EndBinding, doc
  <2>2. Locked' BY <1>3 DEF Types, Places, Locked, EndBinding, Unlock
  <2>3. Kept' BY <1>3 DEF Types, Kept, EndBinding
  <2> QED BY <1>3, <2>1, <2>2, <2>3 DEF Types, Grows, EndBinding
<1> QED BY <1>1, <1>2, <1>3

LEMMA DocumentGuarded ==
  ASSUME Guarded, NEW s \in Requests,
         Ask(s) \/ GetRoutes(s) \/ Reply(s) \/ \E path \in DOMAIN Node : GeneratePath(s, path)
  PROVE  Guarded' /\ Grows
<1> USE Distinct DEF Guarded, Go
<1>1. UNCHANGED <<writer, readers, routes>> /\ \A p \in Procs \ {s} : pc'[p] = pc[p] /\ slice'[p] = slice[p]
  BY DEF Types, Ask, GetRoutes, Reply, GeneratePath, lock, doc
<1>2. Types'
  <2>1. CASE Ask(s) BY <2>1 DEF Types, Places, Ask
  <2>2. CASE GetRoutes(s)
    <3>1. {Route[routes[i]].path : i \in DOMAIN routes} \subseteq DOMAIN Node
      BY RegistryAssumption DEF Types
    <3> QED BY <2>2, <3>1 DEF Types, Places, GetRoutes
  <2>3. CASE Reply(s) BY <2>3 DEF Types, Places, Reply, doc
  <2>4. ASSUME NEW path \in DOMAIN Node, GeneratePath(s, path) PROVE Types'
    BY <2>4 DEF Types, Places, GeneratePath
  <2> QED BY <2>1, <2>2, <2>3, <2>4
<1>3. \A p \in Declarations \cup {Binder} : p \in Procs \ {s} /\ pc'[p] = pc[p] /\ slice'[p] = slice[p]
  BY <1>1
<1>4. Locked' BY <1>1, <1>3 DEF Locked
<1>5. Kept' BY <1>1, <1>3 DEF Types, Kept
<1> QED BY <1>1, <1>2, <1>4, <1>5 DEF Types, Grows

LEMMA NextGuarded == Guarded /\ [Next]_vars => Guarded' /\ Grows
<1> SUFFICES ASSUME Guarded, [Next]_vars PROVE Guarded' /\ Grows OBVIOUS
<1>1. CASE UNCHANGED vars
  BY <1>1 DEF Guarded, Types, Places, Locked, Kept, Grows, vars, lock, doc
<1> QED BY <1>1, MakeHandlerGuarded, ReadRoutesGuarded, AppendRouteGuarded, BinderGuarded, DocumentGuarded
           DEF Next, Making, Binding, Replying

LEMMA GuardedInvariant == Spec => []Guarded
BY InitGuarded, NextGuarded, PTL DEF Spec

\* A declaration that has returned stays in the registry, once
\* (handler/types.go:144-152).
THEOREM RoutesAreKept == Spec => []NoRouteLost
<1>1. ASSUME Guarded, NEW d \in Declarations, pc[d] = "made"
      PROVE  Cardinality({i \in DOMAIN routes : routes[i] = d}) = 1
  <2>1. PICK i \in 1..Len(routes) : routes[i] = d BY <1>1 DEF Guarded, Kept
  <2>2. {j \in DOMAIN routes : routes[j] = d} = {i} BY <1>1, <2>1 DEF Guarded, Types, Kept
  <2> QED BY <2>2, FS_Singleton
<1>2. Guarded => NoRouteLost BY <1>1 DEF NoRouteLost
<1> QED BY <1>2, GuardedInvariant, PTL

-------------------------------------------------------------------------------
(* What RegisterWithRouter and the documents copied, and what became of it *)

\* A copy of the routes is an initial segment of them for good.
CopyOf(p) ==
  /\ Len(slice[p]) <= Len(routes)
  /\ \A i \in 1..Len(slice[p]) : slice[p][i] = routes[i]

Bindings ==
  /\ CopyOf(Binder)
  /\ next <= Len(routes)
  /\ pc[Binder] = "bind" => next <= Len(slice[Binder])

\* A document has all the routes there were when it was asked for.
Answer(s) ==
  /\ CopyOf(s)
  /\ known[s] <= Len(routes)
  /\ pc[s] \in {"generate", "replied"} => known[s] <= Len(slice[s])
  /\ pc[s] \in {"idle", "rlock"} => slice[s] = << >>
  /\ pc[s] = "replied" => todo[s] = {}

Copies == Bindings /\ \A s \in Requests : Answer(s)

\* The i-th route has a handler to bind at k.
Binds(i, k) ==
  LET r == Route[routes[i]]
  IN  r.exact /\ r.verb \in Verbs /\ k = <<r.verb, Node[r.path]>>

\* At each node of the router is the last of the routes bound to it.
Served ==
  /\ router = [k \in DOMAIN router |-> router[k]]
  /\ \A k \in DOMAIN router : \E i \in 1..next :
       /\ Binds(i, k) /\ router[k] = routes[i]
       /\ \A j \in 1..next : Binds(j, k) => j <= i

\* The i-th route a document is made from has the path and verb k.
Spelled(s, i, k) == Route[slice[s][i]].path = k[1] /\ Route[slice[s][i]].verb = k[2]

\* The paths done have their operations, each that of the last route.
Documents(s) ==
  /\ ops[s] = [k \in DOMAIN ops[s] |-> ops[s][k]]
  /\ DOMAIN ops[s] \subseteq (DOMAIN Node) \X Verbs
  /\ \A k \in (DOMAIN Node) \X Verbs :
       k \in DOMAIN ops[s] <=> k[1] \notin todo[s] /\ \E i \in 1..Len(slice[s]) : Spelled(s, i, k)
  /\ \A k \in DOMAIN ops[s] : \E i \in 1..Len(slice[s]) :
       /\ Spelled(s, i, k) /\ ops[s][k] = slice[s][i]
       /\ \A j \in 1..Len(slice[s]) : Spelled(s, j, k) => j <= i

\* The body's type of the i-th of some routes has the name n.
Named(rs, i, n) == SchemaName(rs[i]) = n

\* Of the routes of its path, it is the last with the name.
Final(rs, i, n) ==
  /\ Named(rs, i, n)
  /\ \A j \in 1..Len(rs) : Named(rs, j, n) /\ Route[rs[j]].path = Route[rs[i]].path => j <= i

\* And their schemas, each that of the last route of some path.
SchemasOf(rs, left, definitions) ==
  /\ definitions = [n \in DOMAIN definitions |-> definitions[n]]
  /\ \A n : n \in DOMAIN definitions <=>
       n # "" /\ \E i \in 1..Len(rs) : Named(rs, i, n) /\ Route[rs[i]].path \notin left
  /\ \A n \in DOMAIN definitions : \E i \in 1..Len(rs) :
       Final(rs, i, n) /\ definitions[n] = Route[rs[i]].body
Schemas(s) == SchemasOf(slice[s], todo[s], defs[s])

IInv == Guarded /\ Copies /\ Served /\ \A s \in Requests : Documents(s) /\ Schemas(s)

LEMMA Lengths ==
  ASSUME Types
  PROVE  /\ Len(routes) \in Nat /\ DOMAIN routes = 1..Len(routes)
         /\ \A i \in 1..Len(routes) : routes[i] \in Declarations
         /\ \A p \in Procs : /\ Len(slice[p]) \in Nat /\ DOMAIN slice[p] = 1..Len(slice[p])
                             /\ \A i \in 1..Len(slice[p]) : slice[p][i] \in Declarations
BY DEF Types

LEMMA CopyKept ==
  ASSUME Types, Types', Grows, NEW p \in Procs, CopyOf(p), slice'[p] = slice[p]
  PROVE  CopyOf(p)'
<1>1. Len(slice[p]) \in Nat /\ Len(routes) \in Nat /\ Len(routes') \in Nat BY DEF Types
<1> QED BY <1>1 DEF Grows, CopyOf

LEMMA NewCopy ==
  ASSUME Types, NEW p, slice'[p] \in {routes, << >>}, UNCHANGED routes
  PROVE  CopyOf(p)'
BY Lengths DEF CopyOf

\* What leaves a call's place and copy alone leaves all that was said of it.
LEMMA AnswerKept ==
  ASSUME Types, Types', Grows, NEW s \in Requests, Answer(s),
         pc'[s] = pc[s], slice'[s] = slice[s], known'[s] = known[s], todo'[s] = todo[s]
  PROVE  Answer(s)'
<1>1. CopyOf(s)' BY CopyKept, Distinct DEF Answer
<1>2. Len(routes) \in Nat /\ Len(routes') \in Nat /\ known[s] \in Nat BY DEF Types
<1>3. known'[s] <= Len(routes') BY <1>2 DEF Grows, Answer
<1> QED BY <1>1, <1>3 DEF Answer

LEMMA BindingsKept ==
  ASSUME Types, Types', Grows, Bindings, UNCHANGED next,
         pc'[Binder] = pc[Binder], slice'[Binder] = slice[Binder]
  PROVE  Bindings'
<1>1. CopyOf(Binder)' BY CopyKept, Distinct DEF Bindings
<1>2. Len(routes) \in Nat /\ Len(routes') \in Nat /\ next \in Nat BY DEF Types
<1>3. next' <= Len(routes') BY <1>2 DEF Grows, Bindings
<1> QED BY <1>1, <1>3 DEF Bindings

LEMMA NextCopies == ASSUME Guarded, Guarded', Grows, Copies, [Next]_vars PROVE Copies'
<1>0. Types /\ Types' /\ Bindings /\ \A s \in Requests : Answer(s) BY DEF Guarded, Copies
<1>1. ASSUME UNCHANGED <<next, known, todo>>,
             \A p \in Requests \cup {Binder} : pc'[p] = pc[p] /\ slice'[p] = slice[p]
      PROVE  Copies'
  BY <1>0, <1>1, AnswerKept, BindingsKept DEF Copies
<1>2. ASSUME NEW d \in Declarations, MakeHandler(d) \/ ReadRoutes(d) \/ AppendRoute(d) PROVE Copies'
  <2>1. UNCHANGED <<next, known, todo>>
    BY <1>2 DEF MakeHandler, ReadRoutes, AppendRoute, doc
  <2>2. \A p \in Procs : p # d => pc'[p] = pc[p] /\ slice'[p] = slice[p]
    BY <1>0, <1>2 DEF MakeHandler, ReadRoutes, AppendRoute, Go, Types
  <2>3. \A p \in Requests \cup {Binder} : pc'[p] = pc[p] /\ slice'[p] = slice[p]
    BY <2>2, Distinct
  <2> QED BY <2>1, <2>3, <1>1
<1>3. CASE BeginBinding \/ BindRoute \/ EndBinding
  <2>1. /\ UNCHANGED <<known, todo, routes>>
        /\ \A s \in Requests : pc'[s] = pc[s] /\ slice'[s] = slice[s]
    BY <1>0, <1>3, Distinct DEF BeginBinding, BindRoute, EndBinding, Go, Types, doc
  <2>2. \A s \in Requests : Answer(s)' BY <1>0, <2>1, AnswerKept
  <2>3. CASE BeginBinding
    <3>1. slice'[Binder] = routes /\ next' = next /\ routes' = routes
      BY <1>0, <2>3, Distinct DEF BeginBinding, Types
    <3>2. CopyOf(Binder)' BY <1>0, <3>1, NewCopy
    <3> QED BY <1>0, <2>2, <3>1, <3>2 DEF Copies, Bindings
  <2>4. CASE BindRoute
    <3>1. /\ next' = next + 1 /\ next < Len(slice[Binder]) /\ UNCHANGED <<pc, slice, routes>>
          /\ next \in Nat /\ Len(slice[Binder]) \in Nat /\ Len(routes) \in Nat
      BY <1>0, <2>4, Distinct, Lengths DEF BindRoute, Types
    <3>2. next' <= Len(slice[Binder]) /\ next' <= Len(routes)
      BY <1>0, <3>1 DEF Bindings, CopyOf
    <3> QED BY <1>0, <2>2, <3>1, <3>2 DEF Copies, Bindings, CopyOf
  <2>5. CASE EndBinding
    <3>1. slice'[Binder] = << >> /\ next' = next /\ routes' = routes /\ pc'[Binder] = "bound"
      BY <1>0, <2>5, Distinct DEF EndBinding, Go, Types
    <3>2. CopyOf(Binder)' BY <1>0, <3>1, NewCopy
    <3> QED BY <1>0, <2>2, <3>1, <3>2 DEF Copies, Bindings
  <2> QED BY <1>3, <2>3, <2>4, <2>5
<1>4. ASSUME NEW s \in Requests,
             Ask(s) \/ GetRoutes(s) \/ Reply(s) \/ \E path \in DOMAIN Node : GeneratePath(s, path)
      PROVE  Copies'
  <2>1. /\ UNCHANGED <<next, routes>>
        /\ \A p \in Procs \ {s} : pc'[p] = pc[p] /\ slice'[p] = slice[p]
        /\ \A t \in Requests \ {s} : known'[t] = known[t] /\ todo'[t] = todo[t]
    BY <1>0, <1>4, Distinct DEF Ask, GetRoutes, Reply, GeneratePath, Go, Types, doc
  <2>2. Bindings' BY <1>0, <2>1, Distinct, BindingsKept
  <2>3. \A t \in Requests \ {s} : Answer(t)' BY <1>0, <2>1, Distinct, AnswerKept
  <2>4. Answer(s) /\ Len(routes) \in Nat /\ known[s] \in Nat BY <1>0, Lengths DEF Types
  <2>5. ASSUME Ask(s) PROVE Answer(s)'
    <3>1. /\ slice'[s] = slice[s] /\ pc[s] = "idle" /\ pc'[s] = "rlock" /\ known'[s] = Len(routes)
          /\ todo'[s] = todo[s]
      BY <1>0, <2>5, Distinct DEF Ask, Go, Types
    <3>2. CopyOf(s)' BY <1>0, <2>4, <3>1, Distinct, CopyKept DEF Answer
    <3> QED BY <2>1, <2>4, <3>1, <3>2 DEF Answer
  <2>6. ASSUME GetRoutes(s) PROVE Answer(s)'
    <3>1. slice'[s] = routes /\ known'[s] = known[s] /\ pc'[s] = "generate"
      BY <1>0, <2>6, Distinct DEF GetRoutes, Go, Types
    <3>2. CopyOf(s)' BY <1>0, <2>1, <3>1, NewCopy
    <3> QED BY <2>1, <2>4, <3>1, <3>2 DEF Answer
  <2>7. ASSUME Reply(s) PROVE Answer(s)'
    <3>1. /\ slice'[s] = slice[s] /\ known'[s] = known[s] /\ pc[s] = "generate" /\ pc'[s] = "replied"
          /\ todo'[s] = {}
      BY <1>0, <2>7, Distinct DEF Reply, Go, Types, doc
    <3>2. CopyOf(s)' BY <1>0, <2>4, <3>1, Distinct, CopyKept DEF Answer
    <3> QED BY <2>1, <2>4, <3>1, <3>2 DEF Answer
  <2>8. ASSUME NEW path \in DOMAIN Node, GeneratePath(s, path) PROVE Answer(s)'
    <3>1. slice'[s] = slice[s] /\ known'[s] = known[s] /\ pc[s] = "generate" /\ pc'[s] = "generate"
      BY <1>0, <2>8, Distinct DEF GeneratePath, Types
    <3>2. CopyOf(s)' BY <1>0, <2>4, <3>1, Distinct, CopyKept DEF Answer
    <3> QED BY <2>1, <2>4, <3>1, <3>2 DEF Answer
  <2>9. Answer(s)' BY <1>4, <2>5, <2>6, <2>7, <2>8
  <2> QED BY <2>2, <2>3, <2>9 DEF Copies
<1>5. CASE UNCHANGED vars BY <1>1, <1>5 DEF vars, doc
<1> QED BY <1>2, <1>3, <1>4, <1>5 DEF Next, Making, Binding, Replying

\* Only RegisterWithRouter changes the router, by the next route it copied.
LEMMA BindRouteServed == ASSUME Guarded, Grows, Copies, Served, BindRoute PROVE Served'
<1> DEFINE d == slice[Binder][next']
           r == Route[d]
           k0 == <<r.verb, Node[r.path]>>
<1>1. /\ next' = next + 1 /\ next \in Nat /\ next' <= Len(routes) /\ Len(routes) \in Nat
      /\ d = routes[next'] /\ routes' = routes
  <2>1. /\ next \in Nat /\ Len(routes) \in Nat /\ Len(slice[Binder]) \in Nat
        /\ next < Len(slice[Binder]) /\ next' = next + 1 /\ UNCHANGED routes
    BY Distinct, Lengths DEF Guarded, Types, BindRoute
  <2>2. next' \in 1..Len(slice[Binder]) BY <2>1
  <2> QED BY <2>1, <2>2 DEF Copies, Bindings, CopyOf
<1>2. \A i, k : Binds(i, k)' <=> Binds(i, k) BY <1>1 DEF Binds
<1>3. CASE r.verb \in Verbs /\ r.exact
  <2>1. router' = Over([k \in {k0} |-> d], router) BY <1>3 DEF BindRoute
  <2>2. router' = [k \in {k0} \cup DOMAIN router |-> IF k = k0 THEN d ELSE router[k]]
    BY <2>1, Zenon DEF Over
  <2>3. Binds(next', k0) BY <1>1, <1>3 DEF Binds
  <2>4. \A k : Binds(next', k) => k = k0 BY <1>1 DEF Binds
  <2> HIDE DEF k0, d
  <2>5. /\ DOMAIN router' = {k0} \cup DOMAIN router /\ router'[k0] = d
        /\ \A k \in DOMAIN router : k # k0 => router'[k] = router[k]
    BY <2>2
  <2>6. router' = [k \in DOMAIN router' |-> router'[k]] BY <2>2
  <2>7. ASSUME NEW k \in DOMAIN router'
        PROVE  \E i \in 1..next' : /\ Binds(i, k) /\ router'[k] = routes[i]
                                  /\ \A j \in 1..next' : Binds(j, k) => j <= i
    <3>1. CASE k = k0 BY <3>1, <2>3, <2>5, <1>1
    <3>2. CASE k # k0
      <4>1. k \in DOMAIN router /\ router'[k] = router[k] BY <3>2, <2>5
      <4>2. PICK i \in 1..next : /\ Binds(i, k) /\ router[k] = routes[i]
                                 /\ \A j \in 1..next : Binds(j, k) => j <= i
        BY <4>1 DEF Served
      <4>3. ~Binds(next', k) BY <3>2, <2>4
      <4>4. \A j \in 1..next' : Binds(j, k) => j <= i BY <4>2, <4>3, <1>1
      <4> QED BY <4>1, <4>2, <4>4, <1>1
    <3> QED BY <3>1, <3>2
  <2> QED BY <2>6, <2>7, <1>1, <1>2 DEF Served
<1>4. CASE ~(r.verb \in Verbs /\ r.exact)
  <2>1. router' = router BY <1>4 DEF BindRoute
  <2>2. \A k : ~Binds(next', k) BY <1>4, <1>1 DEF Binds
  <2> HIDE DEF r, d
  <2>3. ASSUME NEW k \in DOMAIN router'
        PROVE  \E i \in 1..next' : /\ Binds(i, k) /\ router'[k] = routes[i]
                                  /\ \A j \in 1..next' : Binds(j, k) => j <= i
    <3>1. PICK i \in 1..next : /\ Binds(i, k) /\ router[k] = routes[i]
                               /\ \A j \in 1..next : Binds(j, k) => j <= i
      BY <2>1 DEF Served
    <3>2. \A j \in 1..next' : Binds(j, k) => j <= i BY <3>1, <2>2, <1>1
    <3> QED BY <2>1, <3>1, <3>2, <1>1
  <2> QED BY <2>1, <2>3, <1>1, <1>2 DEF Served
<1> QED BY <1>3, <1>4

LEMMA NextServed == ASSUME Guarded, Grows, Copies, Served, [Next]_vars PROVE Served'
<1>1. ASSUME UNCHANGED <<next, router>> PROVE Served'
  <2>1. next <= Len(routes) /\ Len(routes) \in Nat /\ next \in Nat BY Lengths DEF Guarded, Types, Copies, Bindings
  <2>2. \A i \in 1..next : routes'[i] = routes[i] BY <2>1 DEF Grows
  <2>3. \A i \in 1..next : \A k : Binds(i, k)' <=> Binds(i, k) BY <2>2 DEF Binds
  <2> QED BY <1>1, <2>2, <2>3 DEF Served
<1>2. CASE BindRoute BY <1>2, BindRouteServed
<1>3. ASSUME NEW d \in Declarations, MakeHandler(d) \/ ReadRoutes(d) \/ AppendRoute(d) PROVE Served'
  BY <1>1, <1>3 DEF MakeHandler, ReadRoutes, AppendRoute
<1>4. CASE BeginBinding \/ EndBinding BY <1>1, <1>4 DEF BeginBinding, EndBinding
<1>5. ASSUME NEW s \in Requests,
             Ask(s) \/ GetRoutes(s) \/ Reply(s) \/ \E path \in DOMAIN Node : GeneratePath(s, path)
      PROVE  Served'
  BY <1>1, <1>5 DEF Ask, GetRoutes, Reply, GeneratePath
<1>6. CASE UNCHANGED vars BY <1>1, <1>6 DEF vars
<1> QED BY <1>2, <1>3, <1>4, <1>5, <1>6 DEF Next, Making, Binding, Replying
-------------------------------------------------------------------------------
(* The documents *)

\* i is the last route of a document with the path and verb k.
Latest(s, i, k) ==
  Spelled(s, i, k) /\ \A j \in 1..Len(slice[s]) : Spelled(s, j, k) => j <= i

LEMMA OperationsOfAPath ==
  ASSUME Types, NEW s \in Requests, NEW path
  PROVE  /\ DOMAIN Operations(s, path) \subseteq {path} \X Verbs
         /\ \A k \in {path} \X Verbs :
              k \in DOMAIN Operations(s, path) <=> \E i \in 1..Len(slice[s]) : Spelled(s, i, k)
         /\ \A k \in DOMAIN Operations(s, path) : \E i \in 1..Len(slice[s]) :
              Latest(s, i, k) /\ Operations(s, path)[k] = slice[s][i]
<1> DEFINE Of(verb) == {i \in Group(s, path) : Route[slice[s][i]].verb = verb}
           F == Operations(s, path)
<1>1. Len(slice[s]) \in Nat /\ DOMAIN slice[s] = 1..Len(slice[s]) BY Lengths, Distinct
<1>2. \A k \in {path} \X Verbs : Of(k[2]) = {i \in 1..Len(slice[s]) : Spelled(s, i, k)}
  BY <1>1 DEF Group, Spelled
<1>3. F = [k \in {path} \X {verb \in Verbs : Of(verb) # {}} |-> slice[s][LastOf(Of(k[2]))]]
  BY DEF Operations
<1> HIDE DEF Of, F
<1>4. DOMAIN F = {path} \X {verb \in Verbs : Of(verb) # {}} BY <1>3
<1>5. \A k \in DOMAIN F : F[k] = slice[s][LastOf(Of(k[2]))] BY <1>3
<1>6. \A k : k \in DOMAIN F <=> k \in {path} \X Verbs /\ Of(k[2]) # {} BY <1>4
<1>7. ASSUME NEW k \in {path} \X Verbs
      PROVE  k \in DOMAIN F <=> \E i \in 1..Len(slice[s]) : Spelled(s, i, k)
  BY <1>2, <1>6
<1>8. ASSUME NEW k \in DOMAIN F
      PROVE  \E i \in 1..Len(slice[s]) : Latest(s, i, k) /\ F[k] = slice[s][i]
  <2>1. k \in {path} \X Verbs /\ Of(k[2]) # {} BY <1>6
  <2>2. Of(k[2]) = {i \in 1..Len(slice[s]) : Spelled(s, i, k)} BY <1>2, <2>1
  <2>3. Of(k[2]) \subseteq 1..Len(slice[s]) BY <2>2
  <2>4. LastOf(Of(k[2])) \in Of(k[2]) /\ \A j \in Of(k[2]) : j <= LastOf(Of(k[2]))
    BY <1>1, <2>1, <2>3, LastIsThere
  <2>5. Latest(s, LastOf(Of(k[2])), k) BY <2>2, <2>4 DEF Latest
  <2> QED BY <1>5, <2>3, <2>4, <2>5
<1>9. DOMAIN F \subseteq {path} \X Verbs BY <1>6
<1> QED BY <1>7, <1>8, <1>9 DEF F

LEMMA GeneratePathDocuments ==
  ASSUME Types, NEW s \in Requests, NEW path \in DOMAIN Node, GeneratePath(s, path), Documents(s)
  PROVE  Documents(s)'
<1> DEFINE F == Operations(s, path)
<1>1. /\ ops'[s] = Over(F, ops[s]) /\ slice' = slice
      /\ path \in todo[s] /\ todo'[s] = todo[s] \ {path}
  BY DEF Types, GeneratePath
<1>2. \A i, k : Spelled(s, i, k)' <=> Spelled(s, i, k) BY <1>1 DEF Spelled
<1>3. /\ DOMAIN F \subseteq {path} \X Verbs
      /\ \A k \in {path} \X Verbs :
           k \in DOMAIN F <=> \E i \in 1..Len(slice[s]) : Spelled(s, i, k)
      /\ \A k \in DOMAIN F : \E i \in 1..Len(slice[s]) : Latest(s, i, k) /\ F[k] = slice[s][i]
  BY OperationsOfAPath
<1> HIDE DEF F
<1>4. ops'[s] = [k \in DOMAIN F \cup DOMAIN ops[s] |-> IF k \in DOMAIN F THEN F[k] ELSE ops[s][k]]
  BY <1>1, Zenon DEF Over
<1>5. /\ DOMAIN ops'[s] = DOMAIN F \cup DOMAIN ops[s]
      /\ \A k \in DOMAIN F : ops'[s][k] = F[k]
      /\ \A k \in DOMAIN ops[s] : k \notin DOMAIN F => ops'[s][k] = ops[s][k]
      /\ ops'[s] = [k \in DOMAIN ops'[s] |-> ops'[s][k]]
  BY <1>4
<1>6. DOMAIN ops'[s] \subseteq (DOMAIN Node) \X Verbs BY <1>3, <1>5 DEF Documents
<1>7. ASSUME NEW k \in (DOMAIN Node) \X Verbs
      PROVE  k \in DOMAIN ops'[s] <=>
               k[1] \notin todo'[s] /\ \E i \in 1..Len(slice[s]) : Spelled(s, i, k)
  <2>1. k \in DOMAIN ops[s] <=> k[1] \notin todo[s] /\ \E i \in 1..Len(slice[s]) : Spelled(s, i, k)
    BY DEF Documents
  <2>2. k \in {path} \X Verbs <=> k[1] = path OBVIOUS
  <2> QED BY <1>1, <1>3, <1>5, <2>1, <2>2
<1>8. ASSUME NEW k \in DOMAIN ops'[s]
      PROVE  \E i \in 1..Len(slice[s]) : Latest(s, i, k) /\ ops'[s][k] = slice[s][i]
  <2>1. CASE k \in DOMAIN F BY <2>1, <1>3, <1>5
  <2>2. CASE k \notin DOMAIN F
    <3>1. k \in DOMAIN ops[s] /\ ops'[s][k] = ops[s][k] BY <2>2, <1>5
    <3> QED BY <3>1 DEF Documents, Latest
  <2> QED BY <2>1, <2>2
<1> QED BY <1>1, <1>2, <1>5, <1>6, <1>7, <1>8 DEF Documents, Latest

LEMMA DefinitionsOfAPath ==
  ASSUME Types, NEW s \in Requests, NEW path
  PROVE  /\ \A n : n \in DOMAIN Definitions(s, path) <=>
              n # "" /\ \E i \in 1..Len(slice[s]) :
                          Named(slice[s], i, n) /\ Route[slice[s][i]].path = path
         /\ \A n \in DOMAIN Definitions(s, path) : \E i \in 1..Len(slice[s]) :
              Final(slice[s], i, n) /\ Definitions(s, path)[n] = Route[slice[s][i]].body
<1> DEFINE Of(name) == {i \in Group(s, path) : SchemaName(slice[s][i]) = name}
           names == {SchemaName(slice[s][i]) : i \in Group(s, path)} \ {""}
           F == Definitions(s, path)
<1>1. Len(slice[s]) \in Nat /\ Group(s, path) = {i \in 1..Len(slice[s]) : Route[slice[s][i]].path = path}
  BY Lengths, Distinct DEF Group
<1>2. F = [name \in names |-> Route[slice[s][LastOf(Of(name))]].body] BY DEF Definitions
<1>3. \A n : n \in names <=> n # "" /\ \E i \in 1..Len(slice[s]) :
               Named(slice[s], i, n) /\ Route[slice[s][i]].path = path
  BY <1>1 DEF Named
<1>4. ASSUME NEW n \in names
      PROVE  LastOf(Of(n)) \in 1..Len(slice[s]) /\ Final(slice[s], LastOf(Of(n)), n)
  <2>1. Of(n) \subseteq 1..Len(slice[s]) /\ Of(n) # {} BY <1>1
  <2> HIDE DEF Of
  <2>2. LastOf(Of(n)) \in Of(n) /\ \A j \in Of(n) : j <= LastOf(Of(n))
    BY <1>1, <2>1, LastIsThere
  <2>3. \A j \in 1..Len(slice[s]) : j \in Of(n) <=>
          Named(slice[s], j, n) /\ Route[slice[s][j]].path = path
    BY <1>1 DEF Of, Named
  <2> QED BY <2>1, <2>2, <2>3 DEF Final
<1> HIDE DEF Of, names, F
<1>5. DOMAIN F = names /\ \A n \in names : F[n] = Route[slice[s][LastOf(Of(n))]].body BY <1>2
<1>6. \A n \in DOMAIN F : \E i \in 1..Len(slice[s]) :
        Final(slice[s], i, n) /\ F[n] = Route[slice[s][i]].body
  BY <1>4, <1>5
<1> QED BY <1>3, <1>5, <1>6 DEF F

LEMMA GeneratePathSchemas ==
  ASSUME Types, NEW s \in Requests, NEW path \in DOMAIN Node, GeneratePath(s, path), Schemas(s)
  PROVE  Schemas(s)'
<1> DEFINE F == Definitions(s, path)
<1>1. /\ defs'[s] = Over(F, defs[s]) /\ slice' = slice
      /\ path \in todo[s] /\ todo'[s] = todo[s] \ {path}
  BY DEF Types, GeneratePath
<1>2. /\ \A n : n \in DOMAIN F <=>
           n # "" /\ \E i \in 1..Len(slice[s]) : Named(slice[s], i, n) /\ Route[slice[s][i]].path = path
      /\ \A n \in DOMAIN F : \E i \in 1..Len(slice[s]) : Final(slice[s], i, n) /\ F[n] = Route[slice[s][i]].body
  BY DefinitionsOfAPath
<1>3. /\ \A n : n \in DOMAIN defs[s] <=>
           n # "" /\ \E i \in 1..Len(slice[s]) : Named(slice[s], i, n) /\ Route[slice[s][i]].path \notin todo[s]
      /\ \A n \in DOMAIN defs[s] : \E i \in 1..Len(slice[s]) :
           Final(slice[s], i, n) /\ defs[s][n] = Route[slice[s][i]].body
  BY DEF Schemas, SchemasOf
<1> HIDE DEF F
<1>5. defs'[s] = [n \in DOMAIN F \cup DOMAIN defs[s] |-> IF n \in DOMAIN F THEN F[n] ELSE defs[s][n]]
  BY <1>1, Zenon DEF Over
<1>6. /\ DOMAIN defs'[s] = DOMAIN F \cup DOMAIN defs[s]
      /\ \A n \in DOMAIN F : defs'[s][n] = F[n]
      /\ \A n \in DOMAIN defs[s] : n \notin DOMAIN F => defs'[s][n] = defs[s][n]
      /\ defs'[s] = [n \in DOMAIN defs'[s] |-> defs'[s][n]]
  BY <1>5
<1>7. \A n : n \in DOMAIN defs'[s] <=>
        n # "" /\ \E i \in 1..Len(slice[s]) : Named(slice[s], i, n) /\ Route[slice[s][i]].path \notin todo'[s]
  BY <1>1, <1>2, <1>3, <1>6
<1>8. \A n \in DOMAIN defs'[s] : \E i \in 1..Len(slice[s]) :
        Final(slice[s], i, n) /\ defs'[s][n] = Route[slice[s][i]].body
  <2>1. ASSUME NEW n \in DOMAIN F
        PROVE  \E i \in 1..Len(slice[s]) : Final(slice[s], i, n) /\ defs'[s][n] = Route[slice[s][i]].body
    <3>1. defs'[s][n] = F[n] BY <1>6
    <3> QED BY <3>1, <1>2, Zenon
  <2>2. ASSUME NEW n \in DOMAIN defs[s], n \notin DOMAIN F
        PROVE  \E i \in 1..Len(slice[s]) : Final(slice[s], i, n) /\ defs'[s][n] = Route[slice[s][i]].body
    <3>1. defs'[s][n] = defs[s][n] BY <2>2, <1>6
    <3> QED BY <3>1, <1>3, Zenon
  <2> QED BY <1>6, <2>1, <2>2
<1> QED BY <1>1, <1>6, <1>7, <1>8 DEF Schemas, SchemasOf
\* A document just begun has nothing yet, and all its paths to do.
LEMMA GetRoutesDocument ==
  ASSUME Guarded, Copies, NEW s \in Requests, GetRoutes(s), Documents(s), Schemas(s)
  PROVE  Documents(s)' /\ Schemas(s)'
<1>1. /\ slice[s] = << >> /\ slice'[s] = routes /\ UNCHANGED <<ops, defs>>
      /\ todo'[s] = {Route[routes[i]].path : i \in 1..Len(routes)}
  BY Distinct, Lengths DEF Guarded, Types, Copies, Answer, GetRoutes, Go
<1>2. 1..Len(slice[s]) = {} BY <1>1
<1>3. \A i \in 1..Len(slice'[s]) : Route[slice'[s][i]].path \in todo'[s] BY <1>1
<1>4. DOMAIN ops[s] = {} BY <1>2 DEF Documents
<1>5. DOMAIN defs[s] = {} BY <1>2 DEF Schemas, SchemasOf
<1>6. Documents(s)' BY <1>1, <1>3, <1>4 DEF Documents, Spelled
<1>7. Schemas(s)' BY <1>1, <1>3, <1>5 DEF Schemas, SchemasOf
<1> QED BY <1>6, <1>7

LEMMA DocumentKept ==
  ASSUME NEW s, Documents(s), Schemas(s),
         slice'[s] = slice[s], todo'[s] = todo[s], ops'[s] = ops[s], defs'[s] = defs[s]
  PROVE  Documents(s)' /\ Schemas(s)'
<1>1. \A i, k : Spelled(s, i, k)' <=> Spelled(s, i, k) BY DEF Spelled
<1>2. Documents(s)' BY <1>1 DEF Documents
<1>3. Schemas(s)' BY DEF Schemas
<1> QED BY <1>2, <1>3

LEMMA NextIInv == IInv /\ [Next]_vars => IInv'
<1> SUFFICES ASSUME IInv, [Next]_vars PROVE IInv' OBVIOUS
<1>1. Guarded /\ Copies /\ Served /\ \A s \in Requests : Documents(s) /\ Schemas(s) BY DEF IInv
<1>2. Guarded' /\ Grows BY <1>1, NextGuarded
<1>3. Copies' /\ Served' BY <1>1, <1>2, NextCopies, NextServed
<1>4. ASSUME NEW s \in Requests, Documents(s)', Schemas(s)',
             \A t \in Requests \ {s} : /\ slice'[t] = slice[t] /\ todo'[t] = todo[t]
                                    /\ ops'[t] = ops[t] /\ defs'[t] = defs[t]
      PROVE  IInv'
  <2>1. \A t \in Requests \ {s} : Documents(t)' /\ Schemas(t)' BY <1>1, <1>4, DocumentKept
  <2> QED BY <1>2, <1>3, <1>4, <2>1 DEF IInv
<1>5. ASSUME UNCHANGED <<todo, ops, defs>>, \A t \in Requests : slice'[t] = slice[t] PROVE IInv'
  <2>1. \A t \in Requests : Documents(t)' /\ Schemas(t)' BY <1>1, <1>5, DocumentKept
  <2> QED BY <1>2, <1>3, <2>1 DEF IInv
<1>6. Types BY <1>1 DEF Guarded
<1>7. ASSUME NEW d \in Declarations, MakeHandler(d) \/ ReadRoutes(d) \/ AppendRoute(d) PROVE IInv'
  <2>1. UNCHANGED <<todo, ops, defs>> BY <1>7 DEF MakeHandler, ReadRoutes, AppendRoute, doc
  <2>2. \A p \in Procs : p # d => slice'[p] = slice[p]
    BY <1>6, <1>7 DEF MakeHandler, ReadRoutes, AppendRoute, Types
  <2>3. \A s \in Requests : slice'[s] = slice[s] BY <2>2, Distinct
  <2> QED BY <1>5, <2>1, <2>3
<1>8. CASE BeginBinding \/ BindRoute \/ EndBinding
  <2>1. UNCHANGED <<todo, ops, defs>> BY <1>8 DEF BeginBinding, BindRoute, EndBinding, doc
  <2>2. \A s \in Requests : slice'[s] = slice[s]
    BY <1>6, <1>8, Distinct DEF BeginBinding, BindRoute, EndBinding, Types
  <2> QED BY <1>5, <2>1, <2>2
<1>9. ASSUME NEW s \in Requests, Ask(s) \/ Reply(s) PROVE IInv'
  <2>1. UNCHANGED <<slice, todo, ops, defs>> BY <1>9 DEF Ask, Reply, doc
  <2> QED BY <1>5, <2>1
<1>10. ASSUME NEW s \in Requests, GetRoutes(s) PROVE IInv'
  <2>1. \A t \in Requests \ {s} : /\ slice'[t] = slice[t] /\ todo'[t] = todo[t]
                                 /\ ops'[t] = ops[t] /\ defs'[t] = defs[t]
    BY <1>6, <1>10, Distinct DEF GetRoutes, Types
  <2>2. Documents(s)' /\ Schemas(s)' BY <1>1, <1>10, GetRoutesDocument
  <2> QED BY <1>4, <2>1, <2>2
<1>11. ASSUME NEW s \in Requests, NEW path \in DOMAIN Node, GeneratePath(s, path) PROVE IInv'
  <2>1. \A t \in Requests \ {s} : /\ slice'[t] = slice[t] /\ todo'[t] = todo[t]
                                 /\ ops'[t] = ops[t] /\ defs'[t] = defs[t]
    BY <1>6, <1>11 DEF GeneratePath, Types
  <2>2. Documents(s)' /\ Schemas(s)'
    BY <1>1, <1>6, <1>11, GeneratePathDocuments, GeneratePathSchemas
  <2> QED BY <1>4, <2>1, <2>2
<1>12. CASE UNCHANGED vars
  <2>1. UNCHANGED <<slice, todo, ops, defs>> BY <1>12 DEF vars, doc
  <2> QED BY <1>5, <2>1
<1> QED BY <1>7, <1>8, <1>9, <1>10, <1>11, <1>12 DEF Next, Making, Binding, Replying

LEMMA InitIInv == Init => IInv
<1> SUFFICES ASSUME Init PROVE IInv OBVIOUS
<1>1. Guarded BY InitGuarded
<1>2. Len(<< >>) = 0 /\ 1..0 = {} /\ DOMAIN << >> = {} /\ << >> = [k \in DOMAIN << >> |-> << >>[k]]
  OBVIOUS
<1>3. Copies
  <2>1. \A p \in Procs : slice[p] = << >> BY DEF Init
  <2>2. routes = << >> /\ next = 0 /\ pc[Binder] = "idle" BY Distinct DEF Init
  <2>3. \A p \in Procs : CopyOf(p) BY <1>2, <2>1, <2>2 DEF CopyOf
  <2>4. Bindings BY <1>2, <2>2, <2>3, Distinct DEF Bindings
  <2>5. ASSUME NEW s \in Requests PROVE Answer(s)
    <3>1. pc[s] = "idle" /\ known[s] = 0 BY Distinct DEF Init
    <3> QED BY <1>2, <2>1, <2>2, <2>3, <3>1, Distinct DEF Answer
  <2> QED BY <2>4, <2>5 DEF Copies
<1>4. Served BY <1>2 DEF Init, Served
<1>5. ASSUME NEW s \in Requests PROVE Documents(s) /\ Schemas(s)
  <2>1. slice[s] = << >> /\ ops[s] = << >> /\ defs[s] = << >> BY Distinct DEF Init
  <2> QED BY <1>2, <2>1 DEF Documents, Schemas, SchemasOf
<1> QED BY <1>1, <1>3, <1>4, <1>5 DEF IInv

LEMMA RegistryInvariant == Spec => []IInv
BY InitIInv, NextIInv, PTL DEF Spec

-------------------------------------------------------------------------------
(* The properties *)

\* Every variable keeps its type: among others, only declarations write, and
\* the router and the documents have known verbs only.
THEOREM TypeCorrect == Spec => []TypeOK
<1>1. ASSUME IInv PROVE TypeOK
  <2>1. Types /\ Locked BY <1>1 DEF IInv, Guarded
  <2>2. /\ pc \in [Procs -> {"idle", "lock", "append", "made", "bind", "bound",
                              "rlock", "generate", "replied"}]
        /\ routes \in Seq(Declarations) /\ \A p \in Procs : slice[p] \in Seq(Declarations)
        /\ next \in Nat /\ todo \in [Requests -> SUBSET DOMAIN Node] /\ known \in [Requests -> Nat]
    BY <2>1 DEF Types
  <2>3. writer \subseteq Declarations /\ readers \subseteq {Binder} BY <2>1 DEF Locked
  <2>4. DOMAIN router \subseteq Verbs \X {Node[p] : p \in DOMAIN Node}
    <3>1. ASSUME NEW k \in DOMAIN router PROVE k \in Verbs \X {Node[p] : p \in DOMAIN Node}
      <4>1. PICK i \in 1..next : Binds(i, k) BY <1>1 DEF IInv, Served
      <4>2. i \in 1..Len(routes) BY <1>1, <2>1, Lengths DEF IInv, Copies, Bindings, Types
      <4>3. Route[routes[i]].path \in DOMAIN Node BY <2>1, <4>2, Lengths, RegistryAssumption
      <4> QED BY <4>1, <4>3 DEF Binds
    <3> QED BY <3>1
  <2>5. \A s \in Requests : DOMAIN ops[s] \subseteq (DOMAIN Node) \X Verbs
    BY <1>1 DEF IInv, Documents
  <2> QED BY <2>2, <2>3, <2>4, <2>5 DEF TypeOK
<1> QED BY <1>1, RegistryInvariant, PTL

\* A document is what the registry was at one moment between its request and
\* its reply, whatever was declared meanwhile (swagger/generator.go:82-98).
THEOREM DocumentsAreSnapshots == Spec => []DocumentIsASnapshot
<1>1. ASSUME IInv, NEW s \in Requests, pc[s] = "replied"
      PROVE  \E k \in known[s]..Len(routes) :
               {<<key, ops[s][key]>> : key \in DOMAIN ops[s]} = Documented(SubSeq(routes, 1, k))
  <2> DEFINE rs == slice[s]
             key(d) == <<Route[d].path, Route[d].verb>>
             Shadowed(i) == \E j \in DOMAIN rs : j > i /\ key(rs[j]) = key(rs[i])
  <2>1. Types /\ Answer(s) /\ Documents(s) BY <1>1 DEF IInv, Guarded, Copies
  <2>2. /\ Len(rs) \in Nat /\ DOMAIN rs = 1..Len(rs) /\ rs \in Seq(Declarations)
        /\ Len(routes) \in Nat /\ known[s] \in Nat /\ todo[s] = {}
    BY <1>1, <2>1, Lengths, Distinct DEF Types, Answer
  <2>3. Len(rs) \in known[s]..Len(routes) BY <1>1, <2>1, <2>2 DEF Answer, CopyOf
  <2>4. SubSeq(routes, 1, Len(rs)) = rs
    <3>1. \A i \in 1..Len(rs) : routes[i] = rs[i] BY <2>1 DEF Answer, CopyOf
    <3>2. \A i \in 1..Len(rs) : routes[i] \in Declarations BY <3>1, <2>1, Lengths, Distinct
    <3>3. /\ SubSeq(routes, 1, Len(rs)) \in Seq(Declarations)
          /\ Len(SubSeq(routes, 1, Len(rs))) = Len(rs)
          /\ \A i \in 1..Len(rs) : SubSeq(routes, 1, Len(rs))[i] = routes[i]
      BY <2>2, <3>2, SubSeqProperties
    <3> QED BY <2>2, <3>1, <3>3, SeqEqual
  <2>5. Documented(rs) = {<<key(rs[i]), rs[i]>> :
                            i \in {i \in DOMAIN rs : Route[rs[i]].verb \in Verbs /\ ~Shadowed(i)}}
    BY DEF Documented
  <2>6. \A i \in 1..Len(rs) : Route[rs[i]].path \in DOMAIN Node
    BY <2>1, Lengths, Distinct, RegistryAssumption
  <2>7. \A k \in (DOMAIN Node) \X Verbs : \A i : Spelled(s, i, k) <=> key(rs[i]) = k
    BY DEF Spelled
  <2>8. ASSUME NEW k \in DOMAIN ops[s]
        PROVE  \E i \in DOMAIN rs : /\ Route[rs[i]].verb \in Verbs /\ ~Shadowed(i)
                                   /\ k = key(rs[i]) /\ ops[s][k] = rs[i]
    <3>1. k \in (DOMAIN Node) \X Verbs BY <2>1 DEF Documents
    <3>2. PICK i \in 1..Len(rs) : /\ Spelled(s, i, k) /\ ops[s][k] = rs[i]
                                  /\ \A j \in 1..Len(rs) : Spelled(s, j, k) => j <= i
      BY <2>1 DEF Documents
    <3>3. k = key(rs[i]) /\ Route[rs[i]].verb \in Verbs BY <2>7, <3>1, <3>2
    <3>4. ~Shadowed(i) BY <2>2, <2>7, <3>1, <3>2, <3>3
    <3> QED BY <2>2, <3>2, <3>3, <3>4
  <2>9. ASSUME NEW i \in DOMAIN rs, Route[rs[i]].verb \in Verbs, ~Shadowed(i)
        PROVE  key(rs[i]) \in DOMAIN ops[s] /\ ops[s][key(rs[i])] = rs[i]
    <3> DEFINE k == key(rs[i])
    <3>1. k \in (DOMAIN Node) \X Verbs BY <2>2, <2>6, <2>9
    <3>2. Spelled(s, i, k) BY <2>7, <3>1
    <3>3. k \in DOMAIN ops[s] BY <2>1, <2>2, <3>1, <3>2 DEF Documents
    <3>4. PICK j \in 1..Len(rs) : /\ Spelled(s, j, k) /\ ops[s][k] = rs[j] /\ i <= j
      BY <2>1, <2>2, <3>2, <3>3 DEF Documents
    <3>5. j = i BY <2>2, <2>7, <2>9, <3>1, <3>4
    <3> QED BY <3>3, <3>4, <3>5
  <2> HIDE DEF rs, key, Shadowed
  <2>10. {<<k, ops[s][k]>> : k \in DOMAIN ops[s]} = Documented(rs) BY <2>5, <2>8, <2>9
  <2> QED BY <2>3, <2>4, <2>10 DEF rs
<1>2. IInv => DocumentIsASnapshot BY <1>1 DEF DocumentIsASnapshot
<1> QED BY <1>2, RegistryInvariant, PTL

\* What the router serves is documented, by the declaration it serves or by
\* one made after the binding, if no two declarations of one method and path
\* differ in its spelling (handler/types.go:170-214 against
\* swagger/generator.go:104-128).
THEOREM ServedAreDocumented == ASSUME SpelledAlike PROVE Spec => []ServedIsDocumented
<1>1. ASSUME IInv, NEW s \in Requests, pc[s] = "replied", pc[Binder] = "bound", known[s] >= next,
             NEW k \in DOMAIN router
      PROVE  \E path \in DOMAIN Node :
               /\ Node[path] = k[2] /\ <<path, k[1]>> \in DOMAIN ops[s]
               /\ \/ ops[s][<<path, k[1]>>] = router[k]
                  \/ \E i \in DOMAIN routes : i > next /\ routes[i] = ops[s][<<path, k[1]>>]
  <2>1. Types /\ Answer(s) /\ Documents(s) /\ next <= Len(routes)
    BY <1>1 DEF IInv, Guarded, Copies, Bindings
  <2>2. /\ Len(slice[s]) \in Nat /\ Len(routes) \in Nat /\ DOMAIN routes = 1..Len(routes)
        /\ next \in Nat /\ known[s] \in Nat /\ todo[s] = {}
    BY <1>1, <2>1, Lengths, Distinct DEF Types, Answer
  <2>3. /\ next <= Len(slice[s]) /\ Len(slice[s]) <= Len(routes)
        /\ \A i \in 1..Len(slice[s]) : slice[s][i] = routes[i]
    BY <1>1, <2>1, <2>2 DEF Answer, CopyOf
  <2>4. PICK i \in 1..next : /\ Binds(i, k) /\ router[k] = routes[i]
                             /\ \A j \in 1..next : Binds(j, k) => j <= i
    BY <1>1 DEF IInv, Served
  <2> DEFINE path == Route[routes[i]].path
             key == <<path, k[1]>>
  <2>5. i \in 1..Len(slice[s]) /\ i \in 1..Len(routes) BY <2>2, <2>3
  <2>6. path \in DOMAIN Node /\ routes[i] \in Declarations
    BY <2>1, <2>5, Lengths, RegistryAssumption
  <2>7. /\ Route[routes[i]].exact /\ Route[routes[i]].verb = k[1] /\ k[1] \in Verbs
        /\ k = <<k[1], k[2]>> /\ Node[path] = k[2]
    BY <2>4 DEF Binds
  <2>8. key \in (DOMAIN Node) \X Verbs /\ key[1] = path /\ key[2] = k[1] BY <2>6, <2>7
  <2>9. Spelled(s, i, key) BY <2>3, <2>5, <2>7, <2>8 DEF Spelled
  <2>10. key \in DOMAIN ops[s] BY <2>1, <2>2, <2>5, <2>8, <2>9 DEF Documents
  <2>11. PICK j \in 1..Len(slice[s]) : /\ Spelled(s, j, key) /\ ops[s][key] = slice[s][j]
                                      /\ \A m \in 1..Len(slice[s]) : Spelled(s, m, key) => m <= j
    BY <2>1, <2>10 DEF Documents
  <2>12. j \in 1..Len(routes) /\ ops[s][key] = routes[j] /\ routes[j] \in Declarations
    BY <2>1, <2>2, <2>3, <2>11, Lengths
  <2>13. Route[routes[j]].path = path /\ Route[routes[j]].verb = k[1]
    BY <2>3, <2>8, <2>11 DEF Spelled
  <2>14. i <= j BY <2>5, <2>9, <2>11
  <2>15. CASE j > next BY <2>2, <2>6, <2>7, <2>10, <2>12, <2>15
  <2>16. CASE j <= next
    <3>1. Route[routes[j]].exact BY <2>6, <2>7, <2>12, <2>13 DEF SpelledAlike
    <3>2. Binds(j, k) BY <2>7, <2>13, <3>1 DEF Binds
    <3>3. j = i BY <2>2, <2>4, <2>12, <2>14, <2>16, <3>2
    <3> QED BY <2>4, <2>6, <2>7, <2>10, <2>12, <3>3
  <2>17. j > next \/ j <= next BY <2>2, <2>12
  <2> QED BY <2>15, <2>16, <2>17, Zenon
<1>2. ASSUME IInv PROVE ServedIsDocumented BY <1>1, <1>2 DEF ServedIsDocumented
<1> QED BY <1>2, RegistryInvariant, PTL

\* The order in which a document's paths were walked leaves a trace in the
\* definition of a name that types of two paths dispute, and nowhere else: for
\* any declarations (swagger/generator.go:86-98, 313-317).
THEOREM MapOrderLeavesNoOtherTrace == Spec => []SameRoutesSameDocument
<1>1. ASSUME IInv, NEW s \in Requests, NEW t \in Requests,
             pc[s] = "replied", pc[t] = "replied", slice[s] = slice[t]
      PROVE  /\ ops[s] = ops[t] /\ DOMAIN defs[s] = DOMAIN defs[t]
             /\ \A n \in DOMAIN defs[s] : defs[s][n] # defs[t][n] => n \in Disputed(slice[s])
  <2> DEFINE rs == slice[s]
  <2>1. /\ Types /\ Documents(s) /\ Documents(t) /\ todo[s] = {} /\ todo[t] = {}
        /\ SchemasOf(rs, {}, defs[s]) /\ SchemasOf(rs, {}, defs[t])
    BY <1>1 DEF IInv, Guarded, Copies, Answer, Schemas
  <2>2. \A i, k : Spelled(t, i, k) <=> Spelled(s, i, k) BY <1>1 DEF Spelled
  <2>3. Len(rs) \in Nat /\ \A i \in 1..Len(rs) : rs[i] \in Declarations
    BY <2>1, Lengths, Distinct
  <2>4. DOMAIN ops[s] = DOMAIN ops[t]
    <3>1. \A k \in (DOMAIN Node) \X Verbs : k \in DOMAIN ops[s] <=> k \in DOMAIN ops[t]
      BY <1>1, <2>1, <2>2 DEF Documents
    <3> QED BY <2>1, <3>1 DEF Documents
  <2>5. ASSUME NEW k \in DOMAIN ops[s] PROVE ops[s][k] = ops[t][k]
    <3>1. PICK i \in 1..Len(rs) : /\ Spelled(s, i, k) /\ ops[s][k] = rs[i]
                                  /\ \A j \in 1..Len(rs) : Spelled(s, j, k) => j <= i
      BY <2>1 DEF Documents
    <3>2. PICK i2 \in 1..Len(rs) : /\ Spelled(s, i2, k) /\ ops[t][k] = rs[i2]
                                   /\ \A j \in 1..Len(rs) : Spelled(s, j, k) => j <= i2
      BY <1>1, <2>1, <2>2, <2>4 DEF Documents
    <3>3. i = i2 BY <2>3, <3>1, <3>2
    <3> QED BY <3>1, <3>2, <3>3
  <2>6. ops[s] = [k \in DOMAIN ops[s] |-> ops[s][k]] /\ ops[t] = [k \in DOMAIN ops[t] |-> ops[t][k]]
    BY <2>1 DEF Documents
  <2>7. ops[s] = ops[t] BY <2>4, <2>5, <2>6
  <2>8. DOMAIN defs[s] = DOMAIN defs[t]
    <3>1. \A n : n \in DOMAIN defs[s] <=> n \in DOMAIN defs[t] BY <2>1 DEF SchemasOf
    <3> QED BY <3>1, Zenon
  <2>9. ASSUME NEW n \in DOMAIN defs[s], defs[s][n] # defs[t][n] PROVE n \in Disputed(rs)
    <3>1. PICK i \in 1..Len(rs) : Final(rs, i, n) /\ defs[s][n] = Route[rs[i]].body
      BY <2>1 DEF SchemasOf
    <3>2. PICK j \in 1..Len(rs) : Final(rs, j, n) /\ defs[t][n] = Route[rs[j]].body
      BY <2>1, <2>8 DEF SchemasOf
    <3>3. i # j /\ Route[rs[i]].body # Route[rs[j]].body BY <2>9, <3>1, <3>2
    <3>4. Route[rs[i]].path # Route[rs[j]].path BY <2>3, <3>1, <3>2, <3>3 DEF Final
    <3>5. Route[rs[i]].body.name = n /\ Route[rs[j]].body.name = n
      BY <3>1, <3>2 DEF Final, Named, SchemaName
    <3>6. DOMAIN rs = 1..Len(rs) BY <2>1, Lengths, Distinct
    <3> QED BY <3>3, <3>4, <3>5, <3>6 DEF Disputed
  <2> QED BY <2>7, <2>8, <2>9
<1>2. ASSUME IInv PROVE SameRoutesSameDocument BY <1>1, <1>2 DEF SameRoutesSameDocument
<1> QED BY <1>2, RegistryInvariant, PTL
===============================================================================
