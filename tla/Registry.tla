------------------------------- MODULE Registry -------------------------------
(***************************************************************************)
(* The route registry of package handler and its three users: MakeHandler  *)
(* calls that add a route, RegisterWithRouter that binds the routes to the *)
(* chi router, and requests for /swagger.json that generate an OpenAPI     *)
(* document from a copy of the routes.  They share reg.routes under an     *)
(* RWMutex.  The router and the document resolve duplicates on their own,  *)
(* and the document is built by walking a Go map, in any order.            *)
(***************************************************************************)
EXTENDS Naturals, Sequences, FiniteSets

CONSTANTS
  Declarations,  \* calls of MakeHandler
  Requests,      \* requests for /swagger.json
  Route,         \* a call's RouteInfo: verb, exact, path, and its body type
  Node           \* from paths to the nodes of chi's routing tree

\* The call of RegisterWithRouter.
Binder == "RegisterWithRouter"
Procs == Declarations \cup Requests \cup {Binder}

\* A method spelled in capitals is "exact"; "" names no body type.
Verbs == {"GET", "POST", "PUT", "DELETE", "PATCH", "HEAD", "OPTIONS"}

ASSUME RegistryAssumption ==
  /\ Binder \notin Declarations \cup Requests /\ Declarations \cap Requests = {}
  /\ \A d \in Declarations :
       /\ Route[d].exact \in BOOLEAN
       /\ Route[d].path \in DOMAIN Node

VARIABLES
  pc,      \* where each call is
  writer,  \* who holds mu for writing
  readers, \* who holds it for reading
  routes,  \* reg.routes
  slice,   \* slice[p]: the routes p has read
  next,    \* how many of them RegisterWithRouter has bound
  router,  \* the chi router: from verb and node to a declaration
  ops,     \* ops[s]: the operations of document s, by path and verb
  defs,    \* defs[s]: its schema definitions, by type name
  todo,    \* todo[s]: the paths still to be generated
  known    \* known[s]: how many routes there were when s was asked for

lock == <<writer, readers>>
doc == <<ops, defs, todo, known>>
vars == <<pc, lock, routes, slice, next, router, doc>>

Init ==
  /\ pc = [p \in Procs |-> "idle"]
  /\ writer = {} /\ readers = {}
  /\ routes = << >>
  /\ slice = [p \in Procs |-> << >>]
  /\ next = 0
  /\ router = << >>
  /\ ops = [s \in Requests |-> << >>]
  /\ defs = [s \in Requests |-> << >>]
  /\ todo = [s \in Requests |-> {}]
  /\ known = [s \in Requests |-> 0]

\* A Go map after assignments: what was assigned, over what it held.
Over(assigned, held) ==
  [k \in DOMAIN assigned \cup DOMAIN held |->
     IF k \in DOMAIN assigned THEN assigned[k] ELSE held[k]]

Go(p, here, there) == pc[p] = here /\ pc' = [pc EXCEPT ![p] = there]

-------------------------------------------------------------------------------
(* sync.RWMutex *)

\* Mutant of Lock: MakeHandler takes the read lock.
LockForReading(p) ==
  /\ writer = {}
  /\ readers' = readers \cup {p}
  /\ UNCHANGED writer

Lock(p) ==
  /\ writer = {} /\ readers = {}
  /\ writer' = {p}
  /\ UNCHANGED readers

Unlock(p) == writer' = writer \ {p} /\ readers' = readers \ {p}

\* A waiting writer keeps new readers out.
MayRead == writer = {} /\ \A d \in Declarations : pc[d] # "lock"

\* Mutant of RLock: Lock in its place.
RLockExclusively(p) ==
  /\ MayRead
  /\ writer' = {p}
  /\ UNCHANGED readers

RLock(p) ==
  /\ MayRead
  /\ readers' = readers \cup {p}
  /\ UNCHANGED writer

-------------------------------------------------------------------------------
(* MakeHandler *)

MakeHandler(d) ==
  /\ Go(d, "idle", "lock")
  /\ UNCHANGED <<lock, routes, slice, next, router, doc>>

ReadRoutes(d) ==
  /\ Go(d, "lock", "append")
  /\ Lock(d)
  /\ slice' = [slice EXCEPT ![d] = routes]
  /\ UNCHANGED <<routes, next, router, doc>>

\* Mutant of AppendRoute: a return without Unlock.
AppendRouteKeepingLock(d) ==
  /\ Go(d, "append", "made")
  /\ routes' = Append(slice[d], d)
  /\ UNCHANGED <<lock, slice, next, router, doc>>

AppendRoute(d) ==
  /\ Go(d, "append", "made")
  /\ routes' = Append(slice[d], d)
  /\ slice' = [slice EXCEPT ![d] = << >>]
  /\ Unlock(d)
  /\ UNCHANGED <<next, router, doc>>

-------------------------------------------------------------------------------
(* RegisterWithRouter, which holds the read lock throughout *)

BeginBinding ==
  /\ Go(Binder, "idle", "bind")
  /\ RLock(Binder)
  /\ slice' = [slice EXCEPT ![Binder] = routes]
  /\ UNCHANGED <<routes, next, router, doc>>

\* Mutant of BindRoute: an earlier route keeps its node.
BindRouteUnlessBound ==
  /\ pc[Binder] = "bind" /\ next < Len(slice[Binder])
  /\ next' = next + 1
  /\ LET d == slice[Binder][next']
         r == Route[d]
     IN  router' = IF r.verb \in Verbs /\ r.exact
                   THEN Over(router, [k \in {<<r.verb, Node[r.path]>>} |-> d])
                   ELSE router
  /\ UNCHANGED <<pc, lock, routes, slice, doc>>

\* registerRoute: only a capital verb binds, in silence; chi lets a later
\* handler replace an earlier one at the same node.
BindRoute ==
  /\ pc[Binder] = "bind" /\ next < Len(slice[Binder])
  /\ next' = next + 1
  /\ LET d == slice[Binder][next']
         r == Route[d]
     IN  router' = IF r.verb \in Verbs /\ r.exact
                   THEN Over([k \in {<<r.verb, Node[r.path]>>} |-> d], router)
                   ELSE router
  /\ UNCHANGED <<pc, lock, routes, slice, doc>>

EndBinding ==
  /\ next = Len(slice[Binder])
  /\ Go(Binder, "bind", "bound")
  /\ Unlock(Binder)
  /\ slice' = [slice EXCEPT ![Binder] = << >>]
  /\ UNCHANGED <<routes, next, router, doc>>

-------------------------------------------------------------------------------
(* GET /swagger.json *)

Ask(s) ==
  /\ Go(s, "idle", "rlock")
  /\ known' = [known EXCEPT ![s] = Len(routes)]
  /\ UNCHANGED <<lock, routes, slice, next, router, ops, defs, todo>>

\* RLock, copy, RUnlock: one step, as nothing is written meanwhile.
GetRoutes(s) ==
  /\ Go(s, "rlock", "generate")
  /\ MayRead
  /\ slice' = [slice EXCEPT ![s] = routes]
  /\ todo' = [todo EXCEPT ![s] = {Route[routes[i]].path : i \in DOMAIN routes}]
  /\ UNCHANGED <<lock, routes, next, router, ops, defs, known>>

\* Mutant of LastOf: the first counts.
FirstOf(indexes) == CHOOSE i \in indexes : \A j \in indexes : i <= j

LastOf(indexes) == CHOOSE i \in indexes : \A j \in indexes : j <= i

\* Mutant of SchemaName: the kind of the type instead of its name.
SchemaNameIsKind(d) == IF Route[d].body.name = "" THEN "" ELSE "struct"

\* Definitions are keyed by the bare name of a type, without its package.
SchemaName(d) == Route[d].body.name

\* The routes of a path, as indexes of the slice.
Group(s, path) == {i \in DOMAIN slice[s] : Route[slice[s][i]].path = path}

\* generatePathItemFromRoutes: the last route of a verb, in any spelling, has
\* the operation.
Operations(s, path) ==
  LET Of(verb) == {i \in Group(s, path) : Route[slice[s][i]].verb = verb}
  IN  [k \in {path} \X {verb \in Verbs : Of(verb) # {}} |-> slice[s][LastOf(Of(k[2]))]]

\* A body type is defined even if its route's verb is none; its last
\* definition replaces the others.
Definitions(s, path) ==
  LET Of(name) == {i \in Group(s, path) : SchemaName(slice[s][i]) = name}
      names == {SchemaName(slice[s][i]) : i \in Group(s, path)} \ {""}
  IN  [name \in names |-> Route[slice[s][LastOf(Of(name))]].body]

\* A path's turn in the walk of the map.
GeneratePath(s, path) ==
  /\ pc[s] = "generate" /\ path \in todo[s]
  /\ todo' = [todo EXCEPT ![s] = @ \ {path}]
  /\ ops' = [ops EXCEPT ![s] = Over(Operations(s, path), @)]
  /\ defs' = [defs EXCEPT ![s] = Over(Definitions(s, path), @)]
  /\ UNCHANGED <<pc, lock, routes, slice, next, router, known>>

Reply(s) ==
  /\ todo[s] = {}
  /\ Go(s, "generate", "replied")
  /\ UNCHANGED <<lock, routes, slice, next, router, doc>>

-------------------------------------------------------------------------------
Finished == [p \in Procs |-> IF p = Binder THEN "bound"
                             ELSE IF p \in Declarations THEN "made" ELSE "replied"]

Making(d) == ReadRoutes(d) \/ AppendRoute(d)
Binding == BindRoute \/ EndBinding
Replying(s) ==
  \/ GetRoutes(s) \/ Reply(s)
  \/ \E path \in DOMAIN Node : GeneratePath(s, path)

Next ==
  \/ \E d \in Declarations : MakeHandler(d) \/ Making(d)
  \/ BeginBinding \/ Binding
  \/ \E s \in Requests : Ask(s) \/ Replying(s)

Spec == Init /\ [][Next]_vars

\* Goroutines that can run do run; calls arrive as they like.
FairSpec ==
  /\ Spec
  /\ \A d \in Declarations : WF_vars(Making(d))
  /\ WF_vars(Binding)
  /\ \A s \in Requests : WF_vars(Replying(s))

-------------------------------------------------------------------------------
(* Properties *)

TypeOK ==
  /\ pc \in [Procs -> {"idle", "lock", "append", "made", "bind", "bound",
                       "rlock", "generate", "replied"}]
  /\ writer \subseteq Declarations /\ readers \subseteq {Binder}
  /\ routes \in Seq(Declarations)
  /\ \A p \in Procs : slice[p] \in Seq(Declarations)
  /\ next \in Nat
  /\ DOMAIN router \subseteq Verbs \X {Node[p] : p \in DOMAIN Node}
  /\ \A s \in Requests : DOMAIN ops[s] \subseteq (DOMAIN Node) \X Verbs
  /\ todo \in [Requests -> SUBSET DOMAIN Node]
  /\ known \in [Requests -> Nat]

\* A MakeHandler call that has returned has its route in the registry, once,
\* however many of them ran at once (handler/types.go:144-152).
NoRouteLost ==
  \A d \in Declarations : pc[d] = "made" =>
    Cardinality({i \in DOMAIN routes : routes[i] = d}) = 1

\* What a document says of operations when generated from these routes: for
\* each path and verb, the declaration that came last.
Documented(rs) ==
  LET key(d) == <<Route[d].path, Route[d].verb>>
      Shadowed(i) == \E j \in DOMAIN rs : j > i /\ key(rs[j]) = key(rs[i])
  IN  {<<key(rs[i]), rs[i]>> :
         i \in {i \in DOMAIN rs : Route[rs[i]].verb \in Verbs /\ ~Shadowed(i)}}

\* A document shows the registry as it was at one moment while the document
\* was made, so all routes declared before it was asked for
\* (swagger/generator.go:82-98, handler/types.go:186-194).
DocumentIsASnapshot ==
  \A s \in Requests : pc[s] = "replied" =>
    \E k \in known[s]..Len(routes) :
      {<<key, ops[s][key]>> : key \in DOMAIN ops[s]} = Documented(SubSeq(routes, 1, k))

\* A handler the router serves has its place in every later document: the two
\* agree on which of several declarations counts (handler/types.go:170-214
\* against swagger/generator.go:104-128).
ServedIsDocumented ==
  \A s \in Requests : pc[s] = "replied" /\ pc[Binder] = "bound" /\ known[s] >= next =>
    \A k \in DOMAIN router : \E path \in DOMAIN Node :
      /\ Node[path] = k[2] /\ <<path, k[1]>> \in DOMAIN ops[s]
      /\ \/ ops[s][<<path, k[1]>>] = router[k]
         \/ \E i \in DOMAIN routes : i > next /\ routes[i] = ops[s][<<path, k[1]>>]

\* The names of body types that routes of two paths take for two types.
Disputed(rs) ==
  {Route[rs[i]].body.name : i \in {i \in DOMAIN rs : \E j \in DOMAIN rs :
     /\ Route[rs[i]].path # Route[rs[j]].path
     /\ Route[rs[i]].body.name = Route[rs[j]].body.name
     /\ Route[rs[i]].body # Route[rs[j]].body}}

\* Each document walks the map of paths in an order of its own.  Two made from
\* the same routes have the same operations and define the same names; a
\* definition is the same too, unless types of two paths dispute its name, when
\* it is that of the path walked last (swagger/generator.go:86-98, 313-317).
SameRoutesSameDocument ==
  \A s, t \in Requests :
    pc[s] = "replied" /\ pc[t] = "replied" /\ slice[s] = slice[t] =>
      /\ ops[s] = ops[t] /\ DOMAIN defs[s] = DOMAIN defs[t]
      /\ \A name \in DOMAIN defs[s] :
           defs[s][name] # defs[t][name] => name \in Disputed(slice[s])

\* What ServedIsDocumented rests on.  Nothing in the code sees to it: a route
\* in small letters is documented in place of the one that is served.
SpelledAlike ==
  \A d, e \in Declarations :
    Route[d].verb = Route[e].verb /\ Route[d].path = Route[e].path =>
      Route[d].exact = Route[e].exact

\* Every call returns: no interleaving of writers and readers blocks for good
\* (handler/types.go:144-152, 160-161, 187-188).
EveryCallReturns == <>[](\A p \in Procs : pc[p] \in {"idle", Finished[p]})
===============================================================================
