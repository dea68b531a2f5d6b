# japi-core: a TLA+ development

japi-core is a Go framework for JSON APIs: a chi router with middleware, *typed
handlers* whose parameters and body are parsed into Go structs, an error model,
a Prometheus collector, a request log, `database/sql` helpers, and an OpenAPI
generator fed by a registry of routes. The repository also carries its work
coordination in shell: append-only logs (`wlog.sh`, `rlog.sh`), a manifest
renderer (`wrender.sh`) and the conduct board (`conduct-board.sh`), which lets
work items in several repositories advance through phases in step.

The modules in this directory model those parts, TLC checks them on small
instances, and TLAPS proves, for every value of their constants, two refinements
and every safety property that the passing runs check. Paths below are relative to the repository's root.

## Inventory

| Part (source) | State it keeps | Operations | Who it meets |
|---|---|---|---|
| Request lifecycle (`handler/adapter.go`, `router/chi.go`, `core/handler.go`, `core/response.go`, `middleware/typed/response.go`) | per request: error on its way up, response sent so far | dispatch, handler, `ResponseJSON`, error sinks, recovery | user handlers, both response writers |
| Metrics and request log (`metrics/prometheus.go`, `middleware/http/logging.go`) | in-flight gauge, `requests_total`, status captured by each writer wrapper | `Middleware`, `WriteHeader`, `Write` | every request at once |
| Transactions, queries (`db/query.go`, `db/connection.go`) | a transaction, its connection, its done flag | `WithTx`, `QueryOne`, `QueryMany`, `Connect` | `database/sql`'s goroutine, contexts, other calls on the pool |
| Route registry (`handler/types.go`) | `reg.routes` under an RWMutex, the chi tree | `MakeHandler`, `RegisterWithRouter`, `GetRoutes` | the generator, one another |
| OpenAPI generator (`swagger/generator.go`, `swagger/routes.go`) | the document in the making: its definitions, and a call stack over Go types | `GenerateSpec` per request, schemas of parameters, bodies and responses | the registry; `ParseParams` and `encoding/json`, which it must agree with |
| Conduct board (`scripts/conduct-board.sh`, `rlog.sh`, `wlog.sh`, and `wrender.sh` on the parent's manifest) | what its pass has folded so far; barriers in `relays.jsonl` and in the parent's manifest | fold, verdict, `inject_block`, push, watch loop | workers in other repositories, a human, the sync, the renderer |
| Typed request middleware (`middleware/typed/*.go`) | context values, the consumable body | `ParseParams`, `ParseBody`, `ParseHeaders`, `ParseCSVBody`, `ParseJSON`, auth, request id | one another, in an order the user picks |
| HTTP request id, content type (`middleware/http/`) | none | copy or make a header | - |
| Nullable context values (`handler/nullable.go`) | value and presence | `Value`, `TryValue`, ... | handlers |
| Error helpers, validation rules, JWT (`core/errors.go`, `middleware/validation/`, `jwt/`) | none | predicates | - |
| Work log and manifest renderer (`wlog.sh`, `wrender.sh`) | `work.jsonl`, `manifest.md` | append, render | the board replaces the same file |
| Epic board, work index (`epic-board.sh`, `windex.sh`) | none | reports | - |

What is hard in each, and what makes it correct:

* **Lifecycle and writers.** Three parties (handler, `ResponseJSON`, error sink)
  may each send a header, through two wrappers that treat a second header
  differently, and a panic may unwind from any point. Correct means: what is
  counted and logged is what the client got, the gauge never drifts, a typed
  chain replies once, every request ends.
* **Transactions.** The caller's `Commit`/`Rollback` races with the rollback
  `database/sql` does when the context ends; callbacks may hold a second
  connection. Correct means: atomic towards the caller, nothing leaked, stuck
  only where the pool itself is exhausted.
* **Registry and documents.** Appends, binding and copies interleave; the router
  and the document pick among duplicates independently; the document walks a Go
  map. Correct means: no route lost, a document is a snapshot, what is served is
  documented, and map order shows nowhere but where two types dispute a name.
* **Schemas.** Recursion over the types of a program, which may embed, nest, list
  and repeat one another; definitions are entered after the calls that make them.
  Correct means: every reference resolves, a definition is what `encoding/json`
  makes of the type, what is parsed is documented, and the walk ends.
* **Conduct board.** Nothing is atomic: logs grow while they are folded, read
  after read and row after row; workers act on barriers pushed a while ago;
  members escalate, resume or are cancelled; pushes fail in silence and the board
  is interrupted half way; the renderer and the board both replace `manifest.md`
  after reading it, so that a slow renderer undoes a barrier. Correct means: to
  the members the run looks as if they saw one another; nobody is two phases ahead
  of a member in play, nobody leaves unanswered relays behind, "complete" is true,
  the run gets there and everyone learns of it, no block being lost for good.
* **Typed middleware.** Middleware compete for one body, keep a parsed form, and
  hand copies of a context inwards; their order is the caller's choice; a text is
  converted to the type of a field, which may be narrower than what was parsed. Correct
  means: the handler runs just on requests every middleware accepts, with values
  that were parsed and validated from this request, whatever the order.

`PROJECT.json` lists each hazard at its line with the properties aimed at it.

## Modules and how they correspond to the code

`PROJECT.json` maps every definition to the lines it stands for.

**HttpErrors** - the errors that travel up a chain, by what the sinks can tell
apart: nil, a bare `*core.APIError`, one behind `%w` (which a type assertion does
not see), a context error at any depth (which `errors.Is` sees), anything else.
Two operators give the status each sink answers with.

**ResponseWriter** - one response on its way out, as a record: what the
connection has sent, what the request log's wrapper and the metrics' wrapper have
recorded. `Stack` is the order in which the two were passed to `router.Use`;
`WriteHeader` and `Write` are the effect of a handler's call through all of them.

**RequestLifecycle** (EXTENDS both) - any number of requests, one goroutine each.
`EnterLayer`/`LeaveLayer`/`UnwindLayer` are the code before `next.ServeHTTP`,
after it, and its deferred part under a panic. `HandlerSends*`, `HandlerReturns`
and `Panic` are the user's handler together with the request middleware in front
of it, as what the rest of the code sees of them. `SendSuccess`, `Encode`,
`EncodeFails` are `ResponseJSON` with `core.JSON`; `SinkIsSilent`,
`SinkSendsError`, `SendErrorBody` are `AdaptHandler`'s switch, or
`core.HandlerFunc.ServeHTTP` for the paths in `PlainPaths`. `total` is the
counter vector, from label to count.

**AtomicTx** - abstract: what `WithTx` promises a caller. Work is committed only
after its callback succeeded, success is reported only for committed work, and
after the reply nothing is committed any more.

**WithTx** - `db.WithTx` step by step: `Begin*`, the callback (`FnReturns`,
`FnPanics`, and a query over `ctx.DB` that needs a connection of its own),
rollback and commit. `database/sql` is outside the repository and is modelled
from the way it is used: the pool (`ConnFree`, its limit taken for granted), `Tx.done` claimed by
`ClaimCommit`, `ClaimRollback` or `Awake`, and the goroutine that rolls back when
the context ends. `KeepsPromise` is the refinement: `AtomicTx` with
`fate <- server` and a verdict and reply read off the caller's state.

**Registry** - `MakeHandler` split at the mutex into read and append,
`RegisterWithRouter` route by route under its read lock, `GetRoutes`, and the
generation of a document path by path in any order. A route is its verb, whether
the verb is spelled in capitals (only then does `registerRoute` bind it), its
path and its body type; `Node` says which paths share a node of chi's tree. The
routes a loop of the code collects are a set of indexes (`Group`), since all that
becomes of them is decided by the last one written (`LastOf`, and `Over` for what
assigning to a Go map leaves).

**Schema** - the walk of `swagger/generator.go` over the struct types of a
program. Its recursion is an explicit `stack`, a frame to each call of
`generateSchemaFromStructWithDefinitions` or `addParametersFromStruct`: `Promote`,
`Define` and `Inline` are the recursive calls (into an embedded struct, a named
one, a nameless one), `EndEmbedded`, `EndDefinition`, `EndInline` what the caller
does with the result, `SkipField`, `PutPlain`, `Refer` and `PutParameter` the
fields that need no call. `Visit`, `EndRoot` and `EndParams` are the parts of an
operation. A call with no room on the stack is the end of the process
(`state = "dead"`), as a Go stack overflow cannot be recovered. A schema is a
function from paths of property names to nodes.

**GoJSON** (EXTENDS Schema) - the reference definition: what `encoding/json` makes
of a struct, taken from `encoding/json` and from nothing the generator does with a
field. `Embeds` says which structs it looks into (by value or by pointer, unless the
tag gives a name or is `"-"`), `Shown` and `GoName` which fields it encodes and
under which names (exported ones with no tag too, names with their capitals). A
*way* is a list of embedded structs, each in the one before, that ends at a field;
of the fields with one name, that of the shortest way is a member, or of equally
short ones the only one named by its tag (`TypeFields`). The object is given by its
members' names and by the chains of members through structs written in place
(`Chains`): `Encodes` says that the paths of a schema are those chains' names,
neither fewer nor more, and what each path's node is. Schema gets there depth-first
and by precedence, with no regard to depth, and judges fields by rules of its own.
`DefinitionsAreEncodings` says that it comes to the same for programs that are
`Encodable`: what the two rules see alike of each field is `SeenAlike`.
`schema_embeds` shows programs where it does not.

**Conduct** - one run: members with their logs, each represented by what the
board folds from it. The board is a sequential process with its reads kept
apart: the resolved slugs once, then for each row the phase, the status and the
relays, then the manifest block, then a push per child. Workers, the sync and
the human are what the scripts say of them (`phase_slash` prints the worker's
instructions), marked as external where no script does the step. `RenderReads` and
`RenderWrites` are a run of `wrender.sh` on the parent's manifest that the board
cuts in on: it holds the block it read (`carried`), or its absence, and writes it
back. A run nobody cuts in on keeps the block and is no step. A member may escalate
whenever it is active, at work or not, before the fold has read its row or after.
`Begin` takes the resolved slugs of all logs in one step, where the code reads log
after log: slugs are only ever added, so what the code gets lies between two such
readings, and an earlier one only holds the barrier back longer.

**Lockstep** - abstract: the header of `conduct-board.sh` as a system without logs,
folds, pushes or manifest. `MayEnter` is the promise, phases and relays together;
`Tell` is the word that the run is complete. `KeepsStep` is the refinement:
`settled <- done`, `left <- escalated`, `answered <- resolved`, `busy` the phase a
member is at work on, `over` whether any barrier says "complete". The board's own
steps map to stutters or to `Tell`.

**TypedChain** - one request through the middleware list a handler was made with.
`pos` is the layer that runs, `ctx[k]` the context the k-th layer was called with
(a Go value: what a layer sets, only inner layers see). `Pass` and `Refuse` are
`next(ctx, w, r)` and a return with an error. The request's body can be read
once, by `ParseBody` or by the first `ParseMultipartForm`, and the parsed form is
kept. On the way out `LogsOutcome` and `Responds` do what `WithLogging` and
`ResponseJSON` or `ResponseJSONFile` do after `next`. A handler has one parameter,
of any type `setFieldValue` knows and one it does not; `Convertible` says which
texts the conversion takes, `FieldValue` what is then in the field (`LowBits` and
`Signed` are what reflection's setters keep of a number of `2 * Whole` values, the 64
bits that `strconv` parses, in a field of `2 * Half`), and `ValidValue` what its validation makes of that. `required` tells `required` from
rules like `required_if`, which `isRequired` takes for the same. `AuthError` has each of
`RequireAuth`'s answers: no token, no secret configured, a bad token, and the two that
the application's validator gives. To
RequestLifecycle all this is `HandlerReturns` with one of `HandlerErrors`.

**MCRequestLifecycle, MCWithTx, MCRegistry, MCSchema, MCConduct, MCTypedChain** give
the constants of the runs. Definitions under a comment "Mutant of X" are plausible defects of X; no
specification uses them. Putting one in the place of X must break the property
named with it in `PROJECT.json`.

## Runs

| Run | Instance | What it shows |
|---|---|---|
| `lifecycle` | two requests, four paths (two of one pattern, one plain, one missing), metrics inside logging | `InFlightExact`, `TotalIsWhatClientsGot`, `LoggedStatusIsSent`, `OneReply`, `EveryRequestEnds` |
| `withtx` | two calls, two connections | `NothingLeftBehind`, `KeepsPromise` (refinement), `CancelBeforeCommitAborts`, `StuckOnlyOnPool`, `TimeoutsUnstick` |
| `withtx_cancel` | one call, one connection | violated: `ContextErrorsSurface` |
| `registry` | three declarations (two of one verb and path, one lower-case verb, two body types of one name), two documents | `NoRouteLost`, `DocumentIsASnapshot`, `ServedIsDocumented`, `SameRoutesSameDocument`, `EveryCallReturns` |
| `schema` | three struct types, 9,492 programs, two parts each | `EveryRefResolves`, `DefinitionsAreEncodings`, `ParsedIsDocumented`, `DocumentIsServed` |
| `schema_embeds` | a struct embedded by pointer, with a nameless tag, with `"-"` | violated: `DefinitionsAreEncodings` |
| `schema_recursive` | a type that holds a slice of itself | violated: `DocumentIsServed` |
| `conduct` | a parent and two children, two relays, one trouble (586,051 states) | `BarrierHolds`, `AnsweredBeforeNextPhase`, `CompleteMeansValidated`, `CompleteMeansAnswered`, `SettlesInTurn`, `BarrierOnlyAdvances`, `KeepsStep` (refinement), `EveryoneIsTold` |
| `conduct_cancel` | the human may cancel an escalated child | violated: `RunCompletes` |
| `conduct_watch` | `--watch --write` | violated: `WatchGoesOn` |
| `chain` | every order of seven sets of middleware and a list with a repetition, eight handler types, requests with at most one fault (426,544 states) | `EveryGuardHolds`, `ContextIsTheRequest`, `UnreadUntilAccepted`, `LogTellsOutcome`; no deadlock: no layer is stuck with a request |
| `chain_slices` | the same | violated: `UploadsOfEitherKindPass` |

### Bounds, and why they are enough

* `lifecycle`: requests interact through the gauge and the counters only, so two
  show every interaction: the same label twice, two labels, and one panicking
  while another counts. Handlers write 404 on their own, return nil, a 404
  `APIError`, or a context error, and the encoding may fail with a 500: the sink,
  the handler and `ResponseJSON` then disagree on the status wherever they can.
  Handlers send *final* statuses: after an informational 1xx the metrics wrapper
  takes that for the final one and `TotalIsWhatClientsGot` fails; no document says
  what is meant there, so it is a listed hazard and not a finding. `Asked` leaves
  out POST for paths where the method changes nothing but a label.
* `withtx`: two calls meet on the pool in every way: both served, one waiting for
  the other, and both holding one connection and asking for a second. That last
  one is the deadlock `StuckOnlyOnPool` makes room for; `TimeoutsUnstick` shows
  that a timeout (the router's, for instance) resolves it. A callback uses
  `ctx.DB` at most once.
* `registry`: a third declaration lets appends land before, between and after
  whatever the binder or a document reads. Two of the paths have body types of one
  name, so that the order of a walk does show, and only there. The calls of a document besides the
  binder's are independent, two suffice to compare map orders.
* `schema`: an Order of two fields, an Item of one or two, a Note of one, holding
  one another in every way (embedded, as a property, in a list, embedded with a
  tag) under two names, so that shadowing, a type met twice, and a type met by
  way of another in the making all occur; a Note may be nameless. Programs are
  acyclic, so three types nest three deep and `MaxDepth = 5` is never reached:
  the overflow is `schema_recursive`'s. The passing run has the programs that are
  `Encodable`: it leaves out fields that the generator and `encoding/json` see
  differently (`SeenAlike`; `schema_embeds` has the embeddings among them), programs
  in which fields compete (`NoRivals`): at one depth, where `encoding/json` drops both
  and no document says what the generator should do, or in two embedded structs at
  different depths, where the generator goes by the order of declaration (below);
  and types that share a name. Fields that no rule shows (unexported and without a
  tag) are in. Of the proofs only `DefinitionsEncode` assumes it.
* `conduct`: three members are the fewest where one can lag while two differ; the
  relays cover both kinds, an ask to a sibling in the middle of the run and the
  e2e-needs to the parent at its end. `MaxTroubles = 1` bounds escalations, failed
  pushes, interrupts and slow renderers *together*: one trouble of any kind at any
  point, which is the shape of each hazard listed; more are covered by the proofs
  as far as safety is concerned, where `MaxTroubles` is any number; a member escalates
  once at most in the model, there too. `EveryoneIsTold` is
  stronger than `RunCompletes`, which is therefore checked only where it fails.
* `chain`: the sets pair each body reader with what must come before or after it
  (authentication, request id, log, response, another reader). Requests have one
  fault each, of every kind the middleware distinguish: a second fault cannot
  matter to a middleware that stops at the first. There is a handler for each
  type of parameter, and a text of each form, among them numbers that fields of 8 bits
  cut to a valid value (261 is 5) or to an invalid one, a negative one for
  the unsigned type, and numbers that only the unsigned conversion takes or none
  does (600 and 1100, with `Whole = 512` for 2^63). Two readers of one body are in two of the sets, in both
  orders: that the handler runs *only* on requests all its middleware accept,
  and what its context holds then, is checked for those too; that it runs on all
  of *them*, and what the log says, only for lists with one reader. What the log
  says is also asked only of lists that name `WithLogging` once, as two of them
  write four lines. Longer lists and other repetitions are the proofs'.

### Fairness

Every liveness property assumes weak fairness only. Each goroutine that can run
does run (`Serve(r)`, `CallerStep`, `AwaiterStep`, `Making`, `Binding`,
`Replying`): that is the Go scheduler's promise. Arrivals, context ends and
`MakeHandler` calls are never forced. Handlers and callbacks return, and the
database answers: without that no framework code can end. `PoolGrants` needs only
weak fairness where two calls meet two connections, as a freed connection stays
free for the last one waiting. For the conduct board the workers go on with what
their instructions allow, the conductor syncs and re-runs the board, and
somebody decides of an escalated member: those are the roles `phase_slash` and
the header of `conduct-board.sh` describe. Escalations, failures and interrupts
are never forced, and the renderer gets no fairness: `EveryoneIsTold` holds
whether it ever writes or not. The generator is one goroutine that runs on.

`CHECK_DEADLOCK FALSE` stands in `registry.cfg`, where the system stops when all
calls have returned, in `conduct_watch.cfg`, where the watching script may end, and in
`schema.cfg` and `schema_recursive.cfg`, where generation ends with the request or
the process.

## Proofs

Checked by `tlapm` for every value of the constants that satisfies the modules'
`ASSUME`s (finite sets of calls, a pool of at least one; at least two distinct
rows, relays between members; fields and parts drawn from the declared types; a
stack of the two middleware in either order, or fewer). A theorem that needs more
says so in its own `ASSUME`; those hypotheses are listed at the end of this section.
None of the properties is inductive as it stands, so each module states an
invariant that is (`IInv`, and what its name adds to it). Each was a formula TLC
found to hold on the run's instance, as far as it can be evaluated, before it was
proved.

**WithTx_proofs.** `TypeCorrect`, `NothingLeft`, `CancelAborts`
and `Implements`. None of the invariants is inductive: that a finished call left
nothing behind depends on who has claimed the `done` flag. `IInv` adds, per call,
that a transaction's parts exist together (`Parts`), that whoever set `done` is
the one process that is ending it and is between its claim and its result
(`OneEnds`), which program points go with which verdict (`Verdicts`), and what a
commit and a reported success imply of each other (`Replies`). That the pool keeps
to its limit is not among them: it is `database/sql`'s, and assumed. `Implements` maps each
step to a step of AtomicTx or a stutter; the steps that settle a transaction and
return at once map to `CommitAndReply` and `AbortAndReply`.

**Conduct_proofs.** `TypeCorrect`, `BarrierKept`, `InTurn`, `CompleteIsValidated`.
`BarrierHolds` alone says nothing of the board. `IInv` adds `Folded` (the minimum
taken so far is at most the phase each judged row has *now*: phases only rise, and
a row that escalated later only matters if the fold saw an escalation), `Barriers`
(every barrier still lying in a log, in the manifest or in a renderer's hands was
right and stays right) and `OutOfPlay` (a member leaves play
by an escalation, and is then at work on nothing). The lemma `VerdictIsRight` turns a finished fold into a right barrier,
`LogsOnlyGrow` shows no worker's step can spoil one. `OnlyAdvances`
(`BarrierOnlyAdvances`) relates two passes of the board, of which the first may
have been cut short: `Unhurried` adds that while nobody has escalated, no barrier
still being read or carried is more than a phase ahead of any member's settled
phase, of the minimum folded so far, or of the phase just read (`NotAhead`), so
that the next verdict (`VerdictIsNext`) is never behind one.

**Lockstep_proofs** (EXTENDS Conduct_proofs). `AnsweredFirst`,
`CompleteIsAnswered` and `Implements` (`KeepsStep`), for any number of members and
any relays, under `UniqueSlugs`: what `conduct-board.sh:231` says of the slugs of a
run, without which a relay passes for answered when another one is. `JInv` adds to
`IInv` that a fold which found no open relay is right of the phases below its
minimum, as their senders have gone on and send no more of them (`Counted`), and
that a worker may rely on that for any barrier it may find (`AllQuiet`).
`Implements` rests on one step for each action: `Start` is an `Enter` by
`BarrierHolds` and `AnsweredBeforeNextPhase` after it, `Settle` a `Finish`, and a
step of the board or the renderer is a `Tell` if it makes or takes back the only
"complete", else a stutter.

**Schema_proofs.** `TypeCorrect` and `RefsResolve`, for any programs, with cycles,
rival fields and nameless types, and any `MaxDepth`. `EveryRefResolves` says
nothing of who called whom. `IInv` adds to the types (`Typed`, where schemas are
functions on sequences of names) how neighbouring frames fit (`Fits`): a caller
stands at the field its callee is about, one with a JSON name if the callee makes
a definition or an inline schema, and only a part's own call has no caller
(`Stacked`). A definition is complete when it is entered (`Written`), so what a
returning call hands over refers to definitions only. `MoveKeeps` is the core:
the top frame, or after a return its caller, moves past the field it is at.
`ParametersAreDocumented` (`ParsedIsDocumented`) compares two walks of one struct:
`ParseParams`'s over its top-level fields and the generator's, which goes into embedded
structs on the way. `Documenting` says that of the frame that stands for the
parameter struct every field before the one it is at is in the operation
(`Stands`), that frames above it only add, and that a finished part keeps what
it has (`PartDone`).

**GoJSON_proofs** (EXTENDS Schema_proofs). `DefinitionsEncode`
(`DefinitionsAreEncodings`): the depth-first walk, which merges what calls return
and never looks at depth, arrives at the object that is defined by depth.
`Encoding` adds to `IInv` what each call on the stack has done so far and what it
is for. `Halfway` says that a frame at its k-th field requires the names of the
ways that start before that field, has a property for each of these names, and
that what lies under a name is the value of a shallowest field of that name: a
reference, or again the object of a struct in place. `Asks` ties a callee to the
field its caller stands at, and `DefinesRight` is the property itself while calls
are still running. Putting a property replaces all that was there under its name
(`PutIsHalfway`), rightly, as a field of the struct itself is the shallowest there
can be. Merging an embedded struct keeps what the parent has (`MergeIsHalfway`),
rightly, as without rivals the way to it is no longer (`EarlierIsShallower`). Where
a call ends, `AllIsFound` makes its ways those of the reference, which are cut off
at `MaxDepth`: `Shallow` says that the deeper a call, the shorter the ways it has
followed. `CompleteIsEncoding` turns the finished frame into the object, path by
path: `PathIsChain` and `ChainIsPath` are its two directions, each a step from the
struct's members to the object of one in place.

**RequestLifecycle_proofs.** `TypeCorrect`, `GaugeExact`, `RepliesOnce`,
`CountsAreRight`, `LogIsRight`. `Shape` ties the layers a request is in to where
its goroutine is, which makes the gauge exact through returns and panics alike.
`IInv` adds, per request, what each stage may have sent (`Reply`), which errors go
up from where (`ErrorUp`), and that the metrics wrapper's record is the status
that has gone out or still will (`Metered`): a handler, `ResponseJSON` and a sink
may each send a header, and only the first counts, for the connection and for the
wrapper. The counter map is proved right through what one more request adds to a
label's count; the log's line through `Logged`, that its wrapper saw what the
metrics saw.

**Registry_proofs.** `TypeCorrect`, `RoutesAreKept`, `DocumentsAreSnapshots`,
`ServedAreDocumented`, `MapOrderLeavesNoOtherTrace`. `Guarded` is the lock: at most one
call is between reading the slice and storing it, and what it has read is still
what there is, so routes only grow at the end (`Grows`). `IInv` adds that a
request's slice is a prefix of the routes not shorter than when it was asked for,
that a document is exactly what the walked paths give, and that the router holds
the last of the exactly spelled declarations of each verb and node bound so far.
`LastIsThere` gives the last of a set of indexes. `MapOrderLeavesNoOtherTrace` has no
hypothesis: a definition is that of the last route, among those with its name, of
the path walked last (`Final`), so that two documents which differ in it have
routes of two paths and two types of that name (`Disputed`).

**TypedChain_proofs.** `TypeCorrect`, `GuardsHold`, `BodiesWait`, `ContextsAreTrue`,
`LogsTellOutcomes`, for lists of any length and order, with repetitions, and fields
of any width. `IInv` says that the layers passed are layers that accept the request
(`Guarded`), what is left of the body and by whose reading (`Reads`), what the k-th
context owes to the layers before it, field by field (`Contextual`), and where the
one `WithLogging` stands between its two lines (`Lined`): what it logged is what the
layers inside it made of the request, and a responder outside changes that only by
failing to send (`VerdictStays`). Each middleware has a
lemma on what it accepts and sets.

**Hypotheses of single theorems.** `UniqueSlugs` (Lockstep_proofs, above).
`FinalCodes` (`RepliesOnce`, `CountsAreRight`, `LogIsRight`): no handler sends, and
no error carries, an informational status; without it `CountsAreRight` fails, which
is a listed hazard. `LogOutside` (`LogIsRight`): the log is added before the
metrics; the other order is treated below. `SpelledAlike` (`ServedAreDocumented`):
no method is spelled in two ways for one path. `EmbeddedAreUntagged` (`ParametersAreDocumented`): no
embedded struct carries a parameter's tag; `ParseParams` would refuse the request
(`middleware/typed/request.go:294`). `ProgramsAreEncodable` (`DefinitionsEncode`): the
generator and `encoding/json` see every field alike, no two fields compete for a
name, a name belongs to one type, and bodies and responses have one. The instances of the passing runs
satisfy all of them.

### What is only model-checked

Liveness (`EveryRequestEnds`, `StuckOnlyOnPool`, `TimeoutsUnstick`,
`EveryCallReturns`, `EveryoneIsTold`, `DocumentIsServed`, and that no layer of a
chain is stuck) is beyond the prover, as is `ENABLED`. Every invariant and every
action property of the passing runs has its theorem.

## Where the code disagrees with its words

1. `withtx_cancel`: when `database/sql` has rolled back first, the callback's
   context error is returned as text, and `errors.Is` does not find it.
2. `conduct_cancel`: a cancelled child counts in the minimum again and holds the
   run up for good.
3. `conduct_watch`: after a pass that pushed something the watching script exits.
4. `schema_embeds`: the generator flattens neither a struct embedded by pointer nor one
   whose tag gives no name, and flattens one with the tag `"-"`, under the words "This
   matches Go's JSON marshaling behavior" (`swagger/generator.go:437`).
5. `schema_recursive`: a route whose types are recursive makes `/swagger.json`
   overflow the stack, which ends the process.
6. `chain_slices`: every JSON upload into a slice is refused.

Others have no run of their own. Of two embedded structs that share a name the
generator keeps the field of the first declared, however deep it lies
(`swagger/generator.go:448-452`, under the same words), and `encoding/json` the shallowest: with an Order that embeds first a
struct which itself embeds the one with `x`, and then one with an `x` of its own,
`DefinitionsAreEncodings` fails. Besides, an exported field without a tag is encoded and
not documented (`:477`), and one whose tag gives no name is documented in small letters
(`:484`): `SeenAlike` leaves both out.

Of two body types of one name, from different packages, one path's documents the
other's bodies (`swagger/generator.go:317`), and which one changes from request to
request with the order of a Go map; `swagger-generation.md:23` says "the docs
reflect exactly what is registered and nothing else". `SameRoutesSameDocument` says how
far that goes.

`WithLogging` "should be the LAST middleware in the list", where it wraps "all other
middleware" (`middleware/typed/logging.go:13-14`, and again at `:28`). The first of a
list is the outermost (`handler/types.go:138-141`), so at the end it wraps only the
handler: it logs nothing of a request that authentication or a parser refuses, and
success for a response that could not be sent. `LogTellsOutcome` says what its lines
tell at any place of the list; wherever `WithLogging` is listed behind a layer that
refuses, that is the opposite of what these comments promise.

For a handler without a body (`struct{}`), `docs/kb/self/capabilities/typed-middleware.md:51-53`
has the middleware set the body to empty and skip parsing. `ParseBody` does;
`ParseJSON` parses the upload all the same and sets a present value
(`middleware/typed/json.go:30-66`), which is what `ContextIsTheRequest` has for it.

A response whose encoding fails after its
header was sent goes out as an envelope with code 500 under status 200 or 201,
against `docs/kb/self/capabilities/error-response-model.md:63-64`. And the
e2e-needs relay of the conduct board is named after the repository alone, so that
an earlier run's resolution closes it unanswered: with its slug in
`SettledElsewhere`, `CompleteMeansAnswered` fails.

`docs/kb/self/capabilities/typed-middleware.md:72` has the parsers independent of
their order: with `ParseBody` and an upload parser in one list, which of them comes
first decides, as one body is read once. `README.md:1122`
and `auth.go:38` pass `RequireAuth(...)` in a middleware list; it takes the next
handler as its third argument and returns a handler, so it must be wrapped first.
`db.Connect` refuses a `MaxOpenConns` of 10 on its own, as `MaxIdleConns` defaults
to 25.

A method spelled in lower case is documented but not bound
(`handler/types.go:170-214`); declared after the same method in capitals for one
path, it takes that one's place in the document, and what is served is not what is
shown. `SpelledAlike` leaves that out of `ServedAreDocumented`.

With the request log *inside* the metrics middleware `LoggedStatusIsSent` fails as
well: a second, superfluous header is then what is logged.

## Not modelled, and why

* **Error helpers, JWT**: stateless predicates over strings or library calls; no
  step, no order, no sharing. **Validation rules**: `validation/setup.go` is
  documentation around an empty struct that nothing uses; the rules are
  the application's, and TypedChain takes their verdict from the request.
* **Which routes the document shows as authenticated**: `MakeHandler` decides it by
  the runtime name of a middleware function, whose spelling for instantiated
  generics is the compiler's.
* **CORS and preflight requests**: decided by `go-chi/cors` from options set before
  serving, with no state of this code's.
* **Epic board, work index**: reports; the epic board's fold is the conduct
  board's without the push.
* **Layout of the document**: types of plain fields, validation constraints, examples,
  standard responses, summaries, tags. Definition names are atomic: what the
  slashes in the name of an instantiated generic type do to a `$ref` does not show.
* **Register mode, nested parents, discovery** of the conduct board; **Exec,
  HealthCheck, idle connections** of `db`; the **duration histogram** and the
  `/metrics` endpoint.
* **The rest of `wrender.sh`**: its other sections are folds of the log alone,
  which the next rendering mends; only the board's region outlives one.
* Torn or concurrent appends to one log: appends are atomic in Conduct.

## Plan

What comes next, each with its runs and theorems:

1. **ResponseWriter on its own**: lemmas on any sequence of `WriteHeader` and
   `Write` through any stack, of which those of RequestLifecycle_proofs are cases.
2. **Nested parents**: Conduct composed with itself, a parent being the child of
   another board; the refinement to Lockstep is what the outer board may rely on.
