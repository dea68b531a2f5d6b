--------------------------- MODULE RequestLifecycle ---------------------------
(***************************************************************************)
(* The life of HTTP requests served concurrently by a japi-core service:   *)
(* down through the router's middleware, into the typed chain or a plain   *)
(* handler, back through the adapter, and up through the same middleware,  *)
(* with panics at any point user code runs.  Each request is its own       *)
(* goroutine; what they share is the metrics collector.  A client that     *)
(* hangs up is seen here only as the code sees it: an error in which       *)
(* errors.Is finds context.Canceled, or a write that fails.                *)
(***************************************************************************)
EXTENDS HttpErrors, ResponseWriter, Integers, FiniteSets

CONSTANTS Requests,       \* identities of requests
          Paths,          \* URL paths
          Pattern,        \* the registered path -> its route pattern
          PlainPaths,     \* the registered paths that have a core.HandlerFunc
          Asked,          \* the methods and paths clients ask for
          HandlerCodes,   \* statuses a handler writes on its own
          HandlerErrors,  \* errors a handler, or a middleware before it, returns
          ReplyError      \* the error of a failed response encoding

ASSUME LifecycleAssumption ==
  /\ IsFiniteSet(Requests)
  /\ DOMAIN Pattern \subseteq Paths /\ PlainPaths \subseteq DOMAIN Pattern
  /\ Asked \subseteq {"GET", "POST"} \X Paths
  /\ HandlerCodes \subseteq Nat
  /\ HandlerErrors \subseteq Errors /\ NoError \in HandlerErrors
  /\ ReplyError \in Errors /\ ReplyError.kind = "api"

VARIABLES
  pc,        \* pc[r]: where request r's goroutine is
  depth,     \* how many layers of Stack it is inside of
  method,    \* the request's method
  path,      \* the request's URL path
  touched,   \* what the handler sent by itself
  err,       \* the error on its way up the chain
  w,         \* the response
  logLine,   \* the status of the request's "HTTP Response" line, 0 if none
  inFlight,  \* requestsInFlight
  total      \* requestsTotal, from label to count

request == <<method, path, touched>>
vars == <<pc, depth, request, err, w, logLine, inFlight, total>>

Methods == {"GET", "POST"}
Labels == [method : Methods, path : Paths \cup {Pattern[p] : p \in DOMAIN Pattern},
           status : Nat]
PCs == {"idle", "down", "handler", "respond", "encode", "adapter",
        "errorBody", "up", "panic", "done", "recovered"}

\* ResponseJSON and ResponseJSONFile answer 201 to a POST, 200 otherwise.
SuccessCode(m) == IF m = "POST" THEN 201 ELSE 200

\* getRoutePattern: the pattern, or the raw path when no route matched.
RoutePattern(p) == IF p \in DOMAIN Pattern THEN Pattern[p] ELSE p

LabelWith(r, status) ==
  [method |-> method[r], path |-> RoutePattern(path[r]), status |-> status]
Label(r) == LabelWith(r, w[r].counted)

\* The error sink of a core.HandlerFunc is its own.
Status(r) == IF path[r] \in PlainPaths THEN HandleErrorReply(err[r])
                                       ELSE AdaptHandlerReply(err[r])

Go(r, here, there) == pc[r] = here /\ pc' = [pc EXCEPT ![r] = there]

Count(label) ==
  total' = [ l \in DOMAIN total \cup {label} |->
               IF l \notin DOMAIN total THEN 1
               ELSE IF l = label THEN total[l] + 1 ELSE total[l] ]

Init ==
  /\ pc = [r \in Requests |-> "idle"]
  /\ depth = [r \in Requests |-> 0]
  /\ method \in [Requests -> Methods]
  /\ path \in [Requests -> Paths]
  /\ \A r \in Requests : <<method[r], path[r]>> \in Asked
  /\ touched = [r \in Requests |-> {}]
  /\ err = [r \in Requests |-> NoError]
  /\ w = [r \in Requests |-> NewWriter]
  /\ logLine = [r \in Requests |-> NoStatus]
  /\ inFlight = 0
  /\ total = << >>

-------------------------------------------------------------------------------
(* Down the middleware *)

Accept(r) ==
  /\ Go(r, "idle", "down")
  /\ UNCHANGED <<depth, request, err, w, logLine, inFlight, total>>

EnterLayer(r) ==
  /\ pc[r] = "down" /\ depth[r] < Len(Stack)
  /\ depth' = [depth EXCEPT ![r] = @ + 1]
  /\ inFlight' = IF Stack[depth'[r]] = "metrics" THEN inFlight + 1 ELSE inFlight
  /\ UNCHANGED <<pc, request, err, w, logLine, total>>

Dispatch(r) ==
  /\ depth[r] = Len(Stack) /\ path[r] \in DOMAIN Pattern
  /\ Go(r, "down", "handler")
  /\ UNCHANGED <<depth, request, err, w, logLine, inFlight, total>>

\* The mux has no route: http.NotFound.
NotFound(r) ==
  /\ depth[r] = Len(Stack) /\ path[r] \notin DOMAIN Pattern
  /\ Go(r, "down", "up")
  /\ w' = [w EXCEPT ![r] = Write(WriteHeader(@, 404), "raw")]
  /\ UNCHANGED <<depth, request, err, logLine, inFlight, total>>

-------------------------------------------------------------------------------
(* The handler: user code behind the request middleware *)

HandlerSendsHeader(r, code) ==
  /\ pc[r] = "handler" /\ touched[r] = {}
  /\ w' = [w EXCEPT ![r] = WriteHeader(@, code)]
  /\ touched' = [touched EXCEPT ![r] = {"header"}]
  /\ UNCHANGED <<pc, depth, method, path, err, logLine, inFlight, total>>

HandlerSendsBody(r) ==
  /\ pc[r] = "handler" /\ "body" \notin touched[r]
  /\ w' = [w EXCEPT ![r] = Write(@, "raw")]
  /\ touched' = [touched EXCEPT ![r] = @ \cup {"body"}]
  /\ UNCHANGED <<pc, depth, method, path, err, logLine, inFlight, total>>

\* Mutant of HandlerReturns: ResponseJSON answers before it looks at the error.
HandlerReturnsToResponseJSON(r, e, chain) ==
  /\ Go(r, "handler", IF chain = "ResponseJSON" THEN "respond"
                      ELSE IF e # NoError THEN "adapter" ELSE "up")
  /\ err' = [err EXCEPT ![r] = e]
  /\ UNCHANGED <<depth, request, w, logLine, inFlight, total>>

\* ResponseJSON passes an error up untouched and answers a result.  A chain
\* without a response middleware returns to an adapter with nothing to do.
HandlerReturns(r, e, chain) ==
  /\ Go(r, "handler", IF e # NoError THEN "adapter"
                      ELSE IF chain = "ResponseJSON" THEN "respond" ELSE "up")
  /\ err' = [err EXCEPT ![r] = e]
  /\ UNCHANGED <<depth, request, w, logLine, inFlight, total>>

Panic(r) ==
  /\ pc[r] \in {"handler", "encode"}
  /\ pc' = [pc EXCEPT ![r] = "panic"]
  /\ UNCHANGED <<depth, request, err, w, logLine, inFlight, total>>

-------------------------------------------------------------------------------
(* ResponseJSON: core.JSON sends the header, then encodes *)

SendSuccess(r) ==
  /\ Go(r, "respond", "encode")
  /\ w' = [w EXCEPT ![r] = WriteHeader(@, SuccessCode(method[r]))]
  /\ UNCHANGED <<depth, request, err, logLine, inFlight, total>>

Encode(r) ==
  /\ Go(r, "encode", "up")
  /\ w' = [w EXCEPT ![r] = Write(@, "data")]
  /\ UNCHANGED <<depth, request, err, logLine, inFlight, total>>

\* A value JSON cannot express, or a write on a broken connection; either
\* way nothing of the value goes out.
EncodeFails(r) ==
  /\ Go(r, "encode", "adapter")
  /\ err' = [err EXCEPT ![r] = ReplyError]
  /\ UNCHANGED <<depth, request, w, logLine, inFlight, total>>

-------------------------------------------------------------------------------
(* The error sinks *)

SinkIsSilent(r) ==
  /\ Status(r) = Silent
  /\ Go(r, "adapter", "up")
  /\ UNCHANGED <<depth, request, err, w, logLine, inFlight, total>>

SinkSendsError(r) ==
  /\ Status(r) # Silent
  /\ Go(r, "adapter", "errorBody")
  /\ w' = [w EXCEPT ![r] = WriteHeader(@, Status(r))]
  /\ UNCHANGED <<depth, request, err, logLine, inFlight, total>>

\* Mutant of SendErrorBody: back to the sink instead of up.
ResendErrorBody(r) ==
  /\ Go(r, "errorBody", "adapter")
  /\ w' = [w EXCEPT ![r] = Write(@, "error")]
  /\ UNCHANGED <<depth, request, err, logLine, inFlight, total>>

SendErrorBody(r) ==
  /\ Go(r, "errorBody", "up")
  /\ w' = [w EXCEPT ![r] = Write(@, "error")]
  /\ UNCHANGED <<depth, request, err, logLine, inFlight, total>>

-------------------------------------------------------------------------------
(* Back up the middleware, returning or unwinding *)

\* Mutant of LeaveLayer: the deferred Dec, and another on return.
LeaveLayerDecTwice(r) ==
  /\ pc[r] = "up" /\ depth[r] > 0
  /\ depth' = [depth EXCEPT ![r] = @ - 1]
  /\ IF Stack[depth[r]] = "metrics"
     THEN /\ Count(Label(r))
          /\ inFlight' = inFlight - 2
          /\ UNCHANGED logLine
     ELSE /\ logLine' = [logLine EXCEPT ![r] = w[r].logged]
          /\ UNCHANGED <<inFlight, total>>
  /\ UNCHANGED <<pc, request, err, w>>

LeaveLayer(r) ==
  /\ pc[r] = "up" /\ depth[r] > 0
  /\ depth' = [depth EXCEPT ![r] = @ - 1]
  /\ IF Stack[depth[r]] = "metrics"
     THEN /\ Count(Label(r))
          /\ inFlight' = inFlight - 1
          /\ UNCHANGED logLine
     ELSE /\ logLine' = [logLine EXCEPT ![r] = w[r].logged]
          /\ UNCHANGED <<inFlight, total>>
  /\ UNCHANGED <<pc, request, err, w>>

\* net/http ends the response.
Finish(r) ==
  /\ depth[r] = 0
  /\ Go(r, "up", "done")
  /\ w' = [w EXCEPT ![r].wire = FinalStatus(w[r])]
  /\ UNCHANGED <<depth, request, err, logLine, inFlight, total>>

\* Mutant of UnwindLayer: Dec is not deferred.
UnwindLayerWithoutDec(r) ==
  /\ pc[r] = "panic" /\ depth[r] > 0
  /\ depth' = [depth EXCEPT ![r] = @ - 1]
  /\ UNCHANGED <<pc, request, err, w, logLine, inFlight, total>>

\* Of a layer's work after next.ServeHTTP only the deferred Dec is done.
UnwindLayer(r) ==
  /\ pc[r] = "panic" /\ depth[r] > 0
  /\ depth' = [depth EXCEPT ![r] = @ - 1]
  /\ inFlight' = IF Stack[depth[r]] = "metrics" THEN inFlight - 1 ELSE inFlight
  /\ UNCHANGED <<pc, request, err, w, logLine, total>>

\* chi's Recoverer, outside every layer, writes on the bare connection.
Recover(r) ==
  /\ depth[r] = 0
  /\ Go(r, "panic", "recovered")
  /\ w' = [w EXCEPT ![r].wire = SendHeader(@, 500)]
  /\ UNCHANGED <<depth, request, err, logLine, inFlight, total>>

-------------------------------------------------------------------------------
Chains(r) == IF path[r] \in PlainPaths THEN {"plain"} ELSE {"ResponseJSON", "plain"}

Serve(r) ==
  \/ EnterLayer(r) \/ Dispatch(r) \/ NotFound(r)
  \/ \E code \in HandlerCodes : HandlerSendsHeader(r, code)
  \/ HandlerSendsBody(r)
  \/ \E e \in HandlerErrors, chain \in Chains(r) : HandlerReturns(r, e, chain)
  \/ Panic(r)
  \/ SendSuccess(r) \/ Encode(r) \/ EncodeFails(r)
  \/ SinkIsSilent(r) \/ SinkSendsError(r) \/ SendErrorBody(r)
  \/ LeaveLayer(r) \/ Finish(r) \/ UnwindLayer(r) \/ Recover(r)

Over(r) == pc[r] \in {"done", "recovered"}

\* Every request has been served; the server waits for more.
Quiet == (\A r \in Requests : Over(r)) /\ UNCHANGED vars

Next == (\E r \in Requests : Accept(r) \/ Serve(r)) \/ Quiet

Spec == Init /\ [][Next]_vars

\* A goroutine that can run does run; handlers are assumed to return.
FairSpec == Spec /\ \A r \in Requests : WF_vars(Serve(r))
-------------------------------------------------------------------------------
(* Properties *)

TypeOK ==
  /\ pc \in [Requests -> PCs]
  /\ depth \in [Requests -> 0..Len(Stack)]
  /\ method \in [Requests -> Methods]
  /\ path \in [Requests -> Paths]
  /\ touched \in [Requests -> SUBSET {"header", "body"}]
  /\ err \in [Requests -> Errors]
  /\ w \in [Requests -> Writers]
  /\ logLine \in [Requests -> Nat]
  /\ inFlight \in Nat
  /\ DOMAIN total \subseteq Labels
  /\ \A l \in DOMAIN total : total[l] \in Nat \ {0}

InLayer(r, layer) == \E i \in 1..depth[r] : Stack[i] = layer
LeftLayer(r, layer) == pc[r] \in {"up", "done"} /\ ~InLayer(r, layer)

\* The in-flight gauge is the number of requests between the metrics
\* middleware's Inc and its deferred Dec, however each of them leaves
\* (metrics/prometheus.go:151-153): a panicking request takes its unit along.
InFlightExact ==
  inFlight = Cardinality({r \in Requests : InLayer(r, "metrics")})

\* requestsTotal holds exactly the requests that have returned through the
\* metrics middleware, each under the status its client gets, though the
\* wrapper records it from calls it intercepts (metrics/prometheus.go:170-217)
\* and the handler, ResponseJSON and the adapter may each send a header.
TotalIsWhatClientsGot ==
  LET counted == {r \in Requests : Has("metrics") /\ LeftLayer(r, "metrics")}
      got(r)  == LabelWith(r, FinalStatus(w[r]))
  IN  /\ DOMAIN total = {got(r) : r \in counted}
      /\ \A l \in DOMAIN total : total[l] = Cardinality({r \in counted : got(r) = l})

\* The status in a request's "HTTP Response" line is the status its client
\* got.  middleware/http/logging.go:13: "It captures the status code by
\* wrapping the response writer."
LoggedStatusIsSent ==
  \A r \in Requests : logLine[r] # NoStatus => logLine[r] = FinalStatus(w[r])

\* A chain that leaves the writing to ResponseJSON and the adapter sends one
\* reply, of one kind: a result goes out alone under the success status, and
\* an error the handler returned goes out alone under that error's status
\* (middleware/typed/response.go:26-47 with handler/adapter.go:86-114).
OneReply ==
  \A r \in Requests : touched[r] = {} /\ path[r] \in DOMAIN Pattern =>
    /\ "data" \in w[r].body =>
         w[r].body = {"data"} /\ w[r].wire = SuccessCode(method[r])
    /\ pc[r] = "done" /\ err[r] \notin {NoError, ReplyError} /\ Status(r) # Silent =>
         w[r].body = {"error"} /\ w[r].wire = Status(r)

\* Every request that is accepted is over eventually, whatever its handler
\* returns, sends or panics with, given that handlers return.
EveryRequestEnds == \A r \in Requests : pc[r] = "down" ~> Over(r)
===============================================================================
