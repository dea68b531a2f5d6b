------------------------ MODULE RequestLifecycle_proofs ------------------------
(***************************************************************************)
(* Safety of RequestLifecycle, for any number of requests, any routes and  *)
(* handlers, and, where nothing else is said, any stack of middleware.     *)
(***************************************************************************)
EXTENDS RequestLifecycle, FiniteSetTheorems, TLAPS

\* A request is inside every layer while anything but a layer runs, and
\* inside none before it arrives and after it is over.
Position(r) ==
  /\ pc[r] \in {"idle", "done", "recovered"} => depth[r] = 0
  /\ pc[r] \in {"handler", "respond", "encode", "adapter", "errorBody"} => depth[r] = Len(Stack)

Shape == TypeOK /\ InFlightExact /\ \A r \in Requests : Position(r)

\* Handlers write final statuses, and no error carries an informational one:
\* the metrics wrapper takes the first header it sees for the final one.
FinalCodes ==
  /\ \A code \in HandlerCodes : code >= 200
  /\ \A e \in HandlerErrors \cup {ReplyError} : e.kind = "api" => e.code >= 200

\* The request log stands outside the metrics, which keep a superfluous
\* header from it.
LogOutside == Has("logging") => Inside("metrics", "logging")

\* What the metrics wrapper recorded is what has gone out or still will.
Metered(r) ==
  Has("metrics") /\ pc[r] # "recovered" =>
    /\ w[r].counted = FinalStatus(w[r])
    /\ pc[r] # "done" => (w[r].written <=> w[r].wire # NoStatus)

\* The request log's wrapper records the same, and its line is right for good.
Logged(r) ==
  /\ Has("logging") /\ pc[r] # "recovered" => w[r].logged = w[r].counted
  /\ logLine[r] # NoStatus => pc[r] \in {"up", "done"} /\ logLine[r] = FinalStatus(w[r])

\* Which errors go up, from where.
ErrorUp(r) ==
  /\ err[r] \in HandlerErrors \cup {ReplyError}
  /\ pc[r] \in {"idle", "down", "handler", "respond", "encode"} => err[r] = NoError
  /\ pc[r] \in {"adapter", "errorBody"} => err[r] # NoError

\* What a chain that leaves the writing to others has sent, step by step.
Reply(r) ==
  /\ pc[r] \in {"idle", "down"} => touched[r] = {}
  /\ touched[r] = {} /\ pc[r] \in {"idle", "down", "handler", "respond"} => w[r] = NewWriter
  /\ touched[r] = {} /\ path[r] \in DOMAIN Pattern =>
       /\ pc[r] \in {"encode", "adapter", "errorBody", "panic", "recovered"} => w[r].body = {}
       /\ pc[r] = "encode" => w[r].wire = SuccessCode(method[r])
       /\ pc[r] = "adapter" /\ err[r] # ReplyError => w[r] = NewWriter
       /\ pc[r] = "errorBody" /\ err[r] # ReplyError => w[r].wire = Status(r)
       /\ pc[r] \in {"up", "done"} /\ "data" \in w[r].body =>
            w[r].body = {"data"} /\ w[r].wire = SuccessCode(method[r])
       /\ pc[r] \in {"up", "done"} /\ err[r] \notin {NoError, ReplyError} /\ Status(r) # Silent =>
            w[r].body = {"error"} /\ w[r].wire = Status(r)

Answered(r) == ErrorUp(r) /\ Reply(r)

IInv == Shape /\ \A r \in Requests : Answered(r) /\ Metered(r)

-------------------------------------------------------------------------------
(* Layers and writers *)

LEMMA StackType ==
  /\ Len(Stack) \in Nat
  /\ \A i \in 1..Len(Stack) : Stack[i] \in {"metrics", "logging"}
  /\ \A i, j \in 1..Len(Stack) : Stack[i] = Stack[j] => i = j
  /\ DOMAIN Stack = 1..Len(Stack)
<1>1. CASE Stack = << >> BY <1>1
<1>2. CASE Stack = <<"metrics">> BY <1>2
<1>3. CASE Stack = <<"logging">> BY <1>3
<1>4. CASE Stack = <<"metrics", "logging">> BY <1>4
<1>5. CASE Stack = <<"logging", "metrics">> BY <1>5
<1> QED BY <1>1, <1>2, <1>3, <1>4, <1>5, StackAssumption

LEMMA OneLayerMore ==
  ASSUME NEW d \in 0..Len(Stack) - 1, NEW layer
  PROVE  (\E i \in 1..d + 1 : Stack[i] = layer) <=> (\E i \in 1..d : Stack[i] = layer) \/ Stack[d + 1] = layer
BY StackType

LEMMA NotTwice ==
  ASSUME NEW d \in 0..Len(Stack) - 1
  PROVE  ~ \E i \in 1..d : Stack[i] = Stack[d + 1]
BY StackType

LEMMA ErrorType ==
  /\ NoError \in Errors /\ ReplyError \in Errors /\ ReplyError # NoError
  /\ HandlerErrors \subseteq Errors
  /\ \A e \in Errors : AdaptHandlerReply(e) \in Nat /\ HandleErrorReply(e) \in Nat
BY LifecycleAssumption DEF Errors, ErrorKinds, NoError, AdaptHandlerReply, HandleErrorReply, Silent

LEMMA HeaderWritten ==
  ASSUME NEW v \in Writers, NEW code \in Nat
  PROVE  /\ WriteHeader(v, code).wire = IF Swallows(v) THEN v.wire ELSE SendHeader(v.wire, code)
         /\ WriteHeader(v, code).body = v.body
         /\ WriteHeader(v, code).logged = IF LoggingSees(v) THEN code ELSE v.logged
         /\ WriteHeader(v, code).counted = IF Has("metrics") /\ ~v.written THEN code ELSE v.counted
         /\ WriteHeader(v, code).written = (v.written \/ Has("metrics"))
BY DEF Writers, WriteHeader

LEMMA ChunkWritten ==
  ASSUME NEW v \in Writers, NEW chunk
  PROVE  /\ Write(v, chunk).wire = SendHeader(v.wire, 200)
         /\ Write(v, chunk).body = v.body \cup {chunk}
         /\ Write(v, chunk).logged = IF Has("metrics") /\ ~v.written /\ Inside("metrics", "logging")
                                     THEN 200 ELSE v.logged
         /\ Write(v, chunk).counted = IF Has("metrics") /\ ~v.written THEN 200 ELSE v.counted
         /\ Write(v, chunk).written = (v.written \/ Has("metrics"))
BY DEF Writers, Write

LEMMA ChangedWriter ==
  ASSUME NEW v \in Writers, NEW a \in Nat, NEW b \in Nat, NEW d \in BOOLEAN, NEW e \in Nat
  PROVE  /\ [v EXCEPT !.logged = a, !.counted = b, !.written = @ \/ d, !.wire = e] \in Writers
         /\ \A c \in Chunks :
              [v EXCEPT !.logged = a, !.counted = b, !.written = @ \/ d, !.wire = e, !.body = @ \cup {c}] \in Writers
BY DEF Writers

LEMMA HeaderType ==
  ASSUME NEW v \in Writers, NEW code \in Nat
  PROVE  WriteHeader(v, code) \in Writers
<1> DEFINE a == IF LoggingSees(v) THEN code ELSE v.logged
           b == IF Has("metrics") /\ ~v.written THEN code ELSE v.counted
           d == Has("metrics")
           e == IF Swallows(v) THEN v.wire ELSE SendHeader(v.wire, code)
<1>1. SendHeader(v.wire, code) \in Nat BY DEF Writers, SendHeader
<1>2. a \in Nat /\ b \in Nat /\ d \in BOOLEAN /\ e \in Nat BY <1>1 DEF Writers, Has
<1>3. WriteHeader(v, code) = [v EXCEPT !.logged = a, !.counted = b, !.written = @ \/ d, !.wire = e]
  BY DEF WriteHeader
<1> HIDE DEF a, b, d, e
<1>4. [v EXCEPT !.logged = a, !.counted = b, !.written = @ \/ d, !.wire = e] \in Writers BY <1>2, ChangedWriter
<1> QED BY <1>3, <1>4

LEMMA ChunkType ==
  ASSUME NEW v \in Writers, NEW c \in Chunks
  PROVE  Write(v, c) \in Writers
<1> DEFINE a == IF Has("metrics") /\ ~v.written /\ Inside("metrics", "logging") THEN 200 ELSE v.logged
           b == IF Has("metrics") /\ ~v.written THEN 200 ELSE v.counted
           d == Has("metrics")
           e == SendHeader(v.wire, 200)
<1>1. a \in Nat /\ b \in Nat /\ d \in BOOLEAN /\ e \in Nat BY DEF Writers, Has, SendHeader
<1>2. Write(v, c) = [v EXCEPT !.logged = a, !.counted = b, !.written = @ \/ d, !.wire = e, !.body = @ \cup {c}]
  BY DEF Write
<1> HIDE DEF a, b, d, e
<1>3. [v EXCEPT !.logged = a, !.counted = b, !.written = @ \/ d, !.wire = e, !.body = @ \cup {c}] \in Writers
  BY <1>1, ChangedWriter
<1> QED BY <1>2, <1>3

LEMMA WireType ==
  ASSUME NEW v \in Writers
  PROVE  /\ FinalStatus(v) \in Nat /\ SendHeader(v.wire, 500) \in Nat
         /\ \A status \in Nat : [v EXCEPT !.wire = status] \in Writers
BY DEF Writers, FinalStatus, SendHeader

LEMMA NewWriterType == NewWriter \in Writers
BY DEF NewWriter, Writers, NoStatus

LEMMA InitShape == Init => Shape
<1> SUFFICES ASSUME Init PROVE Shape OBVIOUS
<1>1. TypeOK
  BY NewWriterType, ErrorType, StackType DEF Init, TypeOK, PCs, NoStatus
<1>2. {r \in Requests : InLayer(r, "metrics")} = {}
  BY DEF Init, InLayer
<1>3. InFlightExact
  BY <1>2, FS_EmptySet DEF Init, InFlightExact
<1>4. \A r \in Requests : Position(r)
  BY DEF Init, Position
<1> QED BY <1>1, <1>3, <1>4 DEF Shape

\* The steps of a request that enters or leaves no layer.
Still(r) ==
  \/ Accept(r) \/ Dispatch(r) \/ NotFound(r)
  \/ \E code \in HandlerCodes : HandlerSendsHeader(r, code)
  \/ HandlerSendsBody(r)
  \/ \E e \in HandlerErrors, chain \in Chains(r) : HandlerReturns(r, e, chain)
  \/ Panic(r)
  \/ SendSuccess(r) \/ Encode(r) \/ EncodeFails(r)
  \/ SinkIsSilent(r) \/ SinkSendsError(r) \/ SendErrorBody(r)
  \/ Finish(r) \/ Recover(r)

LEMMA StepsOfNext ==
  Next <=> \/ \E r \in Requests : Still(r) \/ EnterLayer(r) \/ LeaveLayer(r) \/ UnwindLayer(r)
           \/ Quiet
BY Zenon DEF Next, Serve, Still

LEMMA StillFrame ==
  ASSUME NEW r, Still(r)
  PROVE  UNCHANGED <<depth, method, path, logLine, inFlight, total>>
BY DEF Still, Accept, Dispatch, NotFound, HandlerSendsHeader, HandlerSendsBody, HandlerReturns, Panic,
       SendSuccess, Encode, EncodeFails, SinkIsSilent, SinkSendsError, SendErrorBody, Finish, Recover,
       Go, request

LEMMA StillTypes ==
  ASSUME TypeOK, NEW r \in Requests, Still(r)
  PROVE  /\ pc' \in [Requests -> PCs] /\ touched' \in [Requests -> SUBSET {"header", "body"}]
         /\ err' \in [Requests -> Errors] /\ w' \in [Requests -> Writers]
<1> USE DEF TypeOK
<1>0. w[r] \in Writers OBVIOUS
<1>1. CASE Accept(r) BY <1>1 DEF Accept, Go, PCs, request
<1>2. CASE Dispatch(r) BY <1>2 DEF Dispatch, Go, PCs, request
<1>3. CASE NotFound(r)
  <2>1. Write(WriteHeader(w[r], 404), "raw") \in Writers BY <1>0, HeaderType, ChunkType DEF Chunks
  <2> QED BY <1>3, <2>1 DEF NotFound, Go, PCs, request
<1>4. ASSUME NEW code \in HandlerCodes, HandlerSendsHeader(r, code)
      PROVE  pc' = pc /\ touched' \in [Requests -> SUBSET {"header", "body"}] /\ err' = err
             /\ w' \in [Requests -> Writers]
  <2>1. WriteHeader(w[r], code) \in Writers BY <1>0, HeaderType, LifecycleAssumption
  <2> QED BY <1>4, <2>1 DEF HandlerSendsHeader
<1>5. CASE HandlerSendsBody(r)
  <2>1. Write(w[r], "raw") \in Writers BY <1>0, ChunkType DEF Chunks
  <2> QED BY <1>5, <2>1 DEF HandlerSendsBody
<1>6. ASSUME NEW e \in HandlerErrors, NEW chain \in Chains(r), HandlerReturns(r, e, chain)
      PROVE  pc' \in [Requests -> PCs] /\ UNCHANGED <<touched, w>> /\ err' \in [Requests -> Errors]
  BY <1>6, ErrorType DEF HandlerReturns, Go, PCs, request
<1>7. CASE Panic(r) BY <1>7 DEF Panic, PCs, request
<1>8. CASE SendSuccess(r)
  <2>1. WriteHeader(w[r], SuccessCode(method[r])) \in Writers BY <1>0, HeaderType DEF SuccessCode
  <2> QED BY <1>8, <2>1 DEF SendSuccess, Go, PCs, request
<1>9. CASE Encode(r)
  <2>1. Write(w[r], "data") \in Writers BY <1>0, ChunkType DEF Chunks
  <2> QED BY <1>9, <2>1 DEF Encode, Go, PCs, request
<1>10. CASE EncodeFails(r) BY <1>10, ErrorType DEF EncodeFails, Go, PCs, request
<1>11. CASE SinkIsSilent(r) BY <1>11 DEF SinkIsSilent, Go, PCs, request
<1>12. CASE SinkSendsError(r)
  <2>1. Status(r) \in Nat BY ErrorType DEF Status
  <2>2. WriteHeader(w[r], Status(r)) \in Writers BY <1>0, <2>1, HeaderType
  <2> QED BY <1>12, <2>2 DEF SinkSendsError, Go, PCs, request
<1>13. CASE SendErrorBody(r)
  <2>1. Write(w[r], "error") \in Writers BY <1>0, ChunkType DEF Chunks
  <2> QED BY <1>13, <2>1 DEF SendErrorBody, Go, PCs, request
<1>14. CASE Finish(r)
  <2>1. [w[r] EXCEPT !.wire = FinalStatus(w[r])] \in Writers BY <1>0, WireType
  <2>2. w' = [w EXCEPT ![r] = [w[r] EXCEPT !.wire = FinalStatus(w[r])]] BY <1>14 DEF Finish
  <2> QED BY <1>14, <2>1, <2>2 DEF Finish, Go, PCs, request
<1>15. CASE Recover(r)
  <2>1. [w[r] EXCEPT !.wire = SendHeader(w[r].wire, 500)] \in Writers BY <1>0, WireType
  <2>2. w' = [w EXCEPT ![r] = [w[r] EXCEPT !.wire = SendHeader(w[r].wire, 500)]] BY <1>15 DEF Recover
  <2> QED BY <1>15, <2>1, <2>2 DEF Recover, Go, PCs, request
<1> QED BY <1>1, <1>2, <1>3, <1>4, <1>5, <1>6, <1>7, <1>8, <1>9, <1>10, <1>11, <1>12, <1>13, <1>14, <1>15
        DEF Still

LEMMA StillPosition ==
  ASSUME Shape, NEW r \in Requests, Still(r)
  PROVE  \A q \in Requests : Position(q)'
BY DEF Shape, TypeOK, Position, PCs, Still, Accept, Dispatch, NotFound, HandlerSendsHeader, HandlerSendsBody,
       HandlerReturns, Panic, SendSuccess, Encode, EncodeFails, SinkIsSilent, SinkSendsError, SendErrorBody,
       Finish, Recover, Go

-------------------------------------------------------------------------------
(* The gauge *)

Within == {r \in Requests : InLayer(r, "metrics")}

LEMMA WithinIsFinite == IsFiniteSet(Within) /\ Cardinality(Within) \in Nat
BY LifecycleAssumption, FS_Subset, FS_CardinalityType DEF Within

LEMMA StillShape ==
  ASSUME Shape, NEW r \in Requests, Still(r)
  PROVE  Shape'
<1>1. UNCHANGED <<depth, method, path, logLine, inFlight, total>> BY StillFrame
<1>2. TypeOK' BY <1>1, StillTypes DEF Shape, TypeOK
<1>3. InFlightExact' BY <1>1 DEF Shape, InFlightExact, InLayer
<1> QED BY <1>2, <1>3, StillPosition DEF Shape

LEMMA EnterShape ==
  ASSUME Shape, NEW r \in Requests, EnterLayer(r)
  PROVE  Shape'
<1> USE DEF Shape
<1>1. depth[r] \in 0..Len(Stack) - 1 /\ depth' = [depth EXCEPT ![r] = depth[r] + 1]
  BY StackType DEF EnterLayer, TypeOK
<1>2. \A q \in Requests : InLayer(q, "metrics")' <=>
        InLayer(q, "metrics") \/ (q = r /\ Stack[depth[r] + 1] = "metrics")
  BY <1>1, OneLayerMore DEF InLayer, TypeOK
<1>3. InFlightExact'
  <2>1. CASE Stack[depth[r] + 1] = "metrics"
    <3>1. r \notin Within BY <1>1, <2>1, NotTwice DEF Within, InLayer
    <3>2. Within' = Within \cup {r} BY <1>2, <2>1 DEF Within
    <3>3. Cardinality(Within') = Cardinality(Within) + 1 BY <3>1, <3>2, WithinIsFinite, FS_AddElement
    <3>4. inFlight' = inFlight + 1 BY <1>1, <2>1 DEF EnterLayer, TypeOK
    <3> QED BY <3>3, <3>4 DEF InFlightExact, Within
  <2>2. CASE Stack[depth[r] + 1] # "metrics"
    <3>1. Within' = Within BY <1>2, <2>2 DEF Within
    <3>2. inFlight' = inFlight BY <1>1, <2>2 DEF EnterLayer, TypeOK
    <3> QED BY <3>1, <3>2 DEF InFlightExact, Within
  <2> QED BY <2>1, <2>2
<1>4. TypeOK'
  <2>1. inFlight' \in Nat BY DEF EnterLayer, TypeOK
  <2> QED BY <1>1, <2>1, StackType DEF EnterLayer, TypeOK, request
<1>5. ASSUME NEW q \in Requests PROVE Position(q)'
  <2>1. Position(q) /\ pc' = pc /\ pc[r] = "down" BY DEF EnterLayer
  <2>2. q # r => depth'[q] = depth[q] BY <1>1 DEF TypeOK
  <2> QED BY <2>1, <2>2 DEF Position
<1> QED BY <1>3, <1>4, <1>5

\* A layer is left in the same way by a return and by a panic.
LEMMA LeaveGauge ==
  ASSUME Shape, NEW r \in Requests, depth[r] > 0, depth' = [depth EXCEPT ![r] = depth[r] - 1],
         inFlight' = IF Stack[depth[r]] = "metrics" THEN inFlight - 1 ELSE inFlight
  PROVE  InFlightExact' /\ inFlight' \in Nat /\ depth' \in [Requests -> 0..Len(Stack)]
<1> USE DEF Shape
<1>1. depth[r] - 1 \in 0..Len(Stack) - 1 /\ depth[r] \in 1..Len(Stack) BY StackType DEF TypeOK
<1>2. \A q \in Requests : InLayer(q, "metrics") <=>
        InLayer(q, "metrics")' \/ (q = r /\ Stack[depth[r]] = "metrics")
  BY <1>1, OneLayerMore DEF InLayer, TypeOK
<1>3. depth' \in [Requests -> 0..Len(Stack)] BY <1>1 DEF TypeOK
<1>4. CASE Stack[depth[r]] = "metrics"
  <2>0. ~ \E i \in 1..(depth[r] - 1) : Stack[i] = Stack[(depth[r] - 1) + 1] BY <1>1, NotTwice
  <2>1. ~InLayer(r, "metrics")' BY <1>1, <1>4, <2>0 DEF InLayer, TypeOK
  <2>2. Within' = Within \ {r} /\ r \in Within BY <1>2, <1>4, <2>1 DEF Within
  <2>3. Cardinality(Within') = Cardinality(Within) - 1 BY <2>2, WithinIsFinite, FS_RemoveElement
  <2>4. Cardinality(Within') \in Nat BY <2>2, WithinIsFinite, FS_RemoveElement, FS_CardinalityType
  <2> QED BY <1>3, <1>4, <2>3, <2>4 DEF InFlightExact, Within
<1>5. CASE Stack[depth[r]] # "metrics"
  <2>1. Within' = Within BY <1>2, <1>5 DEF Within
  <2>2. inFlight' = inFlight BY <1>5
  <2>3. InFlightExact' BY <2>1, <2>2 DEF InFlightExact, Within
  <2> QED BY <1>3, <2>2, <2>3 DEF TypeOK
<1> QED BY <1>4, <1>5

LEMMA LabelType == ASSUME TypeOK, NEW r \in Requests PROVE Label(r) \in Labels
<1>1. RoutePattern(path[r]) \in Paths \cup {Pattern[p] : p \in DOMAIN Pattern} BY DEF RoutePattern, TypeOK
<1>2. w[r].counted \in Nat /\ method[r] \in Methods BY DEF TypeOK, Writers
<1> QED BY <1>1, <1>2 DEF Label, LabelWith, Labels

LEMMA LeaveShape ==
  ASSUME Shape, NEW r \in Requests, LeaveLayer(r)
  PROVE  Shape'
<1>1. InFlightExact' /\ inFlight' \in Nat /\ depth' \in [Requests -> 0..Len(Stack)]
  BY LeaveGauge DEF LeaveLayer
<1>2. logLine' \in [Requests -> Nat] BY DEF LeaveLayer, Shape, TypeOK, Writers
<1>3. DOMAIN total' \subseteq Labels /\ \A l \in DOMAIN total' : total'[l] \in Nat \ {0}
  <2>1. CASE total' = total BY <2>1 DEF Shape, TypeOK
  <2>2. CASE Count(Label(r))
    <3>1. DOMAIN total' = DOMAIN total \cup {Label(r)} BY <2>2 DEF Count
    <3>2. \A l \in DOMAIN total' : total'[l] = IF l \notin DOMAIN total THEN 1
                                              ELSE IF l = Label(r) THEN total[l] + 1 ELSE total[l]
      BY <2>2 DEF Count
    <3>3. Label(r) \in Labels BY LabelType DEF Shape
    <3> QED BY <3>1, <3>2, <3>3 DEF Shape, TypeOK
  <2> QED BY <2>1, <2>2 DEF LeaveLayer
<1>4. TypeOK' BY <1>1, <1>2, <1>3 DEF LeaveLayer, Shape, TypeOK, request
<1>5. \A q \in Requests : Position(q)' BY DEF LeaveLayer, Shape, Position, TypeOK
<1> QED BY <1>1, <1>4, <1>5 DEF Shape

LEMMA UnwindShape ==
  ASSUME Shape, NEW r \in Requests, UnwindLayer(r)
  PROVE  Shape'
<1>1. InFlightExact' /\ inFlight' \in Nat /\ depth' \in [Requests -> 0..Len(Stack)]
  BY LeaveGauge DEF UnwindLayer
<1>2. TypeOK' BY <1>1 DEF UnwindLayer, Shape, TypeOK, request
<1>3. \A q \in Requests : Position(q)' BY DEF UnwindLayer, Shape, Position, TypeOK
<1> QED BY <1>1, <1>2, <1>3 DEF Shape

LEMMA NextShape == Shape /\ [Next]_vars => Shape'
<1>1. Shape /\ UNCHANGED vars => Shape'
  BY DEF vars, request, Shape, TypeOK, InFlightExact, InLayer, Position
<1> QED BY <1>1, StepsOfNext, StillShape, EnterShape, LeaveShape, UnwindShape DEF Quiet

LEMMA ShapeInvariant == Spec => []Shape
BY InitShape, NextShape, PTL DEF Spec

\* Every variable keeps its type; the gauge in particular never goes below 0.
THEOREM TypeCorrect == Spec => []TypeOK
<1>1. Shape => TypeOK BY DEF Shape
<1> QED BY <1>1, ShapeInvariant, PTL

\* The in-flight gauge is exact at every moment, however many requests enter,
\* return and panic at once (metrics/prometheus.go:151-153).
THEOREM GaugeExact == Spec => []InFlightExact
<1>1. Shape => InFlightExact BY DEF Shape
<1> QED BY <1>1, ShapeInvariant, PTL

-------------------------------------------------------------------------------
(* What is sent *)

LEMMA StillAlone ==
  ASSUME TypeOK, NEW r \in Requests, Still(r), NEW q \in Requests \ {r}
  PROVE  pc'[q] = pc[q] /\ touched'[q] = touched[q] /\ err'[q] = err[q] /\ w'[q] = w[q]
BY DEF TypeOK, Still, Accept, Dispatch, NotFound, HandlerSendsHeader, HandlerSendsBody,
       HandlerReturns, Panic, SendSuccess, Encode, EncodeFails, SinkIsSilent, SinkSendsError, SendErrorBody,
       Finish, Recover, Go, request

\* The effect of a step on the request that takes it, kind by kind.
Moves(r, here, there) == pc[r] = here /\ pc'[r] = there
KeepsErr(r) == touched'[r] = touched[r] /\ err'[r] = err[r]
Keeps(r) == KeepsErr(r) /\ w'[r] = w[r]

GoesDown(r) == (Moves(r, "idle", "down") \/ Moves(r, "down", "handler")) /\ Keeps(r)
HasNoRoute(r) ==
  /\ Moves(r, "down", "up") /\ KeepsErr(r) /\ path[r] \notin DOMAIN Pattern /\ depth[r] = Len(Stack)
  /\ w'[r] = Write(WriteHeader(w[r], 404), "raw")
Sends(r) ==
  /\ Moves(r, "handler", "handler") /\ touched'[r] # {} /\ err'[r] = err[r]
  /\ \/ \E code \in HandlerCodes : w'[r] = WriteHeader(w[r], code)
     \/ w'[r] = Write(w[r], "raw")
Returns(r) ==
  /\ touched'[r] = touched[r] /\ w'[r] = w[r] /\ err'[r] \in HandlerErrors
  /\ \/ err'[r] # NoError /\ Moves(r, "handler", "adapter")
     \/ err'[r] = NoError /\ (Moves(r, "handler", "respond") \/ Moves(r, "handler", "up"))
Panics(r) == (Moves(r, "handler", "panic") \/ Moves(r, "encode", "panic")) /\ Keeps(r)
Succeeds(r) ==
  Moves(r, "respond", "encode") /\ KeepsErr(r) /\ w'[r] = WriteHeader(w[r], SuccessCode(method[r]))
Encodes(r) == Moves(r, "encode", "up") /\ KeepsErr(r) /\ w'[r] = Write(w[r], "data")
Breaks(r) ==
  Moves(r, "encode", "adapter") /\ touched'[r] = touched[r] /\ err'[r] = ReplyError /\ w'[r] = w[r]
IsSilent(r) == Moves(r, "adapter", "up") /\ Keeps(r) /\ Status(r) = Silent
Fails(r) ==
  /\ Moves(r, "adapter", "errorBody") /\ KeepsErr(r) /\ Status(r) # Silent
  /\ w'[r] = WriteHeader(w[r], Status(r))
FailsWithBody(r) == Moves(r, "errorBody", "up") /\ KeepsErr(r) /\ w'[r] = Write(w[r], "error")
Finishes(r) ==
  Moves(r, "up", "done") /\ KeepsErr(r) /\ w'[r] = [w[r] EXCEPT !.wire = FinalStatus(w[r])]
Recovers(r) ==
  Moves(r, "panic", "recovered") /\ KeepsErr(r) /\ w'[r] = [w[r] EXCEPT !.wire = SendHeader(w[r].wire, 500)]

Effect(r) ==
  \/ GoesDown(r) \/ HasNoRoute(r) \/ Sends(r) \/ Returns(r) \/ Panics(r) \/ Succeeds(r) \/ Encodes(r)
  \/ Breaks(r) \/ IsSilent(r) \/ Fails(r) \/ FailsWithBody(r) \/ Finishes(r) \/ Recovers(r)

LEMMA StillEffect ==
  ASSUME TypeOK, NEW r \in Requests, Still(r)
  PROVE  Effect(r)
<1> USE DEF TypeOK, Go, request, Moves, KeepsErr, Keeps
<1>1. CASE Accept(r) BY <1>1 DEF Accept, GoesDown, Effect
<1>2. CASE Dispatch(r) BY <1>2 DEF Dispatch, GoesDown, Effect
<1>3. CASE NotFound(r) BY <1>3 DEF NotFound, HasNoRoute, Effect
<1>4. ASSUME NEW code \in HandlerCodes, HandlerSendsHeader(r, code) PROVE Sends(r)
  BY <1>4 DEF HandlerSendsHeader, Sends
<1>5. CASE HandlerSendsBody(r) BY <1>5 DEF HandlerSendsBody, Sends, Effect
<1>6. ASSUME NEW e \in HandlerErrors, NEW chain \in Chains(r), HandlerReturns(r, e, chain) PROVE Returns(r)
  <2>1. pc[r] = "handler" /\ err'[r] = e /\ touched'[r] = touched[r] /\ w'[r] = w[r]
    BY <1>6 DEF HandlerReturns
  <2>2. e # NoError => pc'[r] = "adapter" BY <1>6 DEF HandlerReturns
  <2>3. e = NoError => pc'[r] \in {"respond", "up"} BY <1>6 DEF HandlerReturns
  <2> QED BY <2>1, <2>2, <2>3 DEF Returns
<1>7. CASE Panic(r) BY <1>7 DEF Panic, Panics, Effect
<1>8. CASE SendSuccess(r) BY <1>8 DEF SendSuccess, Succeeds, Effect
<1>9. CASE Encode(r) BY <1>9 DEF Encode, Encodes, Effect
<1>10. CASE EncodeFails(r) BY <1>10 DEF EncodeFails, Breaks, Effect
<1>11. CASE SinkIsSilent(r) BY <1>11 DEF SinkIsSilent, IsSilent, Effect
<1>12. CASE SinkSendsError(r) BY <1>12 DEF SinkSendsError, Fails, Effect
<1>13. CASE SendErrorBody(r) BY <1>13 DEF SendErrorBody, FailsWithBody, Effect
<1>14. CASE Finish(r) BY <1>14 DEF Finish, Finishes, Effect
<1>15. CASE Recover(r) BY <1>15 DEF Recover, Recovers, Effect
<1> HIDE DEF TypeOK, Go, request, Moves, KeepsErr, Keeps
<1> QED BY <1>1, <1>2, <1>3, <1>4, <1>5, <1>6, <1>7, <1>8, <1>9, <1>10, <1>11, <1>12, <1>13, <1>14, <1>15
        DEF Still, Effect

\* No layer runs, so a request's own writer is all that its records rest on.
LEMMA StatusIsFinal ==
  ASSUME FinalCodes, NEW r \in Requests, err[r] \in HandlerErrors \cup {ReplyError}, Status(r) # Silent
  PROVE  Status(r) \in Nat /\ Status(r) >= 200
<1>1. err[r].kind = "api" => err[r].code >= 200 BY DEF FinalCodes
<1>2. err[r] \in Errors BY ErrorType
<1> QED BY <1>1, <1>2 DEF Status, AdaptHandlerReply, HandleErrorReply, Errors, Silent

OnTime(v) == v.counted = FinalStatus(v) /\ (v.written <=> v.wire # NoStatus)

LEMMA HeaderIsMetered ==
  ASSUME NEW v \in Writers, NEW code \in Nat, code >= 200, Has("metrics"), OnTime(v)
  PROVE  OnTime(WriteHeader(v, code))
<1> DEFINE u == WriteHeader(v, code)
<1>1. u.written /\ u.counted = IF ~v.written THEN code ELSE v.counted BY HeaderWritten
<1>2. u.wire = IF v.written THEN v.wire ELSE SendHeader(v.wire, code) BY HeaderWritten DEF Swallows
<1> HIDE DEF u
<1>3. OnTime(u) BY <1>1, <1>2 DEF OnTime, FinalStatus, SendHeader, NoStatus
<1> QED BY <1>3 DEF u

LEMMA ChunkIsMetered ==
  ASSUME NEW v \in Writers, NEW c \in Chunks, Has("metrics"), OnTime(v)
  PROVE  OnTime(Write(v, c))
<1> DEFINE u == Write(v, c)
<1>1. u.written /\ u.counted = IF ~v.written THEN 200 ELSE v.counted
  <2>1. v.written \in BOOLEAN BY DEF Writers
  <2> QED BY <2>1, ChunkWritten
<1>2. u.wire = SendHeader(v.wire, 200) BY ChunkWritten
<1> HIDE DEF u
<1>3. OnTime(u) BY <1>1, <1>2 DEF OnTime, FinalStatus, SendHeader, NoStatus
<1> QED BY <1>3 DEF u

LEMMA StillMetered ==
  ASSUME FinalCodes, IInv, NEW r \in Requests, Effect(r)
  PROVE  Metered(r)'
<1> SUFFICES ASSUME Has("metrics"), pc'[r] # "recovered"
    PROVE  w'[r].counted = FinalStatus(w'[r]) /\ (pc'[r] # "done" => OnTime(w'[r]))
  BY DEF Metered, OnTime
<1> USE DEF Moves, KeepsErr, Keeps
<1>1. w[r] \in Writers BY DEF IInv, Shape, TypeOK
<1>2. Metered(r) /\ ErrorUp(r) BY DEF IInv, Answered
<1>3. pc[r] \notin {"done", "recovered"} => OnTime(w[r]) BY <1>2 DEF Metered, OnTime
<1>4. OnTime(w'[r]) => w'[r].counted = FinalStatus(w'[r]) BY DEF OnTime
<1>5. ASSUME NEW code \in Nat, code >= 200, w'[r] = WriteHeader(w[r], code), pc[r] \notin {"done", "recovered"}
      PROVE  OnTime(w'[r])
  BY <1>1, <1>3, <1>5, HeaderIsMetered
<1>6. ASSUME NEW c \in Chunks, w'[r] = Write(w[r], c), pc[r] \notin {"done", "recovered"}
      PROVE  OnTime(w'[r])
  BY <1>1, <1>3, <1>6, ChunkIsMetered
<1>7. CASE GoesDown(r) \/ Returns(r) \/ Panics(r) \/ Breaks(r) \/ IsSilent(r)
  BY <1>3, <1>4, <1>7 DEF GoesDown, Returns, Panics, Breaks, IsSilent
<1>8. CASE HasNoRoute(r)
  <2>1. WriteHeader(w[r], 404) \in Writers BY <1>1, HeaderType
  <2>2. OnTime(WriteHeader(w[r], 404)) BY <1>1, <1>3, <1>8, HeaderIsMetered DEF HasNoRoute
  <2> QED BY <1>4, <1>8, <2>1, <2>2, ChunkIsMetered DEF HasNoRoute, Chunks
<1>9. CASE Sends(r) BY <1>4, <1>5, <1>6, <1>9, LifecycleAssumption DEF Sends, FinalCodes, Chunks
<1>10. CASE Succeeds(r) BY <1>4, <1>5, <1>10 DEF Succeeds, SuccessCode
<1>11. CASE Encodes(r) \/ FailsWithBody(r) BY <1>4, <1>6, <1>11 DEF Encodes, FailsWithBody, Chunks
<1>12. CASE Fails(r) BY <1>2, <1>4, <1>5, <1>12, StatusIsFinal DEF Fails, ErrorUp
<1>13. CASE Finishes(r)
  BY <1>1, <1>3, <1>13 DEF Finishes, OnTime, Writers, FinalStatus, SendHeader, NoStatus
<1> QED BY <1>7, <1>8, <1>9, <1>10, <1>11, <1>12, <1>13 DEF Effect, Recovers

LEMMA StillErrorUp ==
  ASSUME IInv, NEW r \in Requests, Effect(r)
  PROVE  ErrorUp(r)'
BY ErrorType, LifecycleAssumption
   DEF IInv, Answered, ErrorUp, Effect, Moves, KeepsErr, Keeps, GoesDown, HasNoRoute, Sends, Returns, Panics,
       Succeeds, Encodes, Breaks, IsSilent, Fails, FailsWithBody, Finishes, Recovers

LEMMA StillReply ==
  ASSUME FinalCodes, IInv, NEW r \in Requests, Effect(r), UNCHANGED <<method, path>>
  PROVE  Reply(r)'
<1> USE DEF Moves, KeepsErr, Keeps
<1>1. w[r] \in Writers BY DEF IInv, Shape, TypeOK
<1>2. Reply(r) /\ ErrorUp(r) BY DEF IInv, Answered
<1>3. err'[r] = err[r] => Status(r)' = Status(r) BY DEF Status
<1>4. /\ NewWriter.wire = 0 /\ NewWriter.body = {} /\ ~Swallows(NewWriter)
  BY DEF NewWriter, Swallows, NoStatus
<1>5. CASE GoesDown(r) BY <1>2, <1>5 DEF GoesDown, Reply
<1>6. CASE HasNoRoute(r) BY <1>6 DEF HasNoRoute, Reply
<1>7. CASE Sends(r) BY <1>7 DEF Sends, Reply
<1>8. CASE Returns(r) BY <1>2, <1>4, <1>8 DEF Returns, Reply
<1>9. CASE Panics(r) BY <1>2, <1>4, <1>9 DEF Panics, Reply
<1>10. CASE Succeeds(r)
  <2>1. w'[r].body = w[r].body BY <1>1, <1>10, HeaderWritten DEF Succeeds, SuccessCode
  <2>2. ~Swallows(w[r]) /\ w[r].wire = 0 => w'[r].wire = SuccessCode(method[r])
    BY <1>1, <1>10, HeaderWritten DEF Succeeds, SuccessCode, SendHeader, NoStatus
  <2> QED BY <1>2, <1>4, <1>10, <2>1, <2>2 DEF Succeeds, Reply
<1>11. CASE Encodes(r)
  <2>1. w'[r].body = w[r].body \cup {"data"} /\ w'[r].wire = SendHeader(w[r].wire, 200)
    BY <1>1, <1>11, ChunkWritten DEF Encodes
  <2>2. SuccessCode(method[r]) # 0 BY DEF SuccessCode
  <2> QED BY <1>2, <1>11, <2>1, <2>2 DEF Encodes, Reply, ErrorUp, SendHeader, NoStatus
<1>12. CASE Breaks(r) BY <1>2, <1>12 DEF Breaks, Reply
<1>13. CASE IsSilent(r) BY <1>2, <1>3, <1>13 DEF IsSilent, Reply
<1>14. CASE Fails(r)
  <2>1. Status(r) \in Nat /\ Status(r) >= 200 BY <1>2, <1>14, StatusIsFinal DEF Fails, ErrorUp
  <2>2. w'[r].body = w[r].body BY <1>1, <1>14, <2>1, HeaderWritten DEF Fails
  <2>3. ~Swallows(w[r]) /\ w[r].wire = 0 => w'[r].wire = Status(r)
    BY <1>1, <1>14, <2>1, HeaderWritten DEF Fails, SendHeader, NoStatus
  <2> QED BY <1>2, <1>3, <1>4, <1>14, <2>2, <2>3 DEF Fails, Reply
<1>15. CASE FailsWithBody(r)
  <2>1. w'[r].body = w[r].body \cup {"error"} /\ w'[r].wire = SendHeader(w[r].wire, 200)
    BY <1>1, <1>15, ChunkWritten DEF FailsWithBody
  <2> QED BY <1>2, <1>3, <1>15, <2>1 DEF FailsWithBody, Reply, SendHeader, NoStatus, Silent
<1>16. CASE Finishes(r)
  <2>1. w'[r].body = w[r].body /\ (w[r].wire # 0 => w'[r].wire = w[r].wire)
    BY <1>1, <1>16 DEF Finishes, Writers, FinalStatus, SendHeader, NoStatus
  <2>2. SuccessCode(method[r]) # 0 BY DEF SuccessCode
  <2> QED BY <1>2, <1>3, <1>16, <2>1, <2>2 DEF Finishes, Reply, Silent
<1>17. CASE Recovers(r)
  <2>1. w'[r].body = w[r].body BY <1>1, <1>17 DEF Recovers, Writers
  <2> QED BY <1>2, <1>17, <2>1 DEF Recovers, Reply
<1> QED BY <1>5, <1>6, <1>7, <1>8, <1>9, <1>10, <1>11, <1>12, <1>13, <1>14, <1>15, <1>16, <1>17 DEF Effect
\* A layer's step, or none, leaves every request's response alone.
LEMMA OthersAnswered ==
  ASSUME IInv, UNCHANGED <<pc, method, path, touched, err, w>>
  PROVE  \A q \in Requests : Answered(q)' /\ Metered(q)'
BY DEF IInv, Answered, ErrorUp, Reply, Metered, Status

LEMMA NextIInv == FinalCodes /\ IInv /\ [Next]_vars => IInv'
<1> SUFFICES ASSUME FinalCodes, IInv, [Next]_vars PROVE IInv' OBVIOUS
<1>1. Shape' BY NextShape DEF IInv
<1>2. ASSUME NEW r \in Requests, Still(r) PROVE \A q \in Requests : Answered(q)' /\ Metered(q)'
  <2>1. Effect(r) /\ UNCHANGED <<method, path>> BY <1>2, StillEffect, StillFrame DEF IInv, Shape
  <2>2. Answered(r)' /\ Metered(r)' BY <2>1, StillMetered, StillErrorUp, StillReply DEF Answered
  <2>3. ASSUME NEW q \in Requests \ {r} PROVE Answered(q)' /\ Metered(q)'
    <3>1. pc'[q] = pc[q] /\ touched'[q] = touched[q] /\ err'[q] = err[q] /\ w'[q] = w[q]
      BY <1>2, StillAlone DEF IInv, Shape
    <3> QED BY <2>1, <3>1 DEF IInv, Answered, ErrorUp, Reply, Metered, Status
  <2> QED BY <2>2, <2>3
<1>3. ASSUME NEW r \in Requests, EnterLayer(r) \/ LeaveLayer(r) \/ UnwindLayer(r)
      PROVE  \A q \in Requests : Answered(q)' /\ Metered(q)'
  BY <1>3, OthersAnswered DEF EnterLayer, LeaveLayer, UnwindLayer, request
<1>4. CASE UNCHANGED vars
  <2>1. UNCHANGED <<pc, method, path, touched, err, w>> BY <1>4 DEF vars, request
  <2> QED BY <1>1, <2>1, OthersAnswered DEF IInv
<1> QED BY <1>1, <1>2, <1>3, <1>4, StepsOfNext DEF IInv, Quiet

LEMMA InitIInv == Init => IInv
<1> SUFFICES ASSUME Init PROVE IInv OBVIOUS
<1>1. \A r \in Requests : ErrorUp(r) BY LifecycleAssumption DEF Init, ErrorUp
<1>2. \A r \in Requests : Reply(r) BY DEF Init, Reply
<1>3. \A r \in Requests : Metered(r) BY DEF Init, Metered, NewWriter, FinalStatus, SendHeader, NoStatus
<1> QED BY <1>1, <1>2, <1>3, InitShape DEF IInv, Answered

LEMMA ResponsesInvariant == ASSUME FinalCodes PROVE Spec => []IInv
BY InitIInv, NextIInv, PTL DEF Spec

\* One reply of one kind to every request whose handler leaves the writing to
\* ResponseJSON and the adapter (middleware/typed/response.go:26-47).
THEOREM RepliesOnce == ASSUME FinalCodes PROVE Spec => []OneReply
<1>1. ASSUME IInv PROVE OneReply
  <2> SUFFICES ASSUME NEW r \in Requests, touched[r] = {}, path[r] \in DOMAIN Pattern
      PROVE  /\ "data" \in w[r].body => w[r].body = {"data"} /\ w[r].wire = SuccessCode(method[r])
             /\ pc[r] = "done" /\ err[r] \notin {NoError, ReplyError} /\ Status(r) # Silent =>
                  w[r].body = {"error"} /\ w[r].wire = Status(r)
    BY DEF OneReply
  <2>1. Reply(r) /\ pc[r] \in PCs BY <1>1 DEF IInv, Answered, Shape, TypeOK
  <2>2. pc[r] \in {"idle", "down", "handler", "respond"} => w[r].body = {} BY <2>1 DEF Reply, NewWriter
  <2> QED BY <2>1, <2>2 DEF Reply, PCs
<1> QED BY <1>1, ResponsesInvariant, PTL

-------------------------------------------------------------------------------
(* What is counted *)

Counted == {r \in Requests : Has("metrics") /\ LeftLayer(r, "metrics")}
Got(r) == LabelWith(r, FinalStatus(w[r]))

Totalled ==
  /\ DOMAIN total = {Got(r) : r \in Counted}
  /\ \A l \in DOMAIN total : total[l] = Cardinality({r \in Counted : Got(r) = l})

LEMMA TotalIsTotalled == TotalIsWhatClientsGot <=> Totalled
BY DEF TotalIsWhatClientsGot, Totalled, Counted, Got

LEMMA CountedFinite == \A l : IsFiniteSet({r \in Counted : Got(r) = l})
<1> SUFFICES ASSUME NEW l PROVE IsFiniteSet({r \in Counted : Got(r) = l}) OBVIOUS
<1>1. {r \in Counted : Got(r) = l} \subseteq Requests BY DEF Counted
<1> QED BY <1>1, LifecycleAssumption, FS_Subset

\* Outside the layers a request is never counted: it cannot have left them.
LEMMA StillUncounted ==
  ASSUME IInv, NEW r \in Requests, Still(r)
  PROVE  Counted' = Counted /\ \A q \in Counted : Got(q)' = Got(q)
<1> USE DEF IInv, Shape
<1>1. UNCHANGED <<depth, method, path>> BY StillFrame
<1>2. Effect(r) BY StillEffect
<1>3. \A q \in Requests : InLayer(q, "metrics")' <=> InLayer(q, "metrics") BY <1>1 DEF InLayer
<1>4. Position(r) /\ Position(r)' /\ depth[r] = depth'[r] BY <1>1, StillPosition
<1>5. Has("metrics") /\ depth[r] = Len(Stack) => InLayer(r, "metrics")
  BY StackType DEF Has, InLayer
<1>6. Has("metrics") => (LeftLayer(r, "metrics")' <=> LeftLayer(r, "metrics"))
  <2>1. CASE pc[r] \in {"up", "done"} /\ pc'[r] \in {"up", "done"} BY <1>3, <2>1 DEF LeftLayer
  <2>2. CASE pc[r] \notin {"up", "done"} /\ pc'[r] \notin {"up", "done"} BY <2>2 DEF LeftLayer
  <2>3. CASE HasNoRoute(r)
    BY <1>3, <1>5, <2>3 DEF LeftLayer, HasNoRoute, Moves
  <2>4. CASE pc[r] \in {"handler", "encode", "adapter", "errorBody"} BY <1>3, <1>4, <1>5, <2>4 DEF LeftLayer, Position
  <2> QED BY <1>2, <2>1, <2>2, <2>3, <2>4 DEF Effect, Moves, GoesDown, Sends, Returns, Panics, Succeeds, Encodes,
             Breaks, IsSilent, Fails, FailsWithBody, Finishes, Recovers
<1>7. \A q \in Requests \ {r} : LeftLayer(q, "metrics")' <=> LeftLayer(q, "metrics")
  BY <1>3, StillAlone DEF LeftLayer
<1>8. Counted' = Counted BY <1>6, <1>7 DEF Counted
<1>9. ASSUME NEW q \in Counted PROVE FinalStatus(w[q])' = FinalStatus(w[q])
  <2>1. CASE q # r BY <1>9, <2>1, StillAlone DEF Counted
  <2>2. CASE q = r
    <3>1. Has("metrics") /\ LeftLayer(r, "metrics") BY <1>9, <2>2 DEF Counted
    <3>2. pc[r] \in {"up", "done"} BY <3>1 DEF LeftLayer
    <3>3. Finishes(r) BY <1>2, <3>2 DEF Effect, Moves, GoesDown, HasNoRoute, Sends, Returns, Panics, Succeeds,
            Encodes, Breaks, IsSilent, Fails, FailsWithBody, Recovers
    <3>4. w[r] \in Writers BY DEF TypeOK
    <3> QED BY <2>2, <3>3, <3>4 DEF Finishes, Writers, FinalStatus, SendHeader, NoStatus
  <2> QED BY <2>1, <2>2
<1>10. \A q \in Counted : Got(q)' = Got(q) BY <1>1, <1>9 DEF Got, LabelWith
<1> QED BY <1>8, <1>10

\* Layers leave responses alone.
LEMMA GotKept ==
  ASSUME UNCHANGED <<method, path, w>>
  PROVE  \A q \in Requests : Got(q)' = Got(q)
BY DEF Got, LabelWith

LEMMA EnterUncounted ==
  ASSUME IInv, NEW r \in Requests, EnterLayer(r) \/ UnwindLayer(r)
  PROVE  Counted' = Counted
<1>1. pc' = pc /\ pc[r] \notin {"up", "done"} BY DEF EnterLayer, UnwindLayer
<1>2. \A q \in Requests \ {r} : depth'[q] = depth[q] BY DEF EnterLayer, UnwindLayer, IInv, Shape, TypeOK
<1> QED BY <1>1, <1>2 DEF Counted, LeftLayer, InLayer

\* A request that leaves the metrics middleware is counted there and then.
LEMMA LeaveCounts ==
  ASSUME IInv, NEW r \in Requests, LeaveLayer(r)
  PROVE  /\ Stack[depth[r]] = "metrics" =>
              r \notin Counted /\ Counted' = Counted \cup {r} /\ Label(r) = Got(r)
         /\ Stack[depth[r]] # "metrics" => Counted' = Counted
<1> USE DEF IInv, Shape
<1>1. /\ pc' = pc /\ pc[r] = "up" /\ depth' = [depth EXCEPT ![r] = depth[r] - 1]
      /\ depth[r] - 1 \in 0..Len(Stack) - 1 /\ depth[r] \in 1..Len(Stack)
  BY StackType DEF LeaveLayer, TypeOK
<1>2. \A q \in Requests : InLayer(q, "metrics") <=>
        InLayer(q, "metrics")' \/ (q = r /\ Stack[depth[r]] = "metrics")
  BY <1>1, OneLayerMore DEF InLayer, TypeOK
<1>3. CASE Stack[depth[r]] = "metrics"
  <2>1. ~ \E i \in 1..(depth[r] - 1) : Stack[i] = Stack[(depth[r] - 1) + 1] BY <1>1, NotTwice
  <2>2. ~InLayer(r, "metrics")' /\ InLayer(r, "metrics") BY <1>1, <1>3, <2>1 DEF InLayer, TypeOK
  <2>3. Has("metrics") BY <1>1, <1>3, StackType DEF Has
  <2>4. r \notin Counted /\ Counted' = Counted \cup {r} BY <1>1, <1>2, <2>2, <2>3 DEF Counted, LeftLayer
  <2>5. w[r].counted = FinalStatus(w[r]) BY <1>1, <2>3 DEF Metered
  <2> QED BY <1>3, <2>4, <2>5 DEF Label, Got
<1>4. CASE Stack[depth[r]] # "metrics"
  <2>1. Counted' = Counted BY <1>1, <1>2, <1>4 DEF Counted, LeftLayer
  <2> QED BY <1>4, <2>1
<1> QED BY <1>3, <1>4

LEMMA KeptTotal ==
  ASSUME Totalled, Counted' = Counted, total' = total, \A q \in Counted : Got(q)' = Got(q)
  PROVE  Totalled'
<1>1. {Got(q)' : q \in Counted} = {Got(q) : q \in Counted} OBVIOUS
<1>2. \A l : {q \in Counted : Got(q)' = l} = {q \in Counted : Got(q) = l} OBVIOUS
<1> QED BY <1>1, <1>2 DEF Totalled

LEMMA OneMoreTotal ==
  ASSUME Totalled, IInv, NEW r \in Requests, r \notin Counted, Counted' = Counted \cup {r},
         \A q \in Requests : Got(q)' = Got(q), Count(Got(r))
  PROVE  Totalled'
<1> DEFINE Of(l) == {q \in Counted : Got(q) = l}
<1>1. Counted \subseteq Requests BY DEF Counted
<1>2. {Got(q)' : q \in Counted'} = {Got(q) : q \in Counted} \cup {Got(r)} BY <1>1
<1>3. DOMAIN total' = DOMAIN total \cup {Got(r)} BY DEF Count
<1>4. \A l \in DOMAIN total' : total'[l] = IF l \notin DOMAIN total THEN 1
                                          ELSE IF l = Got(r) THEN total[l] + 1 ELSE total[l]
  BY DEF Count
<1>5. ASSUME NEW l \in DOMAIN total' PROVE total'[l] = Cardinality({q \in Counted' : Got(q)' = l})
  <2>1. IsFiniteSet(Of(l)) BY CountedFinite
  <2>2. CASE l = Got(r)
    <3>1. {q \in Counted' : Got(q)' = l} = Of(l) \cup {r} BY <1>1, <2>2
    <3>2. r \notin Of(l) OBVIOUS
    <3>3. Cardinality(Of(l) \cup {r}) = Cardinality(Of(l)) + 1 BY <2>1, <3>2, FS_AddElement
    <3>4. CASE l \in DOMAIN total
      <4>1. total[l] = Cardinality(Of(l)) BY <3>4 DEF Totalled
      <4> QED BY <1>4, <2>2, <3>1, <3>3, <3>4, <4>1
    <3>5. CASE l \notin DOMAIN total
      <4>1. Of(l) = {} BY <3>5 DEF Totalled
      <4>2. Cardinality(Of(l)) = 0 BY <4>1, FS_EmptySet
      <4>3. Cardinality(Of(l) \cup {r}) = 1 BY <3>3, <4>2
      <4>4. total'[l] = 1 BY <1>4, <3>5
      <4> QED BY <3>1, <4>3, <4>4
    <3> QED BY <3>4, <3>5
  <2>3. CASE l # Got(r)
    <3>1. {q \in Counted' : Got(q)' = l} = Of(l) BY <1>1, <2>3
    <3>2. l \in DOMAIN total BY <1>3, <2>3
    <3>3. total[l] = Cardinality(Of(l)) BY <3>2 DEF Totalled
    <3> QED BY <1>4, <2>3, <3>1, <3>2, <3>3
  <2> QED BY <2>2, <2>3
<1>6. DOMAIN total' = {Got(q)' : q \in Counted'} BY <1>2, <1>3 DEF Totalled
<1> QED BY <1>5, <1>6 DEF Totalled

LEMMA NextTotal == IInv /\ Totalled /\ [Next]_vars => Totalled'
<1> SUFFICES ASSUME IInv, Totalled, [Next]_vars PROVE Totalled' OBVIOUS
<1>1. Counted \subseteq Requests BY DEF Counted
<1>2. ASSUME NEW r \in Requests, Still(r) PROVE Totalled'
  BY <1>2, StillUncounted, StillFrame, KeptTotal
<1>3. ASSUME NEW r \in Requests, EnterLayer(r) \/ UnwindLayer(r) PROVE Totalled'
  <2>1. UNCHANGED <<method, path, w, total>> BY <1>3 DEF EnterLayer, UnwindLayer, request
  <2> QED BY <1>1, <1>3, <2>1, GotKept, EnterUncounted, KeptTotal
<1>4. ASSUME NEW r \in Requests, LeaveLayer(r) PROVE Totalled'
  <2>1. UNCHANGED <<method, path, w>> BY <1>4 DEF LeaveLayer, request
  <2>2. \A q \in Requests : Got(q)' = Got(q) BY <2>1, GotKept
  <2>3. CASE Stack[depth[r]] = "metrics"
    <3>1. Count(Label(r)) BY <1>4, <2>3 DEF LeaveLayer
    <3>2. r \notin Counted /\ Counted' = Counted \cup {r} /\ Label(r) = Got(r) BY <1>4, <2>3, LeaveCounts
    <3>3. Count(Got(r)) BY <3>1, <3>2
    <3> QED BY <2>2, <3>2, <3>3, OneMoreTotal
  <2>4. CASE Stack[depth[r]] # "metrics"
    <3>1. total' = total BY <1>4, <2>4 DEF LeaveLayer
    <3>2. Counted' = Counted BY <1>4, <2>4, LeaveCounts
    <3> QED BY <1>1, <2>2, <3>1, <3>2, KeptTotal
  <2> QED BY <2>3, <2>4
<1>5. CASE UNCHANGED vars
  <2>1. UNCHANGED <<method, path, w, total>> /\ Counted' = Counted
    BY <1>5 DEF vars, request, Counted, LeftLayer, InLayer
  <2> QED BY <1>1, <2>1, GotKept, KeptTotal
<1> QED BY <1>2, <1>3, <1>4, <1>5, StepsOfNext DEF Quiet

LEMMA InitTotal == Init => Totalled
<1> SUFFICES ASSUME Init PROVE Totalled OBVIOUS
<1>1. Counted = {} BY DEF Init, Counted, LeftLayer
<1> QED BY <1>1 DEF Init, Totalled

\* requestsTotal is a count of what clients got, whoever sent it and in however
\* many attempts (metrics/prometheus.go:164-217), if statuses are final.
THEOREM CountsAreRight == ASSUME FinalCodes PROVE Spec => []TotalIsWhatClientsGot
BY ResponsesInvariant, InitTotal, NextTotal, TotalIsTotalled, PTL DEF Spec

-------------------------------------------------------------------------------
(* What is logged *)

LEMMA InitLogged == Init => \A r \in Requests : Logged(r)
BY DEF Init, Logged, NewWriter
LEMMA LoggedHeader ==
  ASSUME LogOutside, NEW v \in Writers, NEW code \in Nat, Has("logging"), v.logged = v.counted
  PROVE  WriteHeader(v, code).logged = WriteHeader(v, code).counted
<1>1. Has("metrics") /\ Stack = <<"logging", "metrics">> BY StackAssumption DEF LogOutside, Has, Inside
<1>2. ~Inside("logging", "metrics") BY <1>1 DEF Inside
<1>3. v.written \in BOOLEAN BY DEF Writers
<1> QED BY <1>1, <1>2, <1>3, HeaderWritten DEF LoggingSees, Swallows

LEMMA LoggedChunk ==
  ASSUME LogOutside, NEW v \in Writers, NEW c \in Chunks, Has("logging"), v.logged = v.counted
  PROVE  Write(v, c).logged = Write(v, c).counted
<1>1. Has("metrics") /\ Inside("metrics", "logging") BY StackAssumption DEF LogOutside, Has, Inside
<1>2. v.written \in BOOLEAN BY DEF Writers
<1> QED BY <1>1, <1>2, ChunkWritten

LEMMA StillLogged ==
  ASSUME LogOutside, FinalCodes, IInv, NEW r \in Requests, Effect(r), Logged(r), logLine' = logLine
  PROVE  Logged(r)'
<1> USE DEF Moves, KeepsErr, Keeps
<1>1. w[r] \in Writers BY DEF IInv, Shape, TypeOK
<1>2. ASSUME logLine[r] # NoStatus
      PROVE  pc'[r] \in {"up", "done"} /\ logLine[r] = FinalStatus(w'[r])
  <2>1. pc[r] \in {"up", "done"} /\ logLine[r] = FinalStatus(w[r]) BY <1>2 DEF Logged
  <2>2. Finishes(r) BY <2>1 DEF Effect, GoesDown, HasNoRoute, Sends, Returns, Panics, Succeeds, Encodes, Breaks,
                                IsSilent, Fails, FailsWithBody, Recovers
  <2> QED BY <1>1, <2>1, <2>2 DEF Finishes, Writers, FinalStatus, SendHeader, NoStatus
<1>3. ASSUME Has("logging"), pc'[r] # "recovered"
      PROVE  w'[r].logged = w'[r].counted
  <2>1. pc[r] # "recovered" => w[r].logged = w[r].counted BY <1>3 DEF Logged
  <2>2. ErrorUp(r) BY DEF IInv, Answered
  <2>3. CASE HasNoRoute(r)
    <3>1. WriteHeader(w[r], 404) \in Writers BY <1>1, HeaderType
    <3> QED BY <1>1, <1>3, <2>1, <2>3, <3>1, LoggedHeader, LoggedChunk DEF HasNoRoute, Chunks
  <2>4. CASE Sends(r) BY <1>1, <1>3, <2>1, <2>4, LoggedHeader, LoggedChunk, LifecycleAssumption DEF Sends, Chunks
  <2>5. CASE Succeeds(r) BY <1>1, <1>3, <2>1, <2>5, LoggedHeader DEF Succeeds, SuccessCode
  <2>6. CASE Encodes(r) \/ FailsWithBody(r)
    BY <1>1, <1>3, <2>1, <2>6, LoggedChunk DEF Encodes, FailsWithBody, Chunks
  <2>7. CASE Fails(r)
    <3>1. Status(r) \in Nat BY <2>2, <2>7, StatusIsFinal DEF Fails, ErrorUp
    <3> QED BY <1>1, <1>3, <2>1, <2>7, <3>1, LoggedHeader DEF Fails
  <2>8. CASE Finishes(r) BY <1>1, <2>1, <2>8 DEF Finishes, Writers
  <2>9. CASE GoesDown(r) \/ Returns(r) \/ Panics(r) \/ Breaks(r) \/ IsSilent(r)
    BY <2>1, <2>9 DEF GoesDown, Returns, Panics, Breaks, IsSilent
  <2> QED BY <1>3, <2>3, <2>4, <2>5, <2>6, <2>7, <2>8, <2>9 DEF Effect, Recovers
<1> QED BY <1>2, <1>3 DEF Logged

LEMMA LeaveLogged ==
  ASSUME LogOutside, IInv, NEW r \in Requests, LeaveLayer(r), Logged(r)
  PROVE  Logged(r)'
<1>1. UNCHANGED <<pc, w>> /\ pc[r] = "up" BY DEF LeaveLayer
<1>2. CASE Stack[depth[r]] = "metrics"
  <2>1. logLine' = logLine BY <1>2 DEF LeaveLayer
  <2> QED BY <1>1, <2>1 DEF Logged
<1>3. CASE Stack[depth[r]] # "metrics"
  <2>1. depth[r] \in 1..Len(Stack) BY StackType DEF LeaveLayer, IInv, Shape, TypeOK
  <2>2. Has("logging") BY <1>3, <2>1, StackType DEF Has
  <2>3. Has("metrics") BY <2>2 DEF LogOutside, Has, Inside
  <2>4. w[r].logged = w[r].counted /\ w[r].counted = FinalStatus(w[r])
    BY <1>1, <2>2, <2>3 DEF Logged, IInv, Metered
  <2>5. logLine'[r] = w[r].logged BY <1>3 DEF LeaveLayer, IInv, Shape, TypeOK
  <2> QED BY <1>1, <2>4, <2>5 DEF Logged
<1> QED BY <1>2, <1>3

LEMMA NextLogged ==
  ASSUME LogOutside, FinalCodes
  PROVE  IInv /\ (\A r \in Requests : Logged(r)) /\ [Next]_vars => (\A r \in Requests : Logged(r))'
<1> SUFFICES ASSUME IInv, \A r \in Requests : Logged(r), [Next]_vars, NEW q \in Requests PROVE Logged(q)' OBVIOUS
<1>1. ASSUME NEW r \in Requests, Still(r) PROVE Logged(q)'
  <2>1. Effect(r) /\ logLine' = logLine BY <1>1, StillEffect, StillFrame DEF IInv, Shape
  <2>2. q = r => Logged(q)' BY <2>1, StillLogged
  <2>3. q # r => pc'[q] = pc[q] /\ w'[q] = w[q] BY <1>1, StillAlone DEF IInv, Shape
  <2> QED BY <2>1, <2>2, <2>3 DEF Logged
<1>2. ASSUME NEW r \in Requests, EnterLayer(r) \/ UnwindLayer(r) PROVE Logged(q)'
  BY <1>2 DEF EnterLayer, UnwindLayer, Logged
<1>3. ASSUME NEW r \in Requests, LeaveLayer(r) PROVE Logged(q)'
  <2>1. q = r => Logged(q)' BY <1>3, LeaveLogged
  <2>2. UNCHANGED <<pc, w>> /\ (q # r => logLine'[q] = logLine[q]) BY <1>3 DEF LeaveLayer, IInv, Shape, TypeOK
  <2> QED BY <2>1, <2>2 DEF Logged
<1>4. CASE UNCHANGED vars BY <1>4 DEF vars, Logged
<1> QED BY <1>1, <1>2, <1>3, <1>4, StepsOfNext DEF Quiet

\* With the request log outside the metrics, its line tells the status that
\* was sent (middleware/http/logging.go:13).
THEOREM LogIsRight == ASSUME LogOutside, FinalCodes PROVE Spec => []LoggedStatusIsSent
<1>1. (\A r \in Requests : Logged(r)) => LoggedStatusIsSent BY DEF LoggedStatusIsSent, Logged
<1> QED BY <1>1, ResponsesInvariant, InitLogged, NextLogged, PTL DEF Spec
===============================================================================
