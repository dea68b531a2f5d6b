------------------------------ MODULE TypedChain ------------------------------
(***************************************************************************)
(* One request on its way through the typed middleware a handler was made  *)
(* with: each reads the request or its context, passes an enriched copy of *)
(* the context on or refuses, and on the way back sees what the inner ones *)
(* made of it.  What they share is the request: its body can be read once, *)
(* its multipart form is kept once parsed.  RequestLifecycle sees all this *)
(* as a handler that returns an error or not.                              *)
(***************************************************************************)
EXTENDS HttpErrors, Integers, Sequences

CONSTANTS
  Lists,          \* the middleware lists handlers are made with
  Kinds,          \* their type parameters
  Messages,       \* the requests
  Half,           \* half of the numbers an integer parameter has, 128 of 8 bits
  Whole,          \* half of those strconv parses, 2^63
  Limit,          \* the largest number its validation allows
  HandlerErrors   \* errors handlers return

Middleware == {"ParseParams", "ParseHeaders", "ParseBody", "ParseCSV", "ParseJSON",
               "RequireAuth", "WithRequestID", "WithLogging", "ResponseJSON", "ResponseJSONFile"}
Uploads == {"ParseCSV", "ParseJSON"}
BodyReaders == {"ParseBody"} \cup Uploads
Responders == {"ResponseJSON", "ResponseJSONFile"}

\* param: the type of ParamTypeT's field, none in a struct{}; "other" is a
\* pointer, say.  required: by its validate tag, on conditions like
\* required_if's, or not.  body: whether BodyTypeT is struct{}, a struct or a slice.
\* secret: whether RequireAuth was given a JWT secret.
AllKinds ==
  [ param : {"none", "int", "uint", "float", "bool", "string", "uuid", "other"},
    required : {"no", "sometimes", "always"}, body : {"none", "struct", "slice"},
    secret : BOOLEAN ]

Texts == [form : {"empty", "word", "integer", "fraction", "truth", "uuid"}, n : Int]

\* length: of r.ContentLength only its sign counts, a chunked body has -1.
\* content: of the JSON body or of the file in the form; "refused" decodes but
\* fails validation, "cut" ends with the connection.  auth: of a valid token,
\* what the application finds: nobody of the name, an error, or the user.
AllMessages ==
  [ param : Texts, length : {"zero", "positive", "chunked"}, format : {"json", "form"},
    file : {"none", "csv", "json", "other"},
    content : {"good", "refused", "broken", "empty", "cut"},
    auth : {"missing", "malformed", "invalid", "unknown", "failing", "valid"},
    id : {"none", "sent"} ]

ASSUME ChainAssumption ==
  /\ Lists \subseteq Seq(Middleware)
  /\ Kinds \subseteq AllKinds
  /\ Messages \subseteq AllMessages
  /\ Half \in Nat \ {0} /\ Whole \in Nat \ {0} /\ Limit \in Nat
  /\ HandlerErrors \subseteq Errors /\ NoError \in HandlerErrors

VARIABLES
  list,    \* the middleware, in the order MakeHandler was given
  kind,    \* the handler's type parameters
  msg,     \* the request as it was sent
  id,      \* the request id in the request's context
  dir,     \* "http" before the adapter, "in", "out", "done" or "panicked"
  pos,     \* the layer that runs; the handler is the one after the last
  ctx,     \* ctx[k]: the context the k-th layer was called with
  body,    \* what is left of the body to read: "whole" or "drained"
  form,    \* whether r.MultipartForm is set
  err,     \* the error on its way out
  lines,   \* WithLogging's lines
  reply    \* what ResponseJSON or the adapter sent

input == <<list, kind, msg>>
request == <<body, form>>
vars == <<input, id, dir, pos, ctx, request, err, lines, reply>>

-------------------------------------------------------------------------------
(* Contexts: each field a Nullable *)

Absent == [has |-> FALSE, value |-> "zero", n |-> 0]
Present(v) == [has |-> TRUE, value |-> v, n |-> 0]
Number(n) == [has |-> TRUE, value |-> "zero", n |-> n]

\* Value's error for an absent field: an internal one.
ValueError(field) == IF field.has THEN NoError ELSE APIError(500)

\* What adaptHandler calls the chain with.
NewContext == [ Params |-> Absent, Body |-> Absent, BodyRaw |-> Absent, Headers |-> Absent,
                RequestID |-> Absent, User |-> Absent ]

Init ==
  /\ list \in Lists /\ kind \in Kinds /\ msg \in Messages
  /\ id = "none"
  /\ dir = "http" /\ pos = 1
  /\ ctx = << >>
  /\ body = IF msg.length = "zero" THEN "drained" ELSE "whole"
  /\ form = FALSE
  /\ err = NoError
  /\ lines = << >>
  /\ reply = "none"

-------------------------------------------------------------------------------
(* From layer to layer *)

\* Mutant of Layer: as a comment has it, the last middleware executes first.
LayerFromTheEnd(k) == list[Len(list) + 1 - k]

\* MakeHandler wraps the handler into the last of the list, that into the one
\* before, and so on: the first of the list is entered first.
Layer(k) == list[k]

Ctx == ctx[pos]
Inwards(layer) == dir = "in" /\ pos <= Len(list) /\ Layer(pos) = layer
Outwards(layer) == dir = "out" /\ pos >= 1 /\ Layer(pos) = layer
AtHandler == dir = "in" /\ pos = Len(list) + 1

\* Mutant of Pass: the one context is enriched for everybody.
PassInPlace(c) ==
  /\ pos' = pos + 1
  /\ ctx' = [ctx EXCEPT ![pos] = c]
  /\ UNCHANGED <<dir, err>>

Pass(c) ==
  /\ pos' = pos + 1
  /\ ctx' = Append(ctx, c)
  /\ UNCHANGED <<dir, err>>

Refuse(e) ==
  /\ dir' = "out" /\ pos' = pos - 1
  /\ err' = e
  /\ UNCHANGED ctx

Leave == pos' = pos - 1 /\ UNCHANGED <<input, id, dir, ctx, request>>

-------------------------------------------------------------------------------
(* The router's own request id, and the adapter *)

\* http.WithRequestID keeps the caller's id or makes one up.
HttpRequestID ==
  /\ dir = "http" /\ id = "none"
  /\ id' = IF msg.id = "none" THEN "minted" ELSE msg.id
  /\ UNCHANGED <<input, dir, pos, ctx, request, err, lines, reply>>

\* The http middleware may be missing: the id is then left alone.
Adapt ==
  /\ dir = "http"
  /\ dir' = "in"
  /\ ctx' = <<NewContext>>
  /\ UNCHANGED <<input, id, pos, request, err, lines, reply>>

-------------------------------------------------------------------------------
(* Parameters *)

\* isRequired takes any tag with "required" in it for the rule itself.
IsRequired == kind.required # "no"

\* What strconv and uuid.Parse make sense of.  No text suits another type,
\* and an empty one suits the types they support.
Convertible(text) ==
  \/ text.form = "empty" /\ kind.param # "other"
  \/ kind.param = "string"
  \/ kind.param = "int" /\ text.form = "integer" /\ text.n \in -Whole..Whole - 1
  \/ kind.param = "uint" /\ text.form = "integer" /\ text.n \in 0..2 * Whole - 1
  \/ kind.param = "float" /\ text.form \in {"integer", "fraction"}
  \/ kind.param = "bool" /\ (text.form = "truth" \/ (text.form = "integer" /\ text.n \in {0, 1}))
  \/ kind.param = "uuid" /\ text.form = "uuid"

\* SetInt and SetUint keep the low bits of the 64 that were parsed.
LowBits(n) == n % (2 * Half)
Signed(n) == LowBits(n + Half) - Half

\* Mutant of FieldValue: SetInt's value is the value parsed, unsigned.
FieldValueUnsigned(text) ==
  IF text.form = "empty" THEN Number(0)
  ELSE IF kind.param \in {"int", "uint"} THEN Number(LowBits(text.n)) ELSE Present(text.form)

FieldValue(text) ==
  IF text.form = "empty" THEN Number(0)
  ELSE CASE kind.param = "int"  -> Number(Signed(text.n))
         [] kind.param = "uint" -> Number(LowBits(text.n))
         [] kind.param \in {"float", "bool"} /\ text.form = "integer" -> Number(text.n)
         [] OTHER -> Present(text.form)

\* To the validator a zero is missing, and a limit is about numbers.
ValidValue(v) ==
  /\ kind.required = "always" => v # Number(0)
  /\ kind.param \in {"int", "uint", "float"} => v.n <= Limit

ValidParam(text) ==
  /\ IsRequired => text.form # "empty"
  /\ Convertible(text)
  /\ ValidValue(FieldValue(text))

ParseParams ==
  /\ Inwards("ParseParams")
  /\ \/ kind.param = "none" /\ Pass([Ctx EXCEPT !.Params = Absent])
     \/ /\ kind.param # "none" /\ ValidParam(msg.param)
        /\ Pass([Ctx EXCEPT !.Params = FieldValue(msg.param)])
     \/ kind.param # "none" /\ ~ValidParam(msg.param) /\ Refuse(APIError(400))
  /\ UNCHANGED <<input, id, request, lines, reply>>

ParseHeaders ==
  /\ Inwards("ParseHeaders")
  /\ Pass([Ctx EXCEPT !.Headers = Present("headers")])
  /\ UNCHANGED <<input, id, request, lines, reply>>

-------------------------------------------------------------------------------
(* The body, as JSON *)

\* What io.ReadAll gives: nothing where another middleware has read before.
Raw == IF msg.length # "positive" THEN Absent
       ELSE Present(IF body = "whole" THEN "whole" ELSE "nothing")
ReadFails == msg.length = "positive" /\ body = "whole" /\ msg.content = "cut"

\* Mutant of ValidBody: validation is left out.
DecodedBody ==
  /\ Raw = Present("whole") /\ kind.body = "struct"
  /\ msg.format = "json" /\ msg.content \in {"good", "refused"}

\* A slice never passes validate.Struct, a chunked body is never read.
ValidBody ==
  /\ Raw = Present("whole")
  /\ msg.format = "json" /\ msg.content = "good"
  /\ kind.body = "struct"

\* The raw body is read before anything is asked of it.
ParseBody ==
  LET c == [Ctx EXCEPT !.BodyRaw = Raw] IN
  /\ Inwards("ParseBody")
  /\ \/ ReadFails /\ Refuse(APIError(400))
     \/ ~ReadFails /\ kind.body = "none" /\ Pass([c EXCEPT !.Body = Absent])
     \/ ValidBody /\ Pass([c EXCEPT !.Body = Present("body")])
     \/ ~ReadFails /\ kind.body # "none" /\ ~ValidBody /\ Refuse(APIError(400))
  /\ body' = IF msg.length = "positive" THEN "drained" ELSE body
  /\ UNCHANGED <<input, id, form, lines, reply>>

-------------------------------------------------------------------------------
(* The body, as a form with a file *)

\* ParseMultipartForm reads the body once and returns at once the next time.
FormParses == form \/ (body = "whole" /\ msg.format = "form" /\ msg.content # "cut")

ValidCSV == msg.file = "csv" /\ msg.content = "good" /\ kind.body = "slice"
\* Nothing to validate in a struct{}, and validate.Struct refuses any slice.
ValidJSON ==
  /\ msg.file = "json"
  /\ \/ msg.content = "good" /\ kind.body # "slice"
     \/ msg.content = "refused" /\ kind.body = "none"

ParseUpload(layer, valid, value) ==
  /\ Inwards(layer)
  /\ \/ FormParses /\ valid /\ Pass([Ctx EXCEPT !.Body = Present(value)])
     \/ ~(FormParses /\ valid) /\ Refuse(APIError(400))
  /\ form' = FormParses
  /\ body' = IF msg.format = "form" THEN "drained" ELSE body
  /\ UNCHANGED <<input, id, lines, reply>>

ParseCSV == ParseUpload("ParseCSV", ValidCSV, "rows")
ParseJSON == ParseUpload("ParseJSON", ValidJSON, "file")

-------------------------------------------------------------------------------
(* Authentication, request id, log, response *)

\* What jwt.ValidateToken says of the header's token, if there is one.
TokenHolds == msg.auth \in {"unknown", "failing", "valid"}

\* Mutant of AuthError: the database is not asked.
AuthErrorOfToken ==
  CASE msg.auth \in {"missing", "malformed"} -> APIError(401)
    [] ~kind.secret                          -> APIError(500)
    [] ~TokenHolds                           -> APIError(401)
    [] OTHER                                 -> NoError

\* The application's own answers are for a user it does not know and for a
\* database that fails.
AuthError ==
  CASE msg.auth \in {"missing", "malformed"} -> APIError(401)
    [] ~kind.secret                          -> APIError(500)
    [] ~TokenHolds                           -> APIError(401)
    [] msg.auth = "unknown"                  -> APIError(403)
    [] msg.auth = "failing"                  -> APIError(500)
    [] OTHER                                 -> NoError

RequireAuth ==
  /\ Inwards("RequireAuth")
  /\ \/ AuthError # NoError /\ Refuse(AuthError)
     \/ AuthError = NoError /\ Pass([Ctx EXCEPT !.User = Present("claims")])
  /\ UNCHANGED <<input, id, request, lines, reply>>

\* The logger of the context is enriched together with the context.
WithRequestID ==
  /\ Inwards("WithRequestID")
  /\ Pass(IF id = "none" THEN Ctx ELSE [Ctx EXCEPT !.RequestID = Present(id)])
  /\ UNCHANGED <<input, id, request, lines, reply>>

Line(what) == Append(lines, [what |-> what, id |-> Ctx.RequestID])

WithLogging ==
  /\ Inwards("WithLogging")
  /\ lines' = Line("request")
  /\ Pass(Ctx)
  /\ UNCHANGED <<input, id, request, reply>>

ResponseJSON ==
  /\ \E layer \in Responders : Inwards(layer)
  /\ Pass(Ctx)
  /\ UNCHANGED <<input, id, request, lines, reply>>

-------------------------------------------------------------------------------
(* The handler, and the way back *)

\* It returns an error of its own, or the one Value gives it for its body.
HandlerReturns(e) ==
  /\ AtHandler
  /\ e \in HandlerErrors \cup {ValueError(Ctx.Body)}
  /\ dir' = "out" /\ pos' = pos - 1
  /\ err' = e
  /\ UNCHANGED <<input, id, ctx, request, lines, reply>>

\* A panic unwinds every layer; none of them recovers or logs.
HandlerPanics ==
  /\ AtHandler
  /\ dir' = "panicked"
  /\ UNCHANGED <<input, id, pos, ctx, request, err, lines, reply>>

\* Mutant of LogsOutcome: the outcome is not looked at.
LogsSuccess ==
  /\ Outwards("WithLogging")
  /\ lines' = Line("success")
  /\ Leave /\ UNCHANGED <<err, reply>>

LogsOutcome ==
  /\ Outwards("WithLogging")
  /\ lines' = Line(IF err = NoError THEN "success" ELSE "error")
  /\ Leave /\ UNCHANGED <<err, reply>>

\* The two responders differ in a header that names the download.
Responds ==
  /\ \E layer \in Responders : Outwards(layer)
  /\ err = NoError
  /\ \/ reply' = "data" /\ UNCHANGED err
     \/ reply' = "header" /\ err' = APIError(500)
  /\ Leave /\ UNCHANGED lines

PassesError ==
  /\ \E layer \in Middleware \ {"WithLogging"} :
       Outwards(layer) /\ (layer \in Responders => err # NoError)
  /\ Leave /\ UNCHANGED <<err, lines, reply>>

\* adaptHandler leaves a result alone and answers an error it may answer.
Adapted ==
  /\ dir = "out" /\ pos = 0
  /\ dir' = "done"
  /\ reply' = IF err # NoError /\ AdaptHandlerReply(err) # Silent /\ reply = "none"
              THEN "error" ELSE reply
  /\ UNCHANGED <<input, id, pos, ctx, request, err, lines>>

-------------------------------------------------------------------------------
Layers ==
  \/ ParseParams \/ ParseHeaders \/ ParseBody \/ ParseCSV \/ ParseJSON
  \/ RequireAuth \/ WithRequestID \/ WithLogging \/ ResponseJSON
  \/ LogsOutcome \/ Responds \/ PassesError

Over == dir \in {"done", "panicked"}

\* The request has been served.
Quiet == Over /\ UNCHANGED vars

Next ==
  \/ HttpRequestID \/ Adapt \/ Layers
  \/ \E e \in HandlerErrors \cup {APIError(500)} : HandlerReturns(e)
  \/ HandlerPanics \/ Adapted \/ Quiet

Spec == Init /\ [][Next]_vars

-------------------------------------------------------------------------------
(* Properties *)

Values == {"zero", "word", "integer", "fraction", "truth", "uuid", "headers",
           "whole", "nothing", "body", "rows", "file", "claims", "sent", "minted"}
Fields == [has : BOOLEAN, value : Values, n : Int]
Contexts == [ Params : Fields, Body : Fields, BodyRaw : Fields, Headers : Fields,
              RequestID : Fields, User : Fields ]

TypeOK ==
  /\ list \in Lists /\ kind \in Kinds /\ msg \in Messages
  /\ id \in {"none", "sent", "minted"}
  /\ dir \in {"http", "in", "out", "done", "panicked"}
  /\ pos \in 0..Len(list) + 1
  /\ ctx \in Seq(Contexts) /\ (dir = "in" => Len(ctx) = pos)
  /\ body \in {"whole", "drained"} /\ form \in BOOLEAN
  /\ err \in Errors
  /\ lines \in Seq([what : {"request", "success", "error"}, id : Fields])
  /\ reply \in {"none", "data", "header", "error"}

Listed(layer) == \E k \in DOMAIN list : list[k] = layer
Before(a, b) == \E j, k \in DOMAIN list : j < k /\ list[j] = a /\ list[k] = b

\* The parameter as it was written; of a number its type has not, the one
\* number its type has that agrees with it modulo how many there are.
InRange ==
  CASE kind.param = "int"  -> -Half..Half - 1
    [] kind.param = "uint" -> 0..2 * Half - 1
    [] OTHER               -> {msg.param.n}
AsWritten ==
  CASE msg.param.form = "empty" -> Number(0)
    [] msg.param.form = "integer" /\ kind.param # "string" ->
         Number(CHOOSE n \in InRange : (n - msg.param.n) % (2 * Half) = 0)
    [] OTHER -> Present(msg.param.form)

\* What a middleware thinks of the request as it was sent.
Acceptable(layer) ==
  CASE layer = "ParseParams" -> kind.param # "none" =>
                                  /\ IsRequired => msg.param.form # "empty"
                                  /\ Convertible(msg.param) /\ ValidValue(AsWritten)
    [] layer = "ParseBody"   -> IF msg.length = "positive" /\ msg.content = "cut" THEN FALSE
                                ELSE kind.body = "none" \/
                                     ( /\ msg.length = "positive" /\ msg.format = "json"
                                       /\ msg.content = "good" /\ kind.body = "struct" )
    [] layer = "ParseCSV"    -> msg.format = "form" /\ msg.length # "zero" /\ ValidCSV
    [] layer = "ParseJSON"   -> msg.format = "form" /\ msg.length # "zero" /\ ValidJSON
    [] layer = "RequireAuth" -> msg.auth = "valid" /\ kind.secret
    [] OTHER                 -> TRUE

Reading == {k \in DOMAIN list : list[k] \in BodyReaders}
OneReader == \A j, k \in Reading : j = k
HandlerRan == Len(ctx) = Len(list) + 1

\* The handler runs only if every middleware of its list accepts the request
\* as it was sent, in whatever order they are listed, and though what one has
\* read is gone for the next; and it runs whenever they do, where at most one
\* of them reads the body (middleware/typed/*.go, each after the others have
\* read from the same request, handler/types.go:139-142).
EveryGuardHolds ==
  dir \in {"out", "done", "panicked"} =>
    LET AllAccept == \A k \in DOMAIN list : Acceptable(list[k])
    IN  /\ HandlerRan => AllAccept
        /\ AllAccept /\ OneReader => HandlerRan

If(condition, field) == IF condition THEN field ELSE Absent
BodyOf(layer) ==
  CASE layer = "ParseBody" -> If(kind.body # "none", Present("body"))
    [] layer = "ParseCSV"  -> Present("rows")
    [] layer = "ParseJSON" -> Present("file")

\* And its context then holds what was sent in this request: each field is
\* there if the middleware that sets it is listed, however the contexts were
\* copied and overwritten on the way (handler/adapter.go:76-83).  Where two
\* read the body, the inner one's value stands, and a body that was read
\* before leaves the raw one empty but present.  A number too wide for its
\* field is there as what was validated, its low bits (request.go:244).  A body
\* of the type struct{} is absent after ParseBody and present after ParseJSON,
\* of which typed-middleware.md:51-53 says that it is left empty too.
ContextIsTheRequest ==
  AtHandler =>
    LET last == CHOOSE k \in Reading : \A j \in Reading : j <= k
    IN  /\ Ctx.Params = If(Listed("ParseParams") /\ kind.param # "none", AsWritten)
        /\ Ctx.Body = IF Reading = {} THEN Absent ELSE BodyOf(list[last])
        /\ Ctx.BodyRaw = If(Listed("ParseBody") /\ msg.length = "positive",
                            Present(IF \E r \in BodyReaders : Before(r, "ParseBody")
                                    THEN "nothing" ELSE "whole"))
        /\ Ctx.Headers = If(Listed("ParseHeaders"), Present("headers"))
        /\ Ctx.User = If(Listed("RequireAuth"), Present("claims"))
        /\ Ctx.RequestID = If(Listed("WithRequestID") /\ id # "none", Present(id))

\* The body of a request is not read before every middleware listed in front
\* of the first that reads it has accepted the request: not, say, the upload
\* of somebody who is not authenticated (handler/types.go:139-142).
UnreadUntilAccepted ==
  body = "drained" /\ msg.length # "zero" =>
    \E k \in DOMAIN list :
      list[k] \in BodyReaders /\ \A j \in 1..k - 1 : Acceptable(list[j])

LoggedOnce == \A j, k \in DOMAIN list : list[j] = "WithLogging" /\ list[k] = "WithLogging" => j = k

\* WithLogging, listed once, writes two lines of each request that gets to it.
\* The second tells what the layers listed after it made of the request: where
\* a responder is listed before it, success even of a response that then could
\* not be sent.  Both have the request's id just if WithRequestID is listed
\* before it (middleware/typed/logging.go:34-73).  So WithLogging at the end of
\* the list, where logging.go:13-14 puts it to wrap "all other middleware",
\* wraps the handler only, and says nothing of a request that a layer refuses.
LogTellsOutcome ==
  LET Outside(layers) == \E r \in layers : Before(r, "WithLogging")
      Inside(layers) == \E r \in layers : Before("WithLogging", r)
  IN  dir = "done" /\ OneReader /\ LoggedOnce /\ ~(Outside(Responders) /\ Inside(Responders)) =>
        \A k \in DOMAIN list : list[k] = "WithLogging" =>
          LET its == If(Before("WithRequestID", "WithLogging") /\ id # "none", Present(id))
              success == err = NoError \/ (Outside(Responders) /\ reply = "header")
          IN  lines = IF \A j \in 1..k : Acceptable(list[j])
                      THEN << [what |-> "request", id |-> its],
                              [what |-> IF success THEN "success" ELSE "error", id |-> its] >>
                      ELSE << >>

\* middleware/typed/json.go:28: "BodyTypeT should be ImportData or
\* []ImportData": a well-formed upload of either kind gets to its handler.
UploadsOfEitherKindPass ==
  LET wellFormed == /\ msg.format = "form" /\ msg.length # "zero"
                    /\ msg.file = "json" /\ msg.content = "good"
      Others == {k \in DOMAIN list : list[k] # "ParseJSON"}
  IN  /\ dir = "done" /\ OneReader /\ Listed("ParseJSON") /\ kind.body # "none"
      /\ wellFormed /\ \A k \in Others : Acceptable(list[k])
      => HandlerRan
===============================================================================
