------------------------------ MODULE HttpErrors ------------------------------
(***************************************************************************)
(* The error values that travel up a handler chain and the HTTP status     *)
(* each of the three error sinks turns them into.  Statuses are plain      *)
(* numbers; a message, a detail and the fields are abstracted away.        *)
(***************************************************************************)
EXTENDS Naturals

\* "api" is a bare *core.APIError.  "wrapped" is one behind fmt.Errorf("%w"),
\* which a type assertion does not see.  "canceled" and "deadline" are the
\* errors in which errors.Is finds the context sentinel, at any depth.
ErrorKinds == {"nil", "api", "wrapped", "canceled", "deadline", "opaque"}

APIError(code)     == [kind |-> "api", code |-> code]
WrappedAPI(code)   == [kind |-> "wrapped", code |-> code]
NoError            == [kind |-> "nil", code |-> 0]
Canceled           == [kind |-> "canceled", code |-> 0]
DeadlineExceeded   == [kind |-> "deadline", code |-> 0]
Opaque             == [kind |-> "opaque", code |-> 0]

Errors == [kind : ErrorKinds, code : Nat]

\* The status the adapter of the typed handlers answers with; 0 is silence.
Silent == 0
AdaptHandlerReply(err) ==
  CASE err.kind = "canceled" -> Silent
    [] err.kind = "deadline" -> 504
    [] err.kind = "api"      -> err.code
    [] OTHER                 -> 500

\* core.HandlerFunc.ServeHTTP and router.AdaptErrorHandler know no context
\* errors: a cancelled or timed-out plain handler answers 500.
HandleErrorReply(err) == IF err.kind = "api" THEN err.code ELSE 500
===============================================================================
