---------------------------- MODULE ResponseWriter ----------------------------
(***************************************************************************)
(* What one response goes through on its way out: the two wrappers the     *)
(* package puts around http.ResponseWriter (the request log's and the      *)
(* metrics') and the connection's own writer.  Stack lists the wrapping    *)
(* middleware in the order of router.Use, so the first is the outermost    *)
(* and a handler's call reaches the last one first.                        *)
(***************************************************************************)
EXTENDS Naturals, Sequences

CONSTANT Stack

ASSUME StackAssumption ==
  Stack \in { <<>>, <<"metrics">>, <<"logging">>,
              <<"metrics", "logging">>, <<"logging", "metrics">> }

NoStatus == 0

Has(layer) == \E i \in DOMAIN Stack : Stack[i] = layer
Inside(inner, outer) ==
  \E i, j \in DOMAIN Stack : Stack[i] = inner /\ Stack[j] = outer /\ i > j

Chunks == {"raw", "data", "error"}

\* wire: the final status sent; body: what was sent after it; logged: the
\* logging wrapper's statusCode; counted, written: the metrics wrapper's.
Writers == [ wire : Nat, body : SUBSET Chunks,
             logged : Nat, counted : Nat, written : BOOLEAN ]

NewWriter == [ wire |-> NoStatus, body |-> {},
               logged |-> 200, counted |-> 200, written |-> FALSE ]

\* The metrics wrapper swallows every header after its first one.
Swallows(w) == Has("metrics") /\ w.written

LoggingSees(w) ==
  /\ Has("logging")
  /\ Swallows(w) => Inside("logging", "metrics")

\* net/http sends one final header: a later one is superfluous, and a 1xx
\* is informational and leaves the final one still to be sent.
SendHeader(wire, code) == IF wire = NoStatus /\ code >= 200 THEN code ELSE wire

\* Mutant of WriteHeader: a later header is counted and passed on as well.
WriteHeaderAlwaysCounted(w, code) ==
  [ w EXCEPT !.logged  = IF Has("logging") THEN code ELSE @,
             !.counted = IF Has("metrics") THEN code ELSE @,
             !.written = @ \/ Has("metrics"),
             !.wire    = SendHeader(@, code) ]

\* A handler calls WriteHeader on the innermost wrapper.
WriteHeader(w, code) ==
  [ w EXCEPT !.logged  = IF LoggingSees(w) THEN code ELSE @,
             !.counted = IF Has("metrics") /\ ~w.written THEN code ELSE @,
             !.written = @ \/ Has("metrics"),
             !.wire    = IF Swallows(w) THEN @ ELSE SendHeader(@, code) ]

\* Only the metrics wrapper intercepts Write, to send a 200 it has not seen
\* yet; below it the connection supplies the 200 by itself.
Write(w, chunk) ==
  [ w EXCEPT !.logged  = IF Has("metrics") /\ ~w.written /\ Inside("metrics", "logging")
                         THEN 200 ELSE @,
             !.counted = IF Has("metrics") /\ ~w.written THEN 200 ELSE @,
             !.written = @ \/ Has("metrics"),
             !.wire    = SendHeader(@, 200),
             !.body    = @ \cup {chunk} ]

\* A handler that returns without a header has answered 200.
FinalStatus(w) == SendHeader(w.wire, 200)
===============================================================================
