----------------------------- MODULE MCTypedChain -----------------------------
(* Small instances of TypedChain. *)
EXTENDS TypedChain, FiniteSets

Orders(S) == {s \in [1..Cardinality(S) -> S] : \A i, j \in DOMAIN s : s[i] = s[j] => i = j}

\* Every order of a few sets of middleware, one for each way to send a body,
\* and a list that names one twice.
MCLists ==
  UNION {Orders(S) : S \in
    { {"ParseParams", "ParseBody", "RequireAuth"},
      {"ParseHeaders", "ParseCSV", "RequireAuth"},
      {"ParseBody", "WithLogging", "ResponseJSON"}, {"WithRequestID", "WithLogging"},
      {"ParseJSON", "WithLogging", "ResponseJSONFile"},
      {"ParseBody", "ParseJSON"}, {"ParseCSV", "ParseJSON"} }}
  \cup {<<"ParseBody", "ParseBody">>}

\* One kind for each type of parameter.
Kind(param, required, bodyType) ==
  [param |-> param, required |-> required, body |-> bodyType, secret |-> TRUE]
MCKinds ==
  { Kind("int", "always", "struct"), Kind("uint", "sometimes", "none"),
    Kind("none", "no", "slice"), Kind("float", "always", "none"), Kind("bool", "no", "none"),
    Kind("string", "always", "none"), Kind("uuid", "no", "none"),
    [Kind("other", "no", "none") EXCEPT !.secret = FALSE] }

Integer(n) == [form |-> "integer", n |-> n]
Text(f) == [form |-> f, n |-> 0]
\* 261 is too wide for the field, 600 for a signed integer, 1100 for any.
MCParams ==
  {Integer(n) : n \in {-3, 0, 5, 120, 261, 600, 1100}} \cup
  {Text(f) : f \in {"empty", "word", "fraction", "truth", "uuid"}}

Sent(param, length, format, file, content, auth, who) ==
  [ param |-> param, length |-> length, format |-> format, file |-> file,
    content |-> content, auth |-> auth, id |-> who ]

\* One thing at a time may be wrong with the parameters, the sender or the body.
MCMessages ==
  {Sent(p, "positive", "json", "none", "good", "valid", "sent") : p \in MCParams} \cup
  {Sent(Integer(5), "positive", f, "csv", "good", a, "none") :
     f \in {"json", "form"}, a \in {"missing", "invalid", "unknown", "failing", "valid"}} \cup
  {Sent(Integer(5), l, "json", "none", c, "valid", w) :
     l \in {"zero", "positive", "chunked"}, c \in {"good", "refused", "broken", "cut"},
     w \in {"none", "sent"}} \cup
  {Sent(Integer(5), l, "form", f, c, "valid", "sent") :
     l \in {"positive", "chunked"}, f \in {"none", "csv", "json", "other"},
     c \in {"good", "refused", "broken", "empty", "cut"}}

MCHandlerErrors == {NoError, APIError(404)}
===============================================================================
