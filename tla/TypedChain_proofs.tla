--------------------------- MODULE TypedChain_proofs ---------------------------
(***************************************************************************)
(* Safety of TypedChain, for any lists of middleware, whatever they repeat *)
(* and however long they are, any requests, and integers of any width.     *)
(***************************************************************************)
EXTENDS TypedChain, WellFoundedInduction, TLAPS

\* Every layer entered has a context; the one that runs has the last, until
\* the way back begins.
Typed ==
  /\ TypeOK
  /\ dir = "http" => ctx = << >> /\ pos = 1
  /\ dir = "in" => pos = Len(ctx)
  /\ dir # "http" => Len(ctx) \in 1..Len(list) + 1
  /\ dir = "out" => pos < Len(ctx)
  /\ dir = "done" => pos = 0
  /\ dir = "panicked" => Len(ctx) = Len(list) + 1

\* Every layer that was passed accepts the request, and one that refuses does
\* so on its own account if no other has read the body.
Accepting == {k \in DOMAIN list : Acceptable(list[k])}
Guarded ==
  /\ 1..Len(ctx) - 1 \subseteq Accepting
  /\ dir \in {"out", "done"} /\ Len(ctx) <= Len(list) /\ OneReader => Len(ctx) \notin Accepting

\* What is left of the body, and of whom it tells.
ReadBefore(k) == \E j \in 1..k - 1 : list[j] \in BodyReaders
Reads ==
  /\ body = "whole" => msg.length # "zero"
  /\ form => msg.format = "form" /\ msg.content # "cut" /\ msg.length # "zero"
  /\ dir = "in" /\ body = "drained" /\ msg.length # "zero" => msg.content # "cut"
  /\ dir = "in" /\ ReadBefore(pos) /\ msg.length = "positive" => body = "drained"
  /\ dir \in {"http", "in"} /\ ~ReadBefore(pos) =>
       ~form /\ (msg.length # "zero" => body = "whole")
  /\ body = "drained" /\ msg.length # "zero" =>
       \E k \in DOMAIN list : list[k] \in BodyReaders /\ 1..k - 1 \subseteq Accepting

\* What the k-th context owes to the layers before it.
Passed(k, layer) == \E j \in 1..k - 1 : list[j] = layer
Bodies == [j \in DOMAIN list |-> BodyOf(list[j])]
RawRead(k) == \E j \in 1..k - 1 : list[j] = "ParseBody" /\ ReadBefore(j)
Enriched(k) ==
  /\ ctx[k].Params = If(Passed(k, "ParseParams") /\ kind.param # "none", AsWritten)
  /\ ctx[k].Headers = If(Passed(k, "ParseHeaders"), Present("headers"))
  /\ ctx[k].User = If(Passed(k, "RequireAuth"), Present("claims"))
  /\ ctx[k].RequestID = If(Passed(k, "WithRequestID") /\ id # "none", Present(id))
  /\ ~ReadBefore(k) => ctx[k].Body = Absent
  /\ \A j \in 1..k - 1 :
       list[j] \in BodyReaders /\ (\A i \in j + 1..k - 1 : list[i] \notin BodyReaders) =>
         ctx[k].Body = Bodies[j]
  /\ ctx[k].BodyRaw = If(Passed(k, "ParseBody") /\ msg.length = "positive",
                         Present(IF RawRead(k) THEN "nothing" ELSE "whole"))
Contextual == \A k \in 1..Len(ctx) : Enriched(k)

\* Before the way back nothing is sent, and on it only a responder that was
\* left has sent anything.
Answered ==
  /\ dir \in {"http", "in", "panicked"} => reply = "none"
  /\ dir = "out" /\ reply # "none" =>
       \E j \in DOMAIN list : j > pos /\ list[j] \in Responders

\* The lines of the one WithLogging, before, between and after its two.
Outside == \E r \in Responders : Before(r, "WithLogging")
Inside == \E r \in Responders : Before("WithLogging", r)
LogStands == LoggedOnce /\ ~(Outside /\ Inside)
Its(k) == If(Passed(k, "WithRequestID") /\ id # "none", Present(id))
Verdict == IF err = NoError \/ (Outside /\ reply = "header") THEN "success" ELSE "error"
Logged(k) ==
  /\ Len(ctx) <= k => lines = << >>
  /\ Len(ctx) > k /\ (dir \in {"in", "panicked"} \/ pos >= k) =>
       lines = << [what |-> "request", id |-> Its(k)] >>
  /\ Len(ctx) > k /\ dir \in {"out", "done"} /\ pos < k =>
       lines = << [what |-> "request", id |-> Its(k)], [what |-> Verdict, id |-> Its(k)] >>
Lined == LogStands => \A k \in DOMAIN list : list[k] = "WithLogging" => Logged(k)

IInv == Typed /\ Guarded /\ Reads /\ Contextual /\ Answered /\ Lined

-------------------------------------------------------------------------------
(* Inputs *)

\* What the constants say of the input.
LEMMA InputTypes ==
  ASSUME TypeOK
  PROVE  /\ list \in Seq(Middleware) /\ Len(list) \in Nat /\ DOMAIN list = 1..Len(list)
         /\ \A k \in DOMAIN list : list[k] \in Middleware
         /\ kind \in AllKinds /\ msg \in AllMessages
         /\ msg.param.n \in Int
         /\ msg.param.form \in {"empty", "word", "integer", "fraction", "truth", "uuid"}
<1>1. list \in Seq(Middleware) /\ kind \in AllKinds /\ msg \in AllMessages
  BY ChainAssumption DEF TypeOK
<1>2. msg.param \in Texts
  BY <1>1 DEF AllMessages
<1> QED
  BY <1>1, <1>2 DEF Texts

\* The input is read and never written.
LEMMA InputStays ==
  ASSUME UNCHANGED input
  PROVE  /\ list' = list /\ kind' = kind /\ msg' = msg
         /\ Accepting' = Accepting /\ Bodies' = Bodies /\ AsWritten' = AsWritten
         /\ OneReader' = OneReader /\ LogStands' = LogStands /\ Outside' = Outside
<1>1. list' = list /\ kind' = kind /\ msg' = msg
  BY DEF input
<1>2. AsWritten' = AsWritten
  BY <1>1 DEF AsWritten, InRange
<1>3. Bodies' = Bodies
  BY <1>1 DEF Bodies, BodyOf, If
<1>4. Accepting' = Accepting
  BY <1>1, <1>2 DEF Accepting, Acceptable, IsRequired, Convertible, ValidValue, ValidCSV, ValidJSON
<1>5. OneReader' = OneReader /\ LogStands' = LogStands /\ Outside' = Outside
  BY <1>1 DEF OneReader, Reading, LogStands, LoggedOnce, Outside, Inside, Before
<1> QED
  BY <1>1, <1>2, <1>3, <1>4, <1>5

\* What each middleware accepts.
LEMMA AcceptableIs ==
  /\ Acceptable("ParseParams") <=>
       (kind.param # "none" => /\ IsRequired => msg.param.form # "empty"
                               /\ Convertible(msg.param) /\ ValidValue(AsWritten))
  /\ Acceptable("ParseBody") <=>
       /\ ~(msg.length = "positive" /\ msg.content = "cut")
       /\ kind.body = "none" \/ ( /\ msg.length = "positive" /\ msg.format = "json"
                                  /\ msg.content = "good" /\ kind.body = "struct" )
  /\ Acceptable("ParseCSV") <=> msg.format = "form" /\ msg.length # "zero" /\ ValidCSV
  /\ Acceptable("ParseJSON") <=> msg.format = "form" /\ msg.length # "zero" /\ ValidJSON
  /\ Acceptable("RequireAuth") <=> msg.auth = "valid" /\ kind.secret
  /\ \A layer \in {"ParseHeaders", "WithRequestID", "WithLogging"} \cup Responders : Acceptable(layer)
BY DEF Acceptable, Responders

-------------------------------------------------------------------------------
(* Numbers *)

LEMMA Division ==
  ASSUME NEW n \in Int, NEW m \in Nat \ {0}
  PROVE  n \div m \in Int /\ n % m \in 0..m - 1 /\ n = m * (n \div m) + (n % m)
<1>1. n % m \in 0..m - 1
  OBVIOUS
<1>2. n \div m \in Int
  OBVIOUS
<1>3. n = m * (n \div m) + (n % m)
  OBVIOUS
<1> QED
  BY <1>1, <1>2, <1>3, Zenon

\* Numbers less than m apart that agree modulo m are the same.
LEMMA Residues ==
  ASSUME NEW m \in Nat \ {0}, NEW a \in Int, NEW b \in Int, NEW n \in Int,
         a - b < m, b - a < m, (a - n) % m = 0, (b - n) % m = 0
  PROVE  a = b
<1>1. PICK q \in Int : a - n = m * q
  <2> DEFINE c == a - n
  <2>1. c \in Int
    OBVIOUS
  <2>2. c % m = 0
    OBVIOUS
  <2> HIDE DEF c
  <2>3. c = m * (c \div m) + 0 /\ c \div m \in Int
    BY <2>1, <2>2, Division DEF c
  <2>4. m * (c \div m) \in Int
    BY <2>3
  <2> QED
    BY <2>3, <2>4 DEF c
<1>2. PICK r \in Int : b - n = m * r
  <2> DEFINE c == b - n
  <2>1. c \in Int
    OBVIOUS
  <2>2. c % m = 0
    OBVIOUS
  <2> HIDE DEF c
  <2>3. c = m * (c \div m) + 0 /\ c \div m \in Int
    BY <2>1, <2>2, Division DEF c
  <2>4. m * (c \div m) \in Int
    BY <2>3
  <2> QED
    BY <2>3, <2>4 DEF c
<1>3. a - b = m * (q - r)
  <2>1. m * (q - r) = m * q - m * r
    OBVIOUS
  <2> QED
    BY <1>1, <1>2, <2>1
<1>4. ASSUME NEW d \in Int, NEW p \in Nat \ {0}, d = m * p PROVE d >= m
  <2>1. m * (p - 1) \in Nat
    <3>1. ASSUME NEW x \in Nat PROVE m * x \in Nat
      OBVIOUS
    <3> QED
      BY <3>1
  <2>2. m * (p - 1) = m * p - m
    OBVIOUS
  <2> QED
    BY <1>4, <2>1, <2>2
<1>5. b - a = m * (r - q)
  <2>1. m * (r - q) = m * r - m * q
    OBVIOUS
  <2> QED
    BY <1>1, <1>2, <2>1
<1>6. CASE q = r
  BY <1>3, <1>6
<1>7. CASE q > r
  BY <1>3, <1>4, <1>7
<1>8. CASE r > q
  BY <1>4, <1>5, <1>8
<1> QED
  BY <1>6, <1>7, <1>8

\* The low bits of a number are a number of the unsigned type, and with the
\* offset one of the signed type; both agree with it modulo 2 * Half.
LEMMA LowBitsAgree ==
  ASSUME NEW n \in Int
  PROVE  /\ LowBits(n) \in 0..2 * Half - 1 /\ (LowBits(n) - n) % (2 * Half) = 0
         /\ Signed(n) \in -Half..Half - 1 /\ (Signed(n) - n) % (2 * Half) = 0
<1> DEFINE m == 2 * Half
<1>1. m \in Nat \ {0} /\ Half \in Nat \ {0}
  BY ChainAssumption
<1>2. ASSUME NEW w \in Nat \ {0}, NEW a \in Int
      PROVE  a % w \in 0..w - 1 /\ ((a % w) - a) % w = 0
  <2>1. a = w * (a \div w) + (a % w) /\ a \div w \in Int /\ a % w \in 0..w - 1
    BY Division
  <2> DEFINE d == 0 - (a \div w)
  <2>2. (a % w) - a = w * d /\ d \in Int
    BY <2>1
  <2> HIDE DEF d
  <2>3. ASSUME NEW q \in Int PROVE (w * q) % w = 0
    OBVIOUS
  <2> QED
    BY <2>1, <2>2, <2>3
<1>3. n % m \in 0..m - 1 /\ ((n % m) - n) % m = 0
  BY <1>1, <1>2
<1>4. (n + Half) % m \in 0..m - 1 /\ (((n + Half) % m) - (n + Half)) % m = 0
  <2>1. n + Half \in Int
    BY <1>1
  <2> HIDE DEF m
  <2> QED
    BY <1>1, <1>2, <2>1
<1>5. ((n + Half) % m) - Half - n = ((n + Half) % m) - (n + Half)
  BY <1>1, <1>4
<1> QED
  BY <1>1, <1>3, <1>4, <1>5 DEF LowBits, Signed

LEMMA FieldTypes ==
  /\ Absent \in Fields
  /\ \A n \in Int : Number(n) \in Fields
  /\ \A v \in Values : Present(v) \in Fields
BY DEF Absent, Number, Present, Fields, Values

\* What the field holds is what was written, as far as the type can tell.
LEMMA FieldHoldsWhatWasWritten ==
  ASSUME TypeOK, Convertible(msg.param), kind.param # "none"
  PROVE  FieldValue(msg.param) = AsWritten /\ AsWritten \in Fields
<1> DEFINE text == msg.param
           Agrees(n) == (n - text.n) % (2 * Half) = 0
<1>1. /\ text.n \in Int /\ kind \in AllKinds
      /\ text.form \in {"empty", "word", "integer", "fraction", "truth", "uuid"}
  BY InputTypes
<1>2. Half \in Nat \ {0} /\ 2 * Half \in Nat \ {0}
  BY ChainAssumption
<1>3. CASE text.form = "empty"
  BY <1>3, FieldTypes DEF FieldValue, AsWritten
<1>4. CASE text.form = "integer" /\ kind.param = "int"
  <2>1. Signed(text.n) \in InRange /\ Agrees(Signed(text.n)) /\ Signed(text.n) \in Int
    BY <1>1, <1>2, <1>4, LowBitsAgree DEF InRange
  <2>2. ASSUME NEW n \in InRange, Agrees(n) PROVE n = Signed(text.n)
    <3>1. /\ n \in -Half..Half - 1 /\ Signed(text.n) \in -Half..Half - 1
      BY <1>4, <2>1, <2>2 DEF InRange
    <3>2. n - Signed(text.n) < 2 * Half /\ Signed(text.n) - n < 2 * Half /\ n \in Int
      BY <1>2, <3>1
    <3> QED
      BY <1>1, <1>2, <2>1, <2>2, <3>2, Residues
  <2>3. Signed(text.n) = CHOOSE n \in InRange : Agrees(n)
    BY <2>1, <2>2
  <2> QED
    BY <1>4, <2>1, <2>3, FieldTypes DEF FieldValue, AsWritten
<1>5. CASE text.form = "integer" /\ kind.param = "uint"
  <2>1. LowBits(text.n) \in InRange /\ Agrees(LowBits(text.n)) /\ LowBits(text.n) \in Int
    BY <1>1, <1>2, <1>5, LowBitsAgree DEF InRange
  <2>2. ASSUME NEW n \in InRange, Agrees(n) PROVE n = LowBits(text.n)
    <3>1. /\ n \in 0..2 * Half - 1 /\ LowBits(text.n) \in 0..2 * Half - 1
      BY <1>5, <2>1, <2>2 DEF InRange
    <3>2. n - LowBits(text.n) < 2 * Half /\ LowBits(text.n) - n < 2 * Half /\ n \in Int
      BY <1>2, <3>1
    <3> QED
      BY <1>1, <1>2, <2>1, <2>2, <3>2, Residues
  <2>3. LowBits(text.n) = CHOOSE n \in InRange : Agrees(n)
    BY <2>1, <2>2
  <2> QED
    BY <1>5, <2>1, <2>3, FieldTypes DEF FieldValue, AsWritten
<1>6. CASE text.form = "integer" /\ kind.param \in {"float", "bool"}
  <2>1. InRange = {text.n} /\ Agrees(text.n)
    BY <1>1, <1>2, <1>6 DEF InRange
  <2>2. text.n = CHOOSE n \in InRange : Agrees(n)
    BY <2>1
  <2> QED
    BY <1>1, <1>6, <2>2, FieldTypes DEF FieldValue, AsWritten
<1>7. CASE text.form = "integer" /\ kind.param = "string"
  BY <1>7, FieldTypes DEF FieldValue, AsWritten, Values
<1>8. CASE text.form \notin {"empty", "integer"}
  <2>1. kind.param \notin {"int", "uint"}
    BY <1>8 DEF Convertible
  <2>2. FieldValue(text) = Present(text.form) /\ AsWritten = Present(text.form)
    BY <1>8, <2>1 DEF FieldValue, AsWritten
  <2> QED
    BY <1>1, <1>8, <2>2, FieldTypes DEF Values
<1>9. text.form = "integer" => kind.param \in {"int", "uint", "float", "bool", "string"}
  BY <1>1 DEF Convertible, AllKinds
<1> QED
  BY <1>3, <1>4, <1>5, <1>6, <1>7, <1>8, <1>9

-------------------------------------------------------------------------------
(* The layer that runs *)

LEMMA RunningFacts ==
  ASSUME Typed, dir = "in"
  PROVE  /\ Len(list) \in Nat /\ DOMAIN list = 1..Len(list)
         /\ ctx \in Seq(Contexts) /\ Len(ctx) = pos /\ pos \in 1..Len(list) + 1
         /\ Ctx = ctx[pos] /\ Ctx \in Contexts
BY InputTypes DEF Typed, TypeOK, Ctx

LEMMA PassFacts ==
  ASSUME Typed, dir = "in", pos \in DOMAIN list, NEW c \in Contexts, Pass(c)
  PROVE  /\ pos' = pos + 1 /\ dir' = "in" /\ err' = err
         /\ ctx' \in Seq(Contexts) /\ Len(ctx') = pos + 1 /\ ctx'[pos + 1] = c
         /\ \A k \in 1..Len(ctx) : ctx'[k] = ctx[k]
BY RunningFacts DEF Pass

\* The types a step has to see to itself.
Kept ==
  /\ body' \in {"whole", "drained"} /\ form' \in BOOLEAN
  /\ UNCHANGED <<input, id>>

\* What a layer adds to the context it was called with.
Adds(c) ==
  /\ c \in Contexts
  /\ c.Params = IF list[pos] = "ParseParams" /\ kind.param # "none" THEN AsWritten ELSE Ctx.Params
  /\ c.Headers = IF list[pos] = "ParseHeaders" THEN Present("headers") ELSE Ctx.Headers
  /\ c.User = IF list[pos] = "RequireAuth" THEN Present("claims") ELSE Ctx.User
  /\ c.RequestID = IF list[pos] = "WithRequestID" /\ id # "none" THEN Present(id) ELSE Ctx.RequestID
  /\ c.Body = IF list[pos] \in BodyReaders THEN Bodies[pos] ELSE Ctx.Body
  /\ c.BodyRaw = IF list[pos] = "ParseBody"
                 THEN If(msg.length = "positive", Present(IF ReadBefore(pos) THEN "nothing" ELSE "whole"))
                 ELSE Ctx.BodyRaw

\* The layers before the next are those before this and this.
LEMMA OneMore ==
  ASSUME NEW p \in Nat \ {0}
  PROVE  /\ \A layer : Passed(p + 1, layer) <=> Passed(p, layer) \/ list[p] = layer
         /\ ReadBefore(p + 1) <=> ReadBefore(p) \/ list[p] \in BodyReaders
         /\ RawRead(p + 1) <=> RawRead(p) \/ (list[p] = "ParseBody" /\ ReadBefore(p))
<1>1. \A j : j \in 1..(p + 1) - 1 <=> j \in 1..p - 1 \/ j = p
  OBVIOUS
<1> QED
  BY <1>1, Zenon DEF Passed, ReadBefore, RawRead

\* RawRead tells of a reader.
LEMMA RawReadIsRead ==
  ASSUME NEW p \in Nat \ {0}, RawRead(p)
  PROVE  ReadBefore(p) /\ Passed(p, "ParseBody")
<1>1. PICK j \in 1..p - 1 : list[j] = "ParseBody" /\ ReadBefore(j)
  BY DEF RawRead
<1> QED
  BY <1>1 DEF ReadBefore, Passed, BodyReaders

\* A context that was enriched stays so: the input and the id are as they were.
LEMMA StaysEnriched ==
  ASSUME UNCHANGED <<input, id>>, NEW k \in Nat, ctx'[k] = ctx[k], Enriched(k)
  PROVE  Enriched(k)'
<1>1. /\ list' = list /\ kind' = kind /\ msg' = msg /\ id' = id
      /\ Bodies' = Bodies /\ AsWritten' = AsWritten
  BY InputStays
<1> QED
  BY <1>1 DEF Enriched, Passed, ReadBefore, RawRead

\* And the next is enriched if its layer adds what it should.
LEMMA NextIsEnriched ==
  ASSUME Typed, Contextual, dir = "in", pos \in DOMAIN list, NEW c, Adds(c), Pass(c),
         UNCHANGED <<input, id>>, NEW p, p = pos
  PROVE  Enriched(p + 1)'
<1>1. /\ list' = list /\ kind' = kind /\ msg' = msg /\ id' = id
      /\ Bodies' = Bodies /\ AsWritten' = AsWritten
  BY InputStays
<1>2. p \in Nat \ {0} /\ p \in 1..Len(ctx) /\ Ctx = ctx[p] /\ Enriched(p)
  BY RunningFacts DEF Contextual
<1>3. ctx'[p + 1] = c
  BY PassFacts DEF Adds
<1>4. c.Params = If(Passed(p + 1, "ParseParams") /\ kind.param # "none", AsWritten)
  BY <1>2, OneMore DEF Adds, Enriched, If
<1>5. /\ c.Headers = If(Passed(p + 1, "ParseHeaders"), Present("headers"))
      /\ c.User = If(Passed(p + 1, "RequireAuth"), Present("claims"))
  BY <1>2, OneMore DEF Adds, Enriched, If
<1>6. c.RequestID = If(Passed(p + 1, "WithRequestID") /\ id # "none", Present(id))
  BY <1>2, OneMore DEF Adds, Enriched, If
<1>7. ~ReadBefore(p + 1) => c.Body = Absent
  BY <1>2, OneMore DEF Adds, Enriched
<1>8. ASSUME NEW j \in 1..(p + 1) - 1, list[j] \in BodyReaders,
             \A i \in j + 1..(p + 1) - 1 : list[i] \notin BodyReaders
      PROVE  c.Body = Bodies[j]
  <2>1. CASE j = p
    BY <1>8, <2>1 DEF Adds
  <2>2. CASE j # p
    <3>1. j \in 1..p - 1 /\ p \in j + 1..(p + 1) - 1
      BY <1>2, <2>2
    <3>2. \A i \in j + 1..p - 1 : list[i] \notin BodyReaders
      BY <1>2, <1>8, <3>1
    <3> QED
      BY <1>2, <1>8, <3>1, <3>2 DEF Adds, Enriched
  <2> QED
    BY <2>1, <2>2
<1>9. c.BodyRaw = If(Passed(p + 1, "ParseBody") /\ msg.length = "positive",
                     Present(IF RawRead(p + 1) THEN "nothing" ELSE "whole"))
  <2>1. ctx[p].BodyRaw = If(Passed(p, "ParseBody") /\ msg.length = "positive",
                            Present(IF RawRead(p) THEN "nothing" ELSE "whole"))
    BY <1>2 DEF Enriched
  <2>2. CASE list[p] = "ParseBody"
    <3>1. Passed(p + 1, "ParseBody") /\ (RawRead(p + 1) <=> ReadBefore(p))
      BY <1>2, <2>2, OneMore, RawReadIsRead
    <3>2. c.BodyRaw = If(msg.length = "positive", Present(IF ReadBefore(p) THEN "nothing" ELSE "whole"))
      BY <2>2 DEF Adds
    <3>3. CASE ReadBefore(p)
      BY <3>1, <3>2, <3>3 DEF If, Present
    <3>4. CASE ~ReadBefore(p)
      BY <3>1, <3>2, <3>4 DEF If, Present
    <3> QED
      BY <3>3, <3>4
  <2>3. CASE list[p] # "ParseBody"
    <3>1. (Passed(p + 1, "ParseBody") <=> Passed(p, "ParseBody")) /\ (RawRead(p + 1) <=> RawRead(p))
      BY <1>2, <2>3, OneMore
    <3>2. c.BodyRaw = ctx[p].BodyRaw
      BY <1>2, <2>3 DEF Adds
    <3>3. CASE RawRead(p)
      BY <2>1, <3>1, <3>2, <3>3 DEF If, Present
    <3>4. CASE ~RawRead(p)
      BY <2>1, <3>1, <3>2, <3>4 DEF If, Present
    <3> QED
      BY <3>3, <3>4
  <2> QED
    BY <2>2, <2>3
<1>10. \A j \in 1..(p + 1) - 1 :
         list'[j] \in BodyReaders /\ (\A i \in j + 1..(p + 1) - 1 : list'[i] \notin BodyReaders) =>
           ctx'[p + 1].Body = Bodies'[j]
  BY <1>1, <1>3, <1>8
<1>11. /\ \A layer : Passed(p + 1, layer)' <=> Passed(p + 1, layer)
       /\ ReadBefore(p + 1)' <=> ReadBefore(p + 1)
       /\ RawRead(p + 1)' <=> RawRead(p + 1)
  BY <1>1 DEF Passed, ReadBefore, RawRead
<1>12. /\ ctx'[p + 1].Params = If(Passed(p + 1, "ParseParams")' /\ kind'.param # "none", AsWritten')
       /\ ctx'[p + 1].Headers = If(Passed(p + 1, "ParseHeaders")', Present("headers"))
       /\ ctx'[p + 1].User = If(Passed(p + 1, "RequireAuth")', Present("claims"))
       /\ ctx'[p + 1].RequestID = If(Passed(p + 1, "WithRequestID")' /\ id' # "none", Present(id'))
       /\ ~ReadBefore(p + 1)' => ctx'[p + 1].Body = Absent
  BY <1>1, <1>3, <1>4, <1>5, <1>6, <1>7, <1>11 DEF If
<1>13. ctx'[p + 1].BodyRaw = If(Passed(p + 1, "ParseBody")' /\ msg'.length = "positive",
                               Present(IF RawRead(p + 1)' THEN "nothing" ELSE "whole"))
  <2>1. CASE RawRead(p + 1)
    BY <1>1, <1>3, <1>9, <1>11, <2>1 DEF If, Present
  <2>2. CASE ~RawRead(p + 1)
    BY <1>1, <1>3, <1>9, <1>11, <2>2 DEF If, Present
  <2> QED
    BY <2>1, <2>2
<1> QED
  BY <1>10, <1>12, <1>13 DEF Enriched, If

-------------------------------------------------------------------------------
(* What the two directions do to the invariant *)

\* The lines of a log: who asks for what in which context.
LineType == [what : {"request", "success", "error"}, id : Fields]

LEMMA NewLine ==
  ASSUME Typed, Ctx \in Contexts, NEW what \in {"request", "success", "error"}
  PROVE  Line(what) \in Seq(LineType)
<1>1. Ctx.RequestID \in Fields /\ lines \in Seq(LineType)
  BY DEF Contexts, Typed, TypeOK, LineType
<1>2. [what |-> what, id |-> Ctx.RequestID] \in LineType
  BY <1>1 DEF LineType
<1> QED
  BY <1>1, <1>2 DEF Line

LEMMA SecondLine ==
  ASSUME NEW x \in LineType, NEW y \in LineType
  PROVE  Append(<<x>>, y) = <<x, y>>
<1>1. <<x>> \in Seq(LineType) /\ Len(<<x>>) = 1
  OBVIOUS
<1>2. /\ Append(<<x>>, y) \in Seq(LineType) /\ Len(Append(<<x>>, y)) = 2
      /\ Append(<<x>>, y)[1] = x /\ Append(<<x>>, y)[2] = y
  BY <1>1
<1>3. <<x, y>> \in Seq(LineType) /\ Len(<<x, y>>) = 2
  OBVIOUS
<1>4. ASSUME NEW s \in Seq(LineType), NEW t \in Seq(LineType),
             Len(s) = 2, Len(t) = 2, s[1] = t[1], s[2] = t[2]
      PROVE  s = t
  <2>1. \A i \in 1..2 : i = 1 \/ i = 2
    OBVIOUS
  <2> QED
    BY <1>4, <2>1
<1> QED
  BY <1>2, <1>3, <1>4

LEMMA PassTypes ==
  ASSUME Typed, dir = "in", pos \in DOMAIN list, NEW c, Adds(c), Pass(c), Kept, UNCHANGED reply,
         lines' = IF list[pos] = "WithLogging" THEN Line("request") ELSE lines
  PROVE  Typed'
<1>1. list' = list /\ kind' = kind /\ msg' = msg /\ id' = id
  BY DEF Kept, input
<1>2. lines' \in Seq(LineType)
  BY RunningFacts, NewLine DEF Typed, TypeOK, LineType
<1>3. /\ pos' = pos + 1 /\ dir' = "in" /\ err' = err /\ ctx' \in Seq(Contexts) /\ Len(ctx') = pos + 1
      /\ pos \in 1..Len(list) /\ Len(list) \in Nat
  BY PassFacts, RunningFacts DEF Adds
<1> QED
  BY <1>1, <1>2, <1>3 DEF Typed, TypeOK, Kept, LineType

\* What LogStands says of other layers, and what a step leaves of the rest.
LEMMA OneLog ==
  ASSUME LogStands, NEW k \in DOMAIN list, list[k] = "WithLogging", NEW j \in DOMAIN list
  PROVE  /\ list[j] = "WithLogging" => j = k
         /\ j < k /\ list[j] \in Responders => Outside
         /\ j > k /\ list[j] \in Responders => ~Outside
BY DEF LogStands, LoggedOnce, Outside, Inside, Before

LEMMA ItsStays ==
  ASSUME UNCHANGED <<input, id>>, NEW k
  PROVE  Its(k)' = Its(k)
BY DEF input, Its, Passed, If

LEMMA VerdictStays ==
  ASSUME UNCHANGED <<input, err, reply>>
  PROVE  Verdict' = Verdict
BY InputStays DEF Verdict

LEMMA PassLines ==
  ASSUME IInv, dir = "in", pos \in DOMAIN list, NEW c, Adds(c), Pass(c), Kept,
         lines' = IF list[pos] = "WithLogging" THEN Line("request") ELSE lines
  PROVE  Lined'
<1>1. list' = list /\ LogStands' = LogStands
  BY InputStays DEF Kept
<1> SUFFICES ASSUME LogStands, NEW k \in DOMAIN list, list[k] = "WithLogging" PROVE Logged(k)'
  BY <1>1 DEF Lined
<1>2. Logged(k) /\ Its(k)' = Its(k)
  BY ItsStays DEF IInv, Lined, Kept
<1>3. /\ Len(ctx') = pos + 1 /\ dir' = "in" /\ Len(ctx) = pos /\ k \in Nat /\ pos \in Nat
      /\ Ctx = ctx[pos] /\ pos \in 1..Len(ctx)
  BY PassFacts, RunningFacts DEF IInv, Adds
<1>4. CASE pos = k
  <2>1. lines = << >> /\ Ctx.RequestID = Its(k)
    BY <1>2, <1>3, <1>4 DEF Logged, IInv, Contextual, Enriched, Its
  <2>2. lines' = << [what |-> "request", id |-> Its(k)] >>
    BY <1>4, <2>1 DEF Line
  <2> QED
    BY <1>2, <1>3, <1>4, <2>2 DEF Logged
<1>5. CASE pos # k
  <2>1. lines' = lines
    BY <1>5, OneLog
  <2> QED
    BY <1>2, <1>3, <1>5, <2>1 DEF Logged
<1> QED
  BY <1>4, <1>5

LEMMA PassKeeps ==
  ASSUME IInv, dir = "in", pos \in DOMAIN list, NEW c, Adds(c), Pass(c), Kept, UNCHANGED reply,
         lines' = IF list[pos] = "WithLogging" THEN Line("request") ELSE lines,
         pos \in Accepting, Reads'
  PROVE  IInv'
<1>1. Accepting' = Accepting /\ list' = list
  BY InputStays DEF Kept
<1>2. /\ dir' = "in" /\ Len(ctx') = pos + 1 /\ Len(ctx) = pos /\ pos \in Nat \ {0}
      /\ \A k \in 1..pos : ctx'[k] = ctx[k]
  BY PassFacts, RunningFacts DEF IInv, Adds
<1>3. Guarded'
  <2>1. \A k \in 1..(pos + 1) - 1 : k \in 1..pos - 1 \/ k = pos
    BY <1>2
  <2> QED
    BY <1>1, <1>2, <2>1 DEF IInv, Guarded
<1>4. Contextual'
  <2> SUFFICES ASSUME NEW k \in 1..pos + 1 PROVE Enriched(k)'
    BY <1>2 DEF Contextual
  <2>1. CASE k \in 1..pos
    BY <1>2, <2>1, StaysEnriched DEF IInv, Contextual, Kept
  <2>2. CASE k = pos + 1
    <3>1. PICK p : p = pos
      OBVIOUS
    <3>2. Enriched(p + 1)'
      BY <3>1, NextIsEnriched DEF IInv, Kept
    <3> QED
      BY <2>2, <3>1, <3>2
  <2> QED
    BY <1>2, <2>1, <2>2
<1>5. Answered'
  BY <1>2 DEF IInv, Answered
<1> QED
  BY <1>3, <1>4, <1>5, PassTypes, PassLines DEF IInv

LEMMA ContextsStay ==
  ASSUME IInv, UNCHANGED <<input, id, ctx>>
  PROVE  Contextual'
BY StaysEnriched, InputTypes DEF IInv, Contextual, Typed, TypeOK

LEMMA RefuseKeeps ==
  ASSUME IInv, dir = "in", pos \in DOMAIN list, NEW e \in Errors, Refuse(e), Kept,
         UNCHANGED <<lines, reply>>, OneReader => pos \notin Accepting, Reads'
  PROVE  IInv'
<1>1. /\ Accepting' = Accepting /\ list' = list /\ kind' = kind /\ msg' = msg /\ id' = id
      /\ OneReader' = OneReader /\ LogStands' = LogStands
  BY InputStays DEF Kept
<1>2. /\ dir' = "out" /\ pos' = pos - 1 /\ err' = e /\ ctx' = ctx
      /\ Len(ctx) = pos /\ pos \in 1..Len(list) /\ Len(list) \in Nat
  BY RunningFacts DEF IInv, Refuse
<1>3. Typed'
  BY <1>1, <1>2 DEF IInv, Typed, TypeOK, Kept
<1>4. Guarded'
  BY <1>1, <1>2 DEF IInv, Guarded
<1>5. Lined'
  <2> SUFFICES ASSUME LogStands, NEW k \in DOMAIN list, list[k] = "WithLogging" PROVE Logged(k)'
    BY <1>1 DEF Lined
  <2>1. Logged(k) /\ Its(k)' = Its(k)
    BY ItsStays DEF IInv, Lined, Kept
  <2>2. k \in Nat
    BY RunningFacts DEF IInv
  <2> QED
    BY <1>2, <2>1, <2>2 DEF Logged
<1>6. Answered'
  BY <1>2 DEF IInv, Answered
<1> QED
  BY <1>2, <1>3, <1>4, <1>5, <1>6, ContextsStay DEF IInv, Kept

\* On the way back a layer may write its line, and only a responder answers,
\* if there is no error, and touches the error.
LEMMA LeaveKeeps ==
  ASSUME IInv, dir = "out", pos \in DOMAIN list, Leave, err' \in Errors,
         reply' \in {"none", "data", "header", "error"},
         lines' = IF list[pos] = "WithLogging"
                  THEN Line(IF err = NoError THEN "success" ELSE "error") ELSE lines,
         \/ list[pos] \in Responders /\ err = NoError /\ (err' = NoError \/ reply' = "header")
         \/ UNCHANGED <<err, reply>>
  PROVE  IInv'
<1>1. /\ UNCHANGED <<input, id, dir, ctx, request>> /\ pos' = pos - 1
      /\ Accepting' = Accepting /\ list' = list /\ kind' = kind /\ msg' = msg
      /\ OneReader' = OneReader /\ LogStands' = LogStands /\ Outside' = Outside
  BY InputStays DEF Leave
<1>2. /\ DOMAIN list = 1..Len(list) /\ Len(list) \in Nat /\ pos \in 1..Len(list) /\ pos < Len(ctx)
      /\ ctx \in Seq(Contexts) /\ pos \in 1..Len(ctx) /\ Ctx = ctx[pos] /\ Ctx \in Contexts
      /\ Len(ctx) \in Nat
  BY InputTypes DEF IInv, Typed, TypeOK, Ctx
<1>3. Typed'
  <2>1. lines' \in Seq(LineType)
    BY <1>2, NewLine DEF IInv, Typed, TypeOK, LineType
  <2> QED
    BY <1>1, <1>2, <2>1 DEF IInv, Typed, TypeOK, LineType, request
<1>4. Guarded'
  BY <1>1 DEF IInv, Guarded
<1>5. Reads'
  BY <1>1 DEF IInv, Reads, request
<1>6. Lined'
  <2> SUFFICES ASSUME LogStands, NEW k \in DOMAIN list, list[k] = "WithLogging" PROVE Logged(k)'
    BY <1>1 DEF Lined
  <2>1. Logged(k) /\ Its(k)' = Its(k) /\ k \in Nat
    BY <1>1, <1>2, ItsStays DEF IInv, Lined
  <2>2. CASE pos = k
    <3>1. /\ lines = << [what |-> "request", id |-> Its(k)] >>
          /\ Ctx.RequestID = Its(k) /\ UNCHANGED <<err, reply>>
      BY <1>2, <2>1, <2>2 DEF Logged, IInv, Contextual, Enriched, Its, Responders
    <3>2. Verdict' = IF err = NoError THEN "success" ELSE "error"
      <4>1. Verdict' = Verdict
        BY <1>1, <3>1, VerdictStays
      <4>2. reply # "none" => ~Outside
        <5>1. reply # "none" => \E j \in DOMAIN list : j > k /\ list[j] \in Responders
          BY <2>2 DEF IInv, Answered
        <5> QED
          BY <5>1, OneLog
      <4> QED
        BY <4>1, <4>2 DEF Verdict
    <3> DEFINE x == [what |-> "request", id |-> Its(k)]
               y == [what |-> Verdict', id |-> Its(k)]
    <3>3. lines' = << x, y >>
      <4>1. Its(k) \in Fields
        BY <1>2, <3>1 DEF Contexts
      <4>2. lines' = Append(lines, y)
        BY <2>2, <3>1, <3>2 DEF Line
      <4>3. x \in LineType /\ y \in LineType
        BY <3>2, <4>1 DEF LineType
      <4> HIDE DEF x, y
      <4> QED
        BY <3>1, <4>2, <4>3, SecondLine DEF x
    <3> QED
      BY <1>1, <1>2, <2>1, <2>2, <3>3 DEF Logged
  <2>3. CASE pos < k
    <3>1. lines' = lines
      BY <2>3, <1>2, OneLog
    <3>2. Verdict' = Verdict
      <4>1. CASE UNCHANGED <<err, reply>>
        BY <1>1, <4>1, VerdictStays
      <4>2. CASE list[pos] \in Responders /\ err = NoError /\ (err' = NoError \/ reply' = "header")
        <5>1. Outside
          BY <2>3, <4>2, OneLog
        <5> QED
          BY <1>1, <4>2, <5>1 DEF Verdict
      <4> QED
        BY <4>1, <4>2
    <3> QED
      BY <1>1, <1>2, <2>1, <2>3, <3>1, <3>2 DEF Logged
  <2>4. CASE pos > k
    <3>1. lines' = lines
      BY <2>4, <1>2, OneLog
    <3> QED
      BY <1>1, <1>2, <2>1, <2>4, <3>1 DEF Logged
  <2> QED
    BY <1>2, <2>1, <2>2, <2>3, <2>4
<1>7. Answered'
  <2>1. CASE reply' = "none"
    BY <1>1, <2>1 DEF Answered
  <2>2. CASE reply' # "none" /\ list[pos] \in Responders
    BY <1>1, <1>2, <2>2 DEF Answered
  <2>3. CASE reply' # "none" /\ reply' = reply
    <3>1. PICK j \in DOMAIN list : j > pos /\ list[j] \in Responders
      BY <2>3 DEF IInv, Answered
    <3> QED
      BY <1>1, <1>2, <3>1 DEF Answered
  <2> QED
    BY <2>1, <2>2, <2>3
<1> QED
  BY <1>1, <1>3, <1>4, <1>5, <1>6, <1>7, ContextsStay DEF IInv

-------------------------------------------------------------------------------
(* The body *)

\* What the layer that runs does to the body, and when it may pass.
Consumes ==
  \/ list[pos] \notin BodyReaders /\ UNCHANGED request
  \/ list[pos] = "ParseBody" /\ body' = (IF msg.length = "positive" THEN "drained" ELSE body) /\ UNCHANGED form
  \/ list[pos] \in Uploads /\ form' = FormParses /\ body' = (IF msg.format = "form" THEN "drained" ELSE body)
Readable ==
  /\ list[pos] = "ParseBody" => ~ReadFails
  /\ list[pos] \in Uploads => FormParses

\* A body that is drained was drained by a layer whose predecessors accept.
LEMMA DrainedByAccepted ==
  ASSUME IInv, dir = "in", pos \in DOMAIN list, Consumes, Kept
  PROVE  body' = "drained" /\ msg.length # "zero" =>
           \E k \in DOMAIN list : list[k] \in BodyReaders /\ 1..k - 1 \subseteq Accepting
<1>1. 1..pos - 1 \subseteq Accepting
  BY RunningFacts DEF IInv, Guarded
<1>2. CASE list[pos] \in BodyReaders
  BY <1>1, <1>2
<1>3. CASE list[pos] \notin BodyReaders
  BY <1>3 DEF IInv, Reads, Consumes, request, BodyReaders
<1> QED
  BY <1>2, <1>3

LEMMA ReadsOnRefusal ==
  ASSUME IInv, dir = "in", pos \in DOMAIN list, Consumes, Kept, dir' = "out"
  PROVE  Reads'
<1>1. /\ Accepting' = Accepting /\ list' = list /\ msg' = msg
  BY InputStays DEF Kept
<1>2. body' = "whole" => msg.length # "zero"
  BY DEF IInv, Reads, Consumes, request
<1>3. form' => msg.format = "form" /\ msg.content # "cut" /\ msg.length # "zero"
  BY DEF IInv, Reads, Consumes, request, FormParses
<1> QED
  BY <1>1, <1>2, <1>3, DrainedByAccepted DEF Reads

LEMMA ReadsOnPass ==
  ASSUME IInv, dir = "in", pos \in DOMAIN list, Consumes, Readable, Kept,
         dir' = "in", pos' = pos + 1
  PROVE  Reads'
<1>1. /\ Accepting' = Accepting /\ list' = list /\ msg' = msg
  BY InputStays DEF Kept
<1>2. body' = "whole" => msg.length # "zero"
  BY DEF IInv, Reads, Consumes, request
<1>3. form' => msg.format = "form" /\ msg.content # "cut" /\ msg.length # "zero"
  BY DEF IInv, Reads, Consumes, request, FormParses
<1>4. body' = "drained" /\ msg.length # "zero" => msg.content # "cut"
  <2>1. CASE list[pos] = "ParseBody"
    BY <2>1 DEF IInv, Reads, Consumes, Readable, ReadFails, BodyReaders, Uploads, Typed, TypeOK
  <2>2. CASE list[pos] \in Uploads
    BY <2>2 DEF IInv, Reads, Consumes, Readable, FormParses, BodyReaders, Uploads
  <2>3. CASE list[pos] \notin BodyReaders
    BY <2>3 DEF IInv, Reads, Consumes, BodyReaders, request
  <2> QED
    BY <2>1, <2>2, <2>3 DEF BodyReaders
<1>5. ReadBefore(pos)' <=> ReadBefore(pos) \/ list[pos] \in BodyReaders
  <2>1. PICK p : p = pos
    OBVIOUS
  <2>2. pos' = p + 1 /\ p \in Nat \ {0}
    BY <2>1, RunningFacts DEF IInv
  <2>3. ReadBefore(pos)' <=> ReadBefore(p + 1)
    BY <1>1, <2>2 DEF ReadBefore
  <2> QED
    BY <2>1, <2>2, <2>3, OneMore
<1>6. (ReadBefore(pos) \/ list[pos] \in BodyReaders) /\ msg.length = "positive" => body' = "drained"
  <2>1. CASE list[pos] \in Uploads
    <3>1. msg.format = "form"
      BY <2>1 DEF IInv, Reads, Readable, FormParses
    <3> QED
      BY <2>1, <3>1 DEF Consumes, BodyReaders, Uploads
  <2>2. CASE list[pos] \notin Uploads
    BY <2>2 DEF IInv, Reads, Consumes, BodyReaders, request
  <2> QED
    BY <2>1, <2>2
<1>7. ~ReadBefore(pos) /\ list[pos] \notin BodyReaders =>
        ~form' /\ (msg.length # "zero" => body' = "whole")
  BY DEF IInv, Reads, Consumes, BodyReaders, request
<1> QED
  BY <1>1, <1>2, <1>3, <1>4, <1>5, <1>6, <1>7, DrainedByAccepted DEF Reads

\* Where one layer reads the body, it finds it as it was sent.
LEMMA FirstToRead ==
  ASSUME IInv, dir = "in", pos \in DOMAIN list, list[pos] \in BodyReaders, OneReader
  PROVE  ~form /\ (msg.length # "zero" => body = "whole")
<1>1. ~ReadBefore(pos)
  <2> SUFFICES ASSUME NEW j \in 1..pos - 1, list[j] \in BodyReaders PROVE FALSE
    BY DEF ReadBefore
  <2>1. j \in DOMAIN list /\ j # pos
    BY RunningFacts DEF IInv
  <2> QED
    BY <2>1 DEF OneReader, Reading
<1> QED
  BY <1>1 DEF IInv, Reads

-------------------------------------------------------------------------------
(* Layers that leave the body alone *)

LEMMA InwardsFacts ==
  ASSUME IInv, NEW layer, Inwards(layer)
  PROVE  /\ dir = "in" /\ pos \in DOMAIN list /\ list[pos] = layer
         /\ Ctx \in Contexts /\ Enriched(pos) /\ Ctx = ctx[pos] /\ pos \in Nat \ {0}
<1>1. dir = "in" /\ pos <= Len(list) /\ list[pos] = layer
  BY DEF Inwards, Layer
<1> QED
  BY <1>1, RunningFacts DEF IInv, Contextual

LEMMA APIErrors == APIError(400) \in Errors /\ APIError(401) \in Errors /\ APIError(403) \in Errors /\ APIError(500) \in Errors
BY DEF APIError, Errors, ErrorKinds

LEMMA ContextFields ==
  ASSUME NEW x \in Contexts
  PROVE  /\ x.Params \in Fields /\ x.Body \in Fields /\ x.BodyRaw \in Fields
         /\ x.Headers \in Fields /\ x.RequestID \in Fields /\ x.User \in Fields
BY DEF Contexts

\* The context with a field replaced, field by field.
LEMMA Replaced ==
  ASSUME NEW x \in Contexts, NEW f \in Fields
  PROVE  /\ [x EXCEPT !.Params = f] \in Contexts /\ [x EXCEPT !.Headers = f] \in Contexts
         /\ [x EXCEPT !.Body = f] \in Contexts /\ [x EXCEPT !.BodyRaw = f] \in Contexts
         /\ [x EXCEPT !.RequestID = f] \in Contexts /\ [x EXCEPT !.User = f] \in Contexts
BY DEF Contexts

LEMMA PlainPass ==
  ASSUME IInv, NEW layer, layer \notin BodyReaders, Inwards(layer), NEW c, Adds(c), Pass(c),
         UNCHANGED <<input, id, request, reply>>,
         lines' = IF layer = "WithLogging" THEN Line("request") ELSE lines, pos \in Accepting
  PROVE  IInv'
<1>1. dir = "in" /\ pos \in DOMAIN list /\ list[pos] = layer
  BY InwardsFacts
<1>2. Kept
  BY DEF IInv, Typed, TypeOK, Kept, request
<1>3. dir' = "in" /\ pos' = pos + 1
  BY <1>1 DEF Pass
<1>4. Reads'
  BY <1>1, <1>2, <1>3, ReadsOnPass DEF Consumes, Readable, BodyReaders, Uploads
<1> QED
  BY <1>1, <1>2, <1>4, PassKeeps

LEMMA PlainRefusal ==
  ASSUME IInv, NEW layer, layer \notin BodyReaders, Inwards(layer), NEW e \in Errors, Refuse(e),
         UNCHANGED <<input, id, request, lines, reply>>, pos \notin Accepting
  PROVE  IInv'
<1>1. dir = "in" /\ pos \in DOMAIN list /\ list[pos] = layer
  BY InwardsFacts
<1>2. Kept
  BY DEF IInv, Typed, TypeOK, Kept, request
<1>3. Reads'
  BY <1>1, <1>2, ReadsOnRefusal DEF Consumes, Refuse
<1> QED
  BY <1>1, <1>2, <1>3, RefuseKeeps

LEMMA ParamsKeep == IInv /\ ParseParams => IInv'
<1> SUFFICES ASSUME IInv, ParseParams PROVE IInv'
  OBVIOUS
<1>1. /\ Inwards("ParseParams") /\ UNCHANGED <<input, id, request, lines, reply>>
      /\ list[pos] = "ParseParams" /\ pos \in DOMAIN list /\ Ctx \in Contexts /\ Enriched(pos) /\ Ctx = ctx[pos]
  BY InwardsFacts DEF ParseParams
<1>2. pos \in Accepting <=> (kind.param # "none" => /\ IsRequired => msg.param.form # "empty"
                                                    /\ Convertible(msg.param) /\ ValidValue(AsWritten))
  BY <1>1, AcceptableIs DEF Accepting
<1>3. Convertible(msg.param) /\ kind.param # "none" =>
        FieldValue(msg.param) = AsWritten /\ AsWritten \in Fields
  BY FieldHoldsWhatWasWritten DEF IInv, Typed
<1>4. "ParseParams" \notin BodyReaders
  BY DEF BodyReaders, Uploads
<1>5. CASE kind.param = "none"
  <2> DEFINE c == [Ctx EXCEPT !.Params = Absent]
  <2>1. Pass(c)
    BY <1>5 DEF ParseParams
  <2>2. Ctx.Params = Absent
    BY <1>1, <1>5 DEF Enriched, If
  <2>3. Adds(c)
    BY <1>1, <1>4, <1>5, <2>2, FieldTypes, Replaced DEF Adds, Contexts
  <2> HIDE DEF c
  <2> QED
    BY <1>1, <1>2, <1>4, <1>5, <2>1, <2>3, PlainPass
<1>6. CASE kind.param # "none" /\ ValidParam(msg.param)
  <2> DEFINE c == [Ctx EXCEPT !.Params = FieldValue(msg.param)]
  <2>1. Pass(c)
    BY <1>6 DEF ParseParams
  <2>2. FieldValue(msg.param) = AsWritten /\ AsWritten \in Fields /\ pos \in Accepting
    BY <1>2, <1>3, <1>6 DEF ValidParam
  <2>3. Adds(c)
    BY <1>1, <1>4, <1>6, <2>2, Replaced DEF Adds, Contexts
  <2> HIDE DEF c
  <2> QED
    BY <1>1, <1>4, <2>1, <2>2, <2>3, PlainPass
<1>7. CASE kind.param # "none" /\ ~ValidParam(msg.param)
  <2>1. Refuse(APIError(400)) /\ pos \notin Accepting
    BY <1>2, <1>3, <1>7 DEF ParseParams, ValidParam
  <2> QED
    BY <1>1, <1>4, <2>1, APIErrors, PlainRefusal
<1> QED
  BY <1>5, <1>6, <1>7

\* Layers that add nothing a property speaks of.
LEMMA NeutralPass ==
  ASSUME IInv, NEW layer \in {"ParseHeaders", "WithLogging"} \cup Responders, Inwards(layer),
         NEW c \in Contexts, Pass(c), UNCHANGED <<input, id, request, reply>>,
         c = IF layer = "ParseHeaders" THEN [Ctx EXCEPT !.Headers = Present("headers")] ELSE Ctx,
         lines' = IF layer = "WithLogging" THEN Line("request") ELSE lines
  PROVE  IInv'
<1>1. /\ list[pos] = layer /\ pos \in DOMAIN list /\ Ctx \in Contexts
  BY InwardsFacts
<1>2. layer \notin BodyReaders /\ layer \notin {"ParseParams", "RequireAuth", "WithRequestID"}
  BY DEF BodyReaders, Uploads, Responders
<1>3. pos \in Accepting
  BY <1>1, AcceptableIs DEF Accepting
<1>4. /\ c.Params = Ctx.Params /\ c.User = Ctx.User /\ c.RequestID = Ctx.RequestID
      /\ c.Body = Ctx.Body /\ c.BodyRaw = Ctx.BodyRaw
      /\ c.Headers = IF layer = "ParseHeaders" THEN Present("headers") ELSE Ctx.Headers
  BY <1>1 DEF Contexts
<1>5. Adds(c)
  BY <1>1, <1>2, <1>4 DEF Adds, BodyReaders
<1> QED
  BY <1>2, <1>3, <1>5, PlainPass

LEMMA NeutralKeep == IInv /\ (ParseHeaders \/ WithLogging \/ ResponseJSON) => IInv'
<1> SUFFICES ASSUME IInv, ParseHeaders \/ WithLogging \/ ResponseJSON PROVE IInv'
  OBVIOUS
<1>1. CASE ParseHeaders
  <2> DEFINE c == [Ctx EXCEPT !.Headers = Present("headers")]
  <2>1. Inwards("ParseHeaders") /\ Pass(c) /\ UNCHANGED <<input, id, request, lines, reply>>
    BY <1>1 DEF ParseHeaders
  <2>2. c \in Contexts
    BY <2>1, InwardsFacts, FieldTypes, Replaced DEF Values
  <2> HIDE DEF c
  <2>3. c = [Ctx EXCEPT !.Headers = Present("headers")]
    BY DEF c
  <2> QED
    BY <2>1, <2>2, <2>3, NeutralPass
<1>2. CASE WithLogging
  <2>1. /\ Inwards("WithLogging") /\ Pass(Ctx) /\ UNCHANGED <<input, id, request, reply>>
        /\ lines' = Line("request")
    BY <1>2 DEF WithLogging
  <2> QED
    BY <2>1, InwardsFacts, NeutralPass
<1>3. CASE ResponseJSON
  <2>1. PICK layer \in Responders : Inwards(layer)
    BY <1>3 DEF ResponseJSON
  <2>2. /\ Pass(Ctx) /\ UNCHANGED <<input, id, request, lines, reply>>
        /\ layer # "WithLogging" /\ layer # "ParseHeaders"
    BY <1>3 DEF ResponseJSON, Responders
  <2> QED
    BY <2>1, <2>2, InwardsFacts, NeutralPass
<1> QED
  BY <1>1, <1>2, <1>3

LEMMA AuthKeeps == IInv /\ RequireAuth => IInv'
<1> SUFFICES ASSUME IInv, RequireAuth PROVE IInv'
  OBVIOUS
<1>1. /\ Inwards("RequireAuth") /\ UNCHANGED <<input, id, request, lines, reply>>
      /\ list[pos] = "RequireAuth" /\ pos \in DOMAIN list /\ Ctx \in Contexts
  BY InwardsFacts DEF RequireAuth
<1>2. "RequireAuth" \notin BodyReaders
  BY DEF BodyReaders, Uploads
<1>3. pos \in Accepting <=> AuthError = NoError
  <2>1. msg.auth \in {"missing", "malformed", "invalid", "unknown", "failing", "valid"}
    BY InputTypes DEF IInv, Typed, AllMessages
  <2>2. pos \in Accepting <=> msg.auth = "valid" /\ kind.secret
    BY <1>1, AcceptableIs DEF Accepting
  <2> QED
    BY <2>1, <2>2 DEF AuthError, TokenHolds, APIError, NoError
<1>4. AuthError \in Errors
  BY APIErrors DEF AuthError, NoError, Errors, ErrorKinds
<1>5. CASE AuthError # NoError
  BY <1>1, <1>2, <1>3, <1>4, <1>5, PlainRefusal DEF RequireAuth
<1>6. CASE AuthError = NoError
  <2> DEFINE c == [Ctx EXCEPT !.User = Present("claims")]
  <2>1. Pass(c)
    BY <1>6 DEF RequireAuth
  <2>2. Adds(c)
    BY <1>1, <1>2, FieldTypes, Replaced DEF Adds, Contexts, Values
  <2> HIDE DEF c
  <2> QED
    BY <1>1, <1>2, <1>3, <1>6, <2>1, <2>2, PlainPass
<1> QED
  BY <1>5, <1>6

LEMMA RequestIDKeeps == IInv /\ WithRequestID => IInv'
<1> SUFFICES ASSUME IInv, WithRequestID PROVE IInv'
  OBVIOUS
<1> DEFINE c == IF id = "none" THEN Ctx ELSE [Ctx EXCEPT !.RequestID = Present(id)]
<1>1. /\ Inwards("WithRequestID") /\ Pass(c) /\ UNCHANGED <<input, id, request, lines, reply>>
      /\ list[pos] = "WithRequestID" /\ pos \in DOMAIN list /\ Ctx \in Contexts
  BY InwardsFacts DEF WithRequestID
<1>2. "WithRequestID" \notin BodyReaders
  BY DEF BodyReaders, Uploads
<1>3. pos \in Accepting
  BY <1>1, AcceptableIs DEF Accepting
<1>4. id \in {"none", "sent", "minted"}
  BY DEF IInv, Typed, TypeOK
<1>5. Adds(c)
  <2>1. CASE id = "none"
    BY <1>1, <1>2, <2>1 DEF Adds
  <2>2. CASE id # "none"
    <3>1. Present(id) \in Fields
      BY <1>4, <2>2, FieldTypes DEF Values
    <3> QED
      BY <1>1, <1>2, <2>2, <3>1, Replaced DEF Adds, Contexts
  <2> QED
    BY <2>1, <2>2
<1> HIDE DEF c
<1> QED
  BY <1>1, <1>2, <1>3, <1>5, PlainPass

-------------------------------------------------------------------------------
(* Layers that read the body *)

LEMMA ReaderPass ==
  ASSUME IInv, NEW layer \in BodyReaders, Inwards(layer), NEW c, Adds(c), Pass(c), Consumes, Readable,
         UNCHANGED <<input, id, lines, reply>>, pos \in Accepting,
         body' \in {"whole", "drained"}, form' \in BOOLEAN
  PROVE  IInv'
<1>1. dir = "in" /\ pos \in DOMAIN list /\ list[pos] = layer /\ layer # "WithLogging"
  BY InwardsFacts DEF BodyReaders, Uploads
<1>2. Kept /\ dir' = "in" /\ pos' = pos + 1
  BY <1>1 DEF Kept, Pass
<1>3. Reads'
  BY <1>1, <1>2, ReadsOnPass
<1> QED
  BY <1>1, <1>2, <1>3, PassKeeps

LEMMA ReaderRefusal ==
  ASSUME IInv, NEW layer \in BodyReaders, Inwards(layer), NEW e \in Errors, Refuse(e), Consumes,
         UNCHANGED <<input, id, lines, reply>>, OneReader => pos \notin Accepting,
         body' \in {"whole", "drained"}, form' \in BOOLEAN
  PROVE  IInv'
<1>1. dir = "in" /\ pos \in DOMAIN list /\ list[pos] = layer
  BY InwardsFacts
<1>2. Kept /\ dir' = "out"
  BY DEF Kept, Refuse
<1>3. Reads'
  BY <1>1, <1>2, ReadsOnRefusal
<1> QED
  BY <1>1, <1>2, <1>3, RefuseKeeps

LEMMA BodyKeeps == IInv /\ ParseBody => IInv'
<1> SUFFICES ASSUME IInv, ParseBody PROVE IInv'
  OBVIOUS
<1> DEFINE b == [Ctx EXCEPT !.BodyRaw = Raw]
<1>1. /\ Inwards("ParseBody") /\ UNCHANGED <<input, id, form, lines, reply>>
      /\ body' = IF msg.length = "positive" THEN "drained" ELSE body
      /\ dir = "in" /\ list[pos] = "ParseBody" /\ pos \in DOMAIN list /\ Ctx \in Contexts
  BY InwardsFacts DEF ParseBody
<1>2. "ParseBody" \in BodyReaders /\ "ParseBody" \notin Uploads
  BY DEF BodyReaders, Uploads
<1>3. Consumes /\ body \in {"whole", "drained"} /\ body' \in {"whole", "drained"} /\ form' \in BOOLEAN
  BY <1>1 DEF Consumes, IInv, Typed, TypeOK
<1>4. pos \in Accepting <=>
        /\ ~(msg.length = "positive" /\ msg.content = "cut")
        /\ kind.body = "none" \/ ( /\ msg.length = "positive" /\ msg.format = "json"
                                   /\ msg.content = "good" /\ kind.body = "struct" )
  BY <1>1, AcceptableIs DEF Accepting
<1>5. msg.length = "positive" => (body = "whole" <=> ~ReadBefore(pos))
  BY <1>1, <1>3 DEF IInv, Reads
<1>6. Raw = If(msg.length = "positive", Present(IF ReadBefore(pos) THEN "nothing" ELSE "whole"))
  <2>1. CASE ReadBefore(pos)
    BY <1>5, <2>1 DEF Raw, If
  <2>2. CASE ~ReadBefore(pos)
    BY <1>5, <2>2 DEF Raw, If
  <2> QED
    BY <2>1, <2>2
<1>7. Raw \in Fields /\ b \in Contexts
  <2>1. Raw \in Fields
    BY FieldTypes DEF Raw, Values
  <2> QED
    BY <1>1, <2>1, Replaced
<1>8. Bodies[pos] = If(kind.body # "none", Present("body"))
  BY <1>1 DEF Bodies, BodyOf
<1>9. Raw = Present("whole") <=> msg.length = "positive" /\ body = "whole"
  BY <1>3 DEF Raw, Present, Absent
<1>10. ASSUME NEW f \in Fields, f = Bodies[pos] PROVE Adds([b EXCEPT !.Body = f])
  <2>1. [b EXCEPT !.Body = f] \in Contexts
    BY <1>7, Replaced
  <2> QED
    BY <1>1, <1>2, <1>6, <1>10, <2>1 DEF Adds, Contexts
<1>11. CASE ReadFails
  <2>1. Refuse(APIError(400)) /\ pos \notin Accepting
    BY <1>4, <1>9, <1>11 DEF ParseBody, ReadFails, ValidBody
  <2> QED
    BY <1>1, <1>2, <1>3, <2>1, APIErrors, ReaderRefusal
<1>12. CASE ~ReadFails /\ kind.body = "none"
  <2> DEFINE c == [b EXCEPT !.Body = Absent]
  <2>1. Pass(c)
    BY <1>12 DEF ParseBody, ValidBody
  <2>2. Adds(c)
    BY <1>8, <1>10, <1>12, FieldTypes DEF If
  <2>3. pos \in Accepting
    BY <1>1, <1>3, <1>4, <1>12 DEF ReadFails, IInv, Reads
  <2> HIDE DEF c
  <2> QED
    BY <1>1, <1>2, <1>3, <1>12, <2>1, <2>2, <2>3, ReaderPass DEF Readable
<1>13. CASE ValidBody
  <2> DEFINE c == [b EXCEPT !.Body = Present("body")]
  <2>1. Pass(c) /\ pos \in Accepting /\ ~ReadFails
    BY <1>4, <1>9, <1>13 DEF ParseBody, ValidBody, ReadFails
  <2>2. Adds(c)
    BY <1>8, <1>10, <1>13, FieldTypes DEF If, ValidBody, Values
  <2> HIDE DEF c
  <2> QED
    BY <1>1, <1>2, <1>3, <2>1, <2>2, ReaderPass DEF Readable
<1>14. CASE ~ReadFails /\ kind.body # "none" /\ ~ValidBody
  <2>1. Refuse(APIError(400))
    BY <1>14 DEF ParseBody
  <2>2. OneReader => pos \notin Accepting
    BY <1>1, <1>2, <1>4, <1>9, <1>14, FirstToRead DEF ValidBody
  <2> QED
    BY <1>1, <1>2, <1>3, <2>1, <2>2, APIErrors, ReaderRefusal
<1> QED
  BY <1>11, <1>12, <1>13, <1>14

LEMMA UploadKeeps ==
  ASSUME IInv, NEW layer \in Uploads, NEW valid \in BOOLEAN, NEW value,
         ParseUpload(layer, valid, value), Present(value) \in Fields, Present(value) = BodyOf(layer),
         Acceptable(layer) <=> msg.format = "form" /\ msg.length # "zero" /\ valid,
         valid => msg.content # "cut"
  PROVE  IInv'
<1>1. /\ Inwards(layer) /\ UNCHANGED <<input, id, lines, reply>>
      /\ form' = FormParses /\ body' = IF msg.format = "form" THEN "drained" ELSE body
      /\ dir = "in" /\ list[pos] = layer /\ pos \in DOMAIN list /\ Ctx \in Contexts
  BY InwardsFacts DEF ParseUpload
<1>2. layer \in BodyReaders /\ layer \notin {"ParseParams", "ParseHeaders", "RequireAuth", "WithRequestID", "ParseBody"}
  BY DEF BodyReaders, Uploads
<1>3. Consumes
  BY <1>1 DEF Consumes
<1>4. body' \in {"whole", "drained"}
  BY <1>1 DEF IInv, Typed, TypeOK
<1>5. form' \in BOOLEAN
  BY <1>1, Zenon DEF FormParses, IInv, Typed, TypeOK
<1>6. pos \in Accepting <=> msg.format = "form" /\ msg.length # "zero" /\ valid
  BY <1>1 DEF Accepting
<1>7. CASE FormParses /\ valid
  <2> DEFINE c == [Ctx EXCEPT !.Body = Present(value)]
  <2>1. Pass(c)
    BY <1>7 DEF ParseUpload
  <2>2. Bodies[pos] = Present(value)
    BY <1>1 DEF Bodies
  <2>3. Adds(c)
    BY <1>1, <1>2, <2>2, Replaced DEF Adds, Contexts
  <2>4. pos \in Accepting
    BY <1>6, <1>7 DEF FormParses, IInv, Reads
  <2>5. Readable
    BY <1>1, <1>2, <1>7 DEF Readable
  <2> HIDE DEF c
  <2> QED
    BY <1>1, <1>2, <1>3, <1>4, <1>5, <2>1, <2>3, <2>4, <2>5, ReaderPass
<1>8. CASE ~(FormParses /\ valid)
  <2>1. Refuse(APIError(400))
    BY <1>8 DEF ParseUpload
  <2>2. OneReader => pos \notin Accepting
    BY <1>1, <1>2, <1>6, <1>8, FirstToRead DEF FormParses
  <2> QED
    BY <1>1, <1>2, <1>3, <1>4, <1>5, <2>1, <2>2, APIErrors, ReaderRefusal
<1> QED
  BY <1>7, <1>8

LEMMA UploadsKeep == IInv /\ (ParseCSV \/ ParseJSON) => IInv'
<1> SUFFICES ASSUME IInv, ParseCSV \/ ParseJSON PROVE IInv'
  OBVIOUS
<1>1. ValidCSV \in BOOLEAN /\ ValidJSON \in BOOLEAN
  BY Zenon DEF ValidCSV, ValidJSON
<1>2. (ValidCSV => msg.content # "cut") /\ (ValidJSON => msg.content # "cut")
  BY DEF ValidCSV, ValidJSON
<1>3. CASE ParseCSV
  <2>1. Present("rows") \in Fields /\ Present("rows") = BodyOf("ParseCSV") /\ "ParseCSV" \in Uploads
    BY FieldTypes DEF Values, BodyOf, Uploads
  <2> QED
    BY <1>1, <1>2, <1>3, <2>1, AcceptableIs, UploadKeeps DEF ParseCSV
<1>4. CASE ParseJSON
  <2>1. Present("file") \in Fields /\ Present("file") = BodyOf("ParseJSON") /\ "ParseJSON" \in Uploads
    BY FieldTypes DEF Values, BodyOf, Uploads
  <2> QED
    BY <1>1, <1>2, <1>4, <2>1, AcceptableIs, UploadKeeps DEF ParseJSON
<1> QED
  BY <1>3, <1>4

-------------------------------------------------------------------------------
(* The adapter, the handler and the way back *)

LEMMA InitIsRight == Init => IInv
<1> SUFFICES ASSUME Init PROVE IInv
  OBVIOUS
<1>1. /\ list \in Lists /\ kind \in Kinds /\ msg \in Messages
      /\ id = "none" /\ dir = "http" /\ pos = 1 /\ ctx = << >> /\ form = FALSE
      /\ body = IF msg.length = "zero" THEN "drained" ELSE "whole"
      /\ err = NoError /\ lines = << >> /\ reply = "none"
  BY DEF Init
<1>2. list \in Seq(Middleware) /\ Len(list) \in Nat
  BY <1>1, ChainAssumption
<1>3. NoError \in Errors
  BY DEF NoError, Errors, ErrorKinds
<1>4. Len(ctx) = 0 /\ ctx \in Seq(Contexts)
  BY <1>1
<1>5. Typed
  <2>1. body \in {"whole", "drained"} /\ lines \in Seq(LineType) /\ pos \in 0..Len(list) + 1
    BY <1>1, <1>2
  <2> QED
    BY <1>1, <1>2, <1>3, <1>4, <2>1 DEF Typed, TypeOK, LineType
<1>6. Guarded /\ Contextual
  BY <1>1, <1>4 DEF Guarded, Contextual
<1>7. Reads
  BY <1>1 DEF Reads, ReadBefore
<1>8. Lined /\ Answered
  BY <1>1, <1>2, <1>4 DEF Lined, Logged, Answered
<1> QED
  BY <1>5, <1>6, <1>7, <1>8 DEF IInv

LEMMA HttpKeeps == IInv /\ HttpRequestID => IInv'
<1> SUFFICES ASSUME IInv, HttpRequestID PROVE IInv'
  OBVIOUS
<1>1. /\ dir = "http" /\ UNCHANGED <<input, dir, pos, ctx, request, err, lines, reply>>
      /\ id' = IF msg.id = "none" THEN "minted" ELSE msg.id
  BY DEF HttpRequestID
<1>2. /\ Accepting' = Accepting /\ list' = list /\ kind' = kind /\ msg' = msg /\ LogStands' = LogStands
  BY <1>1, InputStays
<1>3. id' \in {"none", "sent", "minted"}
  BY <1>1, InputTypes DEF IInv, Typed, AllMessages
<1>4. Len(ctx) = 0 /\ ctx' = ctx
  BY <1>1 DEF IInv, Typed
<1>5. Typed'
  BY <1>1, <1>2, <1>3 DEF IInv, Typed, TypeOK, request
<1>6. Guarded' /\ Contextual'
  BY <1>1, <1>2, <1>4 DEF IInv, Guarded, Contextual
<1>7. Reads'
  BY <1>1, <1>2 DEF IInv, Reads, ReadBefore, request
<1>8. Lined'
  <2>1. \A k \in DOMAIN list : 0 <= k
    BY InputTypes DEF IInv, Typed
  <2> QED
    BY <1>1, <1>2, <1>4, <2>1 DEF IInv, Lined, Logged
<1>9. Answered'
  BY <1>1 DEF IInv, Answered
<1> QED
  BY <1>5, <1>6, <1>7, <1>8, <1>9 DEF IInv

LEMMA AdaptKeeps == IInv /\ Adapt => IInv'
<1> SUFFICES ASSUME IInv, Adapt PROVE IInv'
  OBVIOUS
<1>1. /\ dir = "http" /\ dir' = "in" /\ ctx' = <<NewContext>> /\ pos = 1 /\ ctx = << >>
      /\ UNCHANGED <<input, id, pos, request, err, lines, reply>>
  BY DEF Adapt, IInv, Typed
<1>2. /\ Accepting' = Accepting /\ list' = list /\ kind' = kind /\ msg' = msg /\ LogStands' = LogStands
  BY <1>1, InputStays
<1>3. NewContext \in Contexts
  BY FieldTypes DEF NewContext, Contexts
<1>4. ctx' \in Seq(Contexts) /\ Len(ctx') = 1 /\ ctx'[1] = NewContext /\ Len(list) \in Nat
  BY <1>1, <1>3, InputTypes DEF IInv, Typed
<1>5. Typed'
  BY <1>1, <1>2, <1>4 DEF IInv, Typed, TypeOK, request
<1>6. Guarded'
  BY <1>1, <1>2, <1>4 DEF Guarded
<1>7. Enriched(1)'
  BY <1>1, <1>2, <1>4 DEF Enriched, NewContext, Passed, ReadBefore, RawRead, If
<1>8. Contextual'
  BY <1>4, <1>7 DEF Contextual
<1>9. Reads'
  BY <1>1, <1>2 DEF IInv, Reads, ReadBefore, request, Typed, TypeOK
<1>10. Lined'
  <2>1. \A k \in DOMAIN list : 0 <= k /\ 1 <= k /\ ~(1 > k)
    BY InputTypes DEF IInv, Typed
  <2> QED
    BY <1>1, <1>2, <1>4, <2>1 DEF IInv, Lined, Logged
<1>11. Answered'
  BY <1>1 DEF IInv, Answered
<1> QED
  BY <1>5, <1>6, <1>8, <1>9, <1>10, <1>11 DEF IInv

\* The handler's end, one way or the other, is on the far side of every layer.
LEMMA HandlerKeeps ==
  ASSUME IInv, AtHandler, UNCHANGED <<input, id, ctx, request, lines, reply>>,
         \/ dir' = "out" /\ pos' = pos - 1 /\ err' \in Errors
         \/ dir' = "panicked" /\ UNCHANGED <<pos, err>>
  PROVE  IInv'
<1>1. /\ Accepting' = Accepting /\ list' = list /\ kind' = kind /\ msg' = msg
      /\ OneReader' = OneReader /\ LogStands' = LogStands
  BY InputStays
<1>2. dir = "in" /\ pos = Len(list) + 1 /\ Len(ctx) = pos /\ Len(list) \in Nat /\ DOMAIN list = 1..Len(list)
  BY RunningFacts DEF AtHandler, IInv
<1>3. Typed'
  BY <1>1, <1>2 DEF IInv, Typed, TypeOK, request
<1>4. Guarded'
  BY <1>1, <1>2 DEF IInv, Guarded
<1>5. Reads'
  BY <1>1 DEF IInv, Reads, request
<1>6. Lined'
  <2> SUFFICES ASSUME LogStands, NEW k \in DOMAIN list, list[k] = "WithLogging" PROVE Logged(k)'
    BY <1>1 DEF Lined
  <2>1. Logged(k) /\ Its(k)' = Its(k) /\ k \in 1..Len(list)
    BY <1>2, ItsStays DEF IInv, Lined
  <2> QED
    BY <1>2, <2>1 DEF Logged
<1>7. Answered'
  BY <1>2 DEF IInv, Answered
<1> QED
  BY <1>3, <1>4, <1>5, <1>6, <1>7, ContextsStay DEF IInv

LEMMA ReturnsKeep == ASSUME NEW e \in HandlerErrors \cup {APIError(500)} PROVE IInv /\ HandlerReturns(e) => IInv'
<1>1. e \in Errors
  BY ChainAssumption, APIErrors
<1> QED
  BY <1>1, HandlerKeeps DEF HandlerReturns

LEMMA PanicsKeep == IInv /\ HandlerPanics => IInv'
BY HandlerKeeps DEF HandlerPanics

LEMMA OutwardsFacts ==
  ASSUME IInv, NEW layer, Outwards(layer)
  PROVE  dir = "out" /\ pos \in DOMAIN list /\ list[pos] = layer
BY InputTypes DEF IInv, Typed, Outwards, Layer, TypeOK

LEMMA LogsKeep == IInv /\ LogsOutcome => IInv'
<1> SUFFICES ASSUME IInv, LogsOutcome PROVE IInv'
  OBVIOUS
<1>1. dir = "out" /\ pos \in DOMAIN list /\ list[pos] = "WithLogging"
  BY OutwardsFacts DEF LogsOutcome
<1> QED
  BY <1>1, LeaveKeeps DEF LogsOutcome, IInv, Typed, TypeOK

LEMMA RespondsKeep == IInv /\ Responds => IInv'
<1> SUFFICES ASSUME IInv, Responds PROVE IInv'
  OBVIOUS
<1>1. PICK layer \in Responders : Outwards(layer)
  BY DEF Responds
<1>2. dir = "out" /\ pos \in DOMAIN list /\ list[pos] \in Responders /\ "WithLogging" \notin Responders
  BY <1>1, OutwardsFacts DEF Responders
<1> QED
  BY <1>2, LeaveKeeps, APIErrors DEF Responds, IInv, Typed, TypeOK

LEMMA PassesKeep == IInv /\ PassesError => IInv'
<1> SUFFICES ASSUME IInv, PassesError PROVE IInv'
  OBVIOUS
<1>1. PICK layer \in Middleware \ {"WithLogging"} : Outwards(layer)
  BY DEF PassesError
<1>2. dir = "out" /\ pos \in DOMAIN list /\ list[pos] # "WithLogging"
  BY <1>1, OutwardsFacts
<1> QED
  BY <1>2, LeaveKeeps DEF PassesError, IInv, Typed, TypeOK

LEMMA AdaptedKeeps == IInv /\ Adapted => IInv'
<1> SUFFICES ASSUME IInv, Adapted PROVE IInv'
  OBVIOUS
<1>1. /\ dir = "out" /\ pos = 0 /\ dir' = "done" /\ UNCHANGED <<input, id, pos, ctx, request, err, lines>>
      /\ reply' \in {"none", "data", "header", "error"}
      /\ reply' = "header" <=> reply = "header"
  BY DEF Adapted, IInv, Typed, TypeOK
<1>2. /\ Accepting' = Accepting /\ list' = list /\ kind' = kind /\ msg' = msg
      /\ OneReader' = OneReader /\ LogStands' = LogStands /\ Outside' = Outside
  BY <1>1, InputStays
<1>3. Typed'
  BY <1>1, <1>2 DEF IInv, Typed, TypeOK, request
<1>4. Guarded' /\ Reads'
  BY <1>1, <1>2 DEF IInv, Guarded, Reads, request
<1>5. Lined'
  <2> SUFFICES ASSUME LogStands, NEW k \in DOMAIN list, list[k] = "WithLogging" PROVE Logged(k)'
    BY <1>2 DEF Lined
  <2>1. Logged(k) /\ Its(k)' = Its(k)
    BY <1>1, ItsStays DEF IInv, Lined
  <2>2. 0 < k /\ ~(0 >= k)
    BY InputTypes DEF IInv, Typed
  <2> QED
    BY <1>1, <1>2, <2>1, <2>2 DEF Logged, Verdict
<1>6. Answered'
  BY <1>1 DEF Answered
<1> QED
  BY <1>1, <1>3, <1>4, <1>5, <1>6, ContextsStay DEF IInv

LEMMA UnchangedKeeps == IInv /\ UNCHANGED vars => IInv'
<1> SUFFICES ASSUME IInv, UNCHANGED vars PROVE IInv'
  OBVIOUS
<1>1. /\ UNCHANGED <<input, id, dir, pos, ctx, request, err, lines, reply>>
      /\ Accepting' = Accepting /\ list' = list /\ kind' = kind /\ msg' = msg
      /\ OneReader' = OneReader /\ LogStands' = LogStands
  BY InputStays DEF vars
<1>2. Typed' /\ Guarded'
  BY <1>1 DEF IInv, Typed, TypeOK, request, Guarded
<1>3. Reads'
  BY <1>1 DEF IInv, Reads, ReadBefore, request
<1>4. Lined'
  <2> SUFFICES ASSUME LogStands, NEW k \in DOMAIN list, list[k] = "WithLogging" PROVE Logged(k)'
    BY <1>1 DEF Lined
  <2>1. Logged(k) /\ Its(k)' = Its(k)
    BY <1>1, ItsStays DEF IInv, Lined
  <2>2. Verdict' = Verdict
    BY <1>1, VerdictStays
  <2> QED
    BY <1>1, <2>1, <2>2 DEF Logged
<1>5. Answered'
  BY <1>1 DEF IInv, Answered
<1> QED
  BY <1>1, <1>2, <1>3, <1>4, <1>5, ContextsStay DEF IInv

LEMMA NextKeeps == IInv /\ [Next]_vars => IInv'
BY ParamsKeep, NeutralKeep, AuthKeeps, RequestIDKeeps, BodyKeeps, UploadsKeep,
   HttpKeeps, AdaptKeeps, ReturnsKeep, PanicsKeep, LogsKeep, RespondsKeep, PassesKeep,
   AdaptedKeeps, UnchangedKeeps DEF Next, Layers, Quiet

LEMMA InvariantHolds == Spec => []IInv
<1> QED
  BY InitIsRight, NextKeeps, PTL DEF Spec

-------------------------------------------------------------------------------
(* The theorems *)

\* Every step of every request through any chain leaves the state well typed:
\* a context to each layer entered, and nothing but what middleware can put
\* there in it.
THEOREM TypeCorrect == Spec => []TypeOK
<1>1. IInv => TypeOK
  BY DEF IInv, Typed
<1> QED
  BY <1>1, InvariantHolds, PTL

\* A handler runs only if every middleware of its list accepts the request as
\* it was sent, and it runs whenever they do where one reads the body
\* (handler/types.go:139-142, middleware/typed/*.go), for any list.
THEOREM GuardsHold == Spec => []EveryGuardHolds
<1>1. IInv => EveryGuardHolds
  <2> SUFFICES ASSUME IInv, dir \in {"out", "done", "panicked"}
               PROVE  /\ HandlerRan => \A k \in DOMAIN list : Acceptable(list[k])
                      /\ (\A k \in DOMAIN list : Acceptable(list[k])) /\ OneReader => HandlerRan
    BY DEF EveryGuardHolds
  <2>1. Len(list) \in Nat /\ DOMAIN list = 1..Len(list) /\ Len(ctx) \in 1..Len(list) + 1
    BY InputTypes DEF IInv, Typed
  <2>2. HandlerRan => DOMAIN list \subseteq Accepting
    BY <2>1 DEF IInv, Guarded, HandlerRan
  <2>3. ~HandlerRan /\ OneReader => Len(ctx) \in DOMAIN list /\ Len(ctx) \notin Accepting
    BY <2>1 DEF IInv, Guarded, HandlerRan, Typed
  <2> QED
    BY <2>2, <2>3 DEF Accepting
<1> QED
  BY <1>1, InvariantHolds, PTL

\* The body of a request is not read before every middleware in front of the
\* first that reads it accepts the request (handler/types.go:139-142).
THEOREM BodiesWait == Spec => []UnreadUntilAccepted
<1>1. IInv => UnreadUntilAccepted
  BY DEF IInv, Reads, UnreadUntilAccepted, Accepting
<1> QED
  BY <1>1, InvariantHolds, PTL

\* Some reader of several is the last.
LEMMA LastReader ==
  ASSUME TypeOK, Reading # {}
  PROVE  \E k \in Reading : \A j \in Reading : j <= k
<1> DEFINE Less == OpToRel(<, Nat)
           T == {Len(list) - k : k \in Reading}
<1>1. Reading \subseteq 1..Len(list) /\ Len(list) \in Nat
  BY InputTypes DEF Reading
<1>2. T \subseteq Nat /\ T # {}
  <2>1. \A k \in Reading : Len(list) - k \in Nat
    BY <1>1
  <2> QED
    BY <2>1, Zenon
<1>3. IsWellFoundedOn(Less, Nat) /\ \A x, y \in Nat : y < x => <<y, x>> \in Less
  BY NatLessThanWellFounded DEF OpToRel
<1> HIDE DEF Less, T
<1>4. PICK x \in T : \A y \in T : ~(<<y, x>> \in Less)
  BY <1>2, <1>3, WFMin, Zenon
<1>5. PICK k \in Reading : x = Len(list) - k
  BY DEF T
<1>6. ASSUME NEW j \in Reading PROVE j <= k
  <2>1. Len(list) - j \in T
    BY DEF T
  <2>2. ~(Len(list) - j < x)
    BY <1>2, <1>3, <1>4, <2>1
  <2> QED
    BY <1>1, <1>5, <2>2
<1> QED
  BY <1>6

\* The context a handler is called with holds what was sent in its request,
\* each field as the middleware that sets it found it, in lists of any length
\* and in any order (handler/adapter.go:76-83).
THEOREM ContextsAreTrue == Spec => []ContextIsTheRequest
<1>1. IInv => ContextIsTheRequest
  <2> SUFFICES ASSUME IInv, AtHandler PROVE ContextIsTheRequest
    BY DEF ContextIsTheRequest
  <2> DEFINE last == CHOOSE k \in Reading : \A j \in Reading : j <= k
  <2>1. /\ pos = Len(list) + 1 /\ Len(list) \in Nat /\ DOMAIN list = 1..Len(list)
        /\ Ctx = ctx[pos] /\ Enriched(pos) /\ 1..pos - 1 = DOMAIN list
    BY RunningFacts DEF IInv, AtHandler, Contextual
  <2>2. \A layer : Passed(pos, layer) <=> Listed(layer)
    BY <2>1 DEF Passed, Listed
  <2>3. Ctx.Params = If(Listed("ParseParams") /\ kind.param # "none", AsWritten)
    BY <2>1, <2>2 DEF Enriched, If
  <2>4. /\ Ctx.Headers = If(Listed("ParseHeaders"), Present("headers"))
        /\ Ctx.User = If(Listed("RequireAuth"), Present("claims"))
        /\ Ctx.RequestID = If(Listed("WithRequestID") /\ id # "none", Present(id))
    BY <2>1, <2>2 DEF Enriched, If
  <2>5. Ctx.Body = IF Reading = {} THEN Absent ELSE BodyOf(list[last])
    <3>1. CASE Reading = {}
      <4>1. ~ReadBefore(pos)
        BY <2>1, <3>1 DEF ReadBefore, Reading
      <4> QED
        BY <2>1, <3>1, <4>1 DEF Enriched
    <3>2. CASE Reading # {}
      <4>1. last \in Reading /\ \A j \in Reading : j <= last
        BY <3>2, LastReader, Zenon DEF IInv, Typed
      <4> HIDE DEF last
      <4>2. last \in 1..pos - 1 /\ list[last] \in BodyReaders
        BY <2>1, <4>1 DEF Reading
      <4>3. \A i \in last + 1..pos - 1 : list[i] \notin BodyReaders
        BY <2>1, <4>1, <4>2 DEF Reading
      <4>4. Ctx.Body = Bodies[last]
        BY <2>1, <4>2, <4>3 DEF Enriched
      <4> QED
        BY <2>1, <3>2, <4>2, <4>4 DEF Bodies
    <3> QED
      BY <3>1, <3>2
  <2>6. Ctx.BodyRaw = If(Listed("ParseBody") /\ msg.length = "positive",
                        Present(IF \E r \in BodyReaders : Before(r, "ParseBody")
                                THEN "nothing" ELSE "whole"))
    <3>1. RawRead(pos) <=> \E r \in BodyReaders : Before(r, "ParseBody")
      <4>1. \A j \in DOMAIN list : \A i : i \in 1..j - 1 <=> i \in DOMAIN list /\ i < j
        BY <2>1
      <4> QED
        BY <2>1, <4>1 DEF RawRead, ReadBefore, Before
    <3>2. Ctx.BodyRaw = If(Listed("ParseBody") /\ msg.length = "positive",
                          Present(IF RawRead(pos) THEN "nothing" ELSE "whole"))
      BY <2>1, <2>2 DEF Enriched, If
    <3>3. CASE RawRead(pos)
      BY <3>1, <3>2, <3>3
    <3>4. CASE ~RawRead(pos)
      BY <3>1, <3>2, <3>4
    <3> QED
      BY <3>3, <3>4
  <2> QED
    BY <2>3, <2>4, <2>5, <2>6 DEF ContextIsTheRequest
<1> QED
  BY <1>1, InvariantHolds, PTL

\* WithLogging's two lines tell what the layers inside it made of the request,
\* under the request's id, in any list in which no responders are on both sides
\* of it (middleware/typed/logging.go:34-73).
THEOREM LogsTellOutcomes == Spec => []LogTellsOutcome
<1>1. IInv => LogTellsOutcome
  <2> SUFFICES ASSUME IInv, dir = "done", OneReader, LogStands,
                      NEW k \in DOMAIN list, list[k] = "WithLogging"
               PROVE  LET its == If(Before("WithRequestID", "WithLogging") /\ id # "none", Present(id))
                      IN  lines = IF \A j \in 1..k : Acceptable(list[j])
                                  THEN << [what |-> "request", id |-> its], [what |-> Verdict, id |-> its] >>
                                  ELSE << >>
    BY DEF LogTellsOutcome, LogStands, Outside, Inside, Verdict
  <2>1. /\ Len(list) \in Nat /\ DOMAIN list = 1..Len(list) /\ Len(ctx) \in 1..Len(list) + 1
        /\ pos = 0 /\ Logged(k) /\ k \in 1..Len(list)
    BY InputTypes DEF IInv, Typed, Lined
  <2>2. If(Before("WithRequestID", "WithLogging") /\ id # "none", Present(id)) = Its(k)
    <3>1. Before("WithRequestID", "WithLogging") <=> Passed(k, "WithRequestID")
      <4>1. \A i : i \in 1..k - 1 <=> i \in DOMAIN list /\ i < k
        BY <2>1
      <4>2. \A j \in DOMAIN list : list[j] = "WithLogging" => j = k
        BY OneLog
      <4> QED
        BY <4>1, <4>2 DEF Before, Passed
    <3> QED
      BY <3>1 DEF Its, If
  <2>3. CASE Len(ctx) > k
    <3>1. \A j \in 1..k : Acceptable(list[j])
      BY <2>1, <2>3 DEF IInv, Guarded, Accepting
    <3>2. lines = << [what |-> "request", id |-> Its(k)], [what |-> Verdict, id |-> Its(k)] >>
      BY <2>1, <2>3 DEF Logged
    <3> QED
      BY <2>2, <3>1, <3>2
  <2>4. CASE Len(ctx) <= k
    <3>1. Len(ctx) \in 1..k /\ ~Acceptable(list[Len(ctx)])
      BY <2>1, <2>4 DEF IInv, Guarded, Accepting
    <3>2. lines = << >>
      BY <2>1, <2>4 DEF Logged
    <3> QED
      BY <3>1, <3>2
  <2> QED
    BY <2>1, <2>3, <2>4
<1> QED
  BY <1>1, InvariantHolds, PTL
===============================================================================
