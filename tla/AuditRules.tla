------------------------------ MODULE AuditRules ------------------------------
(***************************************************************************)
(* skills/http-audit-log/assets/auditcheck.py: does a service keep the     *)
(* audit rules? The text of a file is the set of the phrases the checks    *)
(* look for; where they read on (the Use statements of middleware.go, the  *)
(* arguments of a call) it is a sequence.                                  *)
(***************************************************************************)
EXTENDS Integers, SequencesExt

CONSTANTS MigrationTexts,  \* REQUIRED_COLUMNS, CHECKS and the two indexes
          RequiredFiles

Migrations(svc) ==
  LET named == {m \in svc.migrations : m.named = "yes"}
  IN  IF named # {} THEN named ELSE {m \in svc.migrations : m.creates = "yes"}

\* found is the one of Migrations(svc) that rglob gives first.
MigrationErrors(svc, found) ==
  IF Migrations(svc) = {} THEN {"no migration"} ELSE MigrationTexts \ found.texts

FileErrors(svc) ==
  (RequiredFiles \ svc.files)
  \cup (IF svc.query = "without insert" THEN {"InsertAuditLog"} ELSE {})
  \cup {o \in {"uuid", "jsonb"} : o \notin svc.sqlc}
  \cup (IF svc.root = "without repository" THEN {"NewAuditLogRepository"} ELSE {})
  \cup (IF svc.placeholders = "yes" THEN {"placeholder"} ELSE {})
-----------------------------------------------------------------------------
Order == <<"CorrelationId", "RequestId", "Audit", "Logging", "ErrorHandler", "Recovery">>

\* The expression sees the first handler of every r.Use(...), commented or
\* not, when it is written as a call: of r.Use(h) it sees nothing.
Uses(setup) == {i \in DOMAIN setup : setup[i].first = "call"}

\* The first six it finds are those of Order.
HasStandardAuditOrder(setup) ==
  \A k \in 1..Len(Order) : \E i \in Uses(setup) :
    Cardinality(Uses(setup) \cap 1..i) = k /\ setup[i].handlers[1] = Order[k]

MiddlewareErrors(svc) ==
  IF svc.setup = <<>> THEN {"middleware.go"}
  ELSE (IF svc.takesRepo = "yes" THEN {} ELSE {"AuditLogRepository"})
       \cup (IF HasStandardAuditOrder(svc.setup) THEN {} ELSE {"order"})
       \cup ({"if writer == nil", "failed to persist", "uuid.New"} \ svc.audit)
       \cup (svc.audit \cap {"Abort"})
-----------------------------------------------------------------------------
\* A text is a sequence of "(", ")", "[", "]" (which stand for braces, too),
\* ",", "x", a string with a comma in it, and the needles of the two
\* constructors, each with its opening parenthesis.
Literal == "literal"

Needles == {"middleware.Setup(", "router.New("}

Parens == {"("} \cup Needles
Opens == Parens \cup {"["}
Closes == {")", "]"}

Depth(text, from, i, opens, closes) ==
  Cardinality({k \in from..i : text[k] \in opens})
  - Cardinality({k \in from..i : text[k] \in closes})

\* Mutant: every comma separates two arguments.
ArgCountFlat(inside) ==
  IF inside = <<>> THEN 0 ELSE 1 + Cardinality({i \in DOMAIN inside : inside[i] \in {",", Literal}})

\* It knows neither strings nor the comma that may end the arguments.
ArgCount(inside) ==
  IF inside = <<>> THEN 0
  ELSE 1 + Cardinality({i \in DOMAIN inside :
                          /\ inside[i] \in {",", Literal}
                          /\ Depth(inside, 1, i, Opens, Closes) = 0})

\* Where the parenthesis that opens at i is closed: brackets do not count.
ClosedAt(text, i) ==
  LET shut == {j \in i..Len(text) : Depth(text, i, j, Parens, {")"}) = 0}
  IN  IF shut = {} THEN Len(text) + 1 ELSE CHOOSE j \in shut : \A k \in shut : j <= k

\* The call sites of a needle; the search goes on behind the one it found.
Sites(text, needle) ==
  LET behind[i \in 0..Len(text)] ==
        IF i = 0 THEN 1
        ELSE LET from == behind[i - 1]
             IN  IF i >= from /\ text[i] = needle THEN ClosedAt(text, i) + 1 ELSE from
  IN  {i \in DOMAIN text : text[i] = needle /\ i >= behind[i - 1]}

ArityErrors(texts) ==
  UNION {
    (IF \A text \in texts : Sites(text, needle) = {} THEN {"no call site"} ELSE {})
    \cup {"arity" : text \in {t \in texts : \E i \in Sites(t, needle) :
            ArgCount(SubSeq(t, i + 1, ClosedAt(t, i) - 1)) # 3}} :
    needle \in Needles}

\* A service has the texts of its Go files.
AuditErrors(svc, texts, found) ==
  MigrationErrors(svc, found) \cup FileErrors(svc) \cup MiddlewareErrors(svc)
  \cup ArityErrors(texts)
-----------------------------------------------------------------------------
\* The chain gin runs: every handler of every statement that is compiled.
Chain(setup) ==
  FlattenSeq([i \in DOMAIN setup |-> IF setup[i].comment = "yes" THEN <<>> ELSE setup[i].handlers])

\* What stands between two commas: its brackets pair up, and a comma in it
\* is between some of them.
IsPiece(a) ==
  /\ \A i \in DOMAIN a : Depth(a, 1, i, Parens, {")"}) >= 0
  /\ Depth(a, 1, Len(a), Parens, {")"}) = 0 /\ Depth(a, 1, Len(a), Opens, Closes) = 0
  /\ \A i \in DOMAIN a : a[i] = "," => Depth(a, 1, i, Opens, Closes) # 0

YesNo == {"yes", "no"}
CodeTokens == {"(", ")", "[", "]", ",", "x", Literal} \cup Needles
PieceTexts == {a \in Seq(CodeTokens) : IsPiece(a)}
ArgumentTexts == PieceTexts \ {<<>>}
\* gofmt ends the arguments of a call with a comma when the parenthesis that
\* closes it is on a line of its own.
Calls == [needle : Needles, args : Seq(ArgumentTexts), lines : {"one", "many"}]

UseStatements == [handlers : Seq(STRING) \ {<<>>}, first : {"call", "value"}, comment : YesNo]

ServiceTexts ==
  [migrations : SUBSET [named : YesNo, creates : YesNo, texts : SUBSET STRING],
   files : SUBSET STRING, query : STRING, sqlc : SUBSET {"uuid", "jsonb"}, root : STRING,
   placeholders : YesNo, takesRepo : YesNo, audit : SUBSET (STRING \cup {"Abort"}),
   setup : Seq(UseStatements), calls : SUBSET Calls]

\* What the commas of a call separate: nothing follows the last one of many.
Pieces(c) == IF c.lines = "many" /\ c.args # <<>> THEN Append(c.args, <<>>) ELSE c.args

\* The text of a call whose commas separate the pieces.
Call(needle, pieces) ==
  <<needle>> \o FlattenSeq([i \in DOMAIN pieces |-> IF i = 1 THEN pieces[1] ELSE <<",">> \o pieces[i]])
             \o <<")">>

TextOf(c) == Call(c.needle, Pieces(c))

HasLiteral(c) == \E i \in DOMAIN c.args : \E j \in DOMAIN c.args[i] : c.args[i][j] = Literal
=============================================================================
