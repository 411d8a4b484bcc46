----------------------------- MODULE MCTripwires -----------------------------
(* Tripwires for TLC: criteria in every form the regular expressions tell  *)
(* apart and tests of two cards; six packages, one of them the composition *)
(* root; two constructors called with nested arguments; a page with a      *)
(* table, a list and a code block.                                         *)
EXTENDS Tripwires

MCMaxEdits == [t \in Tools |-> CASE t = "e2e" -> 4 [] t = "structure" -> 3 [] OTHER -> 2]

MCCanonical == [ac \in {"AC-001", "AC-1", "AC-002"} |-> IF ac = "AC-002" THEN "AC-2" ELSE "AC-1"]
MCNumbered == <<"AC-1", "AC-2", "AC-3">>
MCCardArgs == {"GI-1", NoCard}

Test(form, label, acs, skip, reason) ==
  [form |-> form, label |-> label, acs |-> acs, skip |-> skip, reason |-> reason]
MCTestFiles ==
  {{Test("prefix", <<"TC-028", "GI-1">>, {"AC-001"}, "no", "no")},
   {Test("prefix", <<"GI-1">>, {"AC-002"}, "yes", "yes")},
   {Test("prefix", <<"GI-1">>, {"AC-002"}, "yes", "no")},
   {Test("table", <<"GI-1">>, {"AC-1", "AC-002"}, "no", "no"), Test("plain", <<"x">>, {}, "no", "no")},
   {Test("table", <<"GI-1">>, {}, "no", "no")},
   {Test("card", <<"GI-1">>, {}, "no", "no"), Test("loose", <<"GI-1">>, {"AC-001"}, "no", "no")},
   {Test("prefix", <<"GI-2">>, {"AC-001", "AC-002"}, "no", "no")},
   {Test("prefix", <<"GI-2">>, {"AC-1"}, "yes", "no"), Test("loose", <<"x">>, {"AC-1"}, "no", "no")}}

\* A key as it is, without its first letter, and then none.
MCTails == [key \in {"GI-1", "GI-2", "AC-001", "AC-1", "AC-002", "UTF-8"} |->
  CASE key = "GI-1" -> <<"I-1">> [] key = "GI-2" -> <<"I-2">> [] key = "AC-001" -> <<"C-001">>
    [] key = "AC-1" -> <<"C-1">> [] key = "AC-002" -> <<"C-002">> [] OTHER -> <<"TF-8", "F-8">>]
MCKeyRest == [key \in DOMAIN MCTails |-> [lost \in 0..5 |->
  IF lost = 0 THEN key ELSE IF lost \in DOMAIN MCTails[key] THEN MCTails[key][lost] ELSE NoCard]]

Tok(kind, val, len) == [kind |-> kind, val |-> val, len |-> len]
Card(key) == Tok("card", key, 4)
Ac(ac) == Tok("ac", ac, IF ac = "AC-1" THEN 4 ELSE 6)
Mark(kind) == Tok(kind, "none", 4)
Words(len) == Tok("word", "none", len)
\* The tokens one behind the other, a space between them.
Laid(tokens) ==
  LET start[i \in DOMAIN tokens] == IF i = 1 THEN 0 ELSE start[i - 1] + tokens[i - 1].len + 1
  IN  [i \in DOMAIN tokens |-> [kind |-> tokens[i].kind, val |-> tokens[i].val,
                                at |-> start[i], len |-> tokens[i].len]]
Line(tokens) == [declares |-> "no", tokens |-> Laid(tokens)]
Defers(tokens) == [declares |-> "yes", tokens |-> Laid(tokens)]
File(lines, boxes) == [lines |-> lines, boxes |-> boxes]
CutSource == <<File(<<Line(<<Ac("AC-001")>>), Line(<<Card("GI-1"), Words(35), Ac("AC-002")>>)>>, 0)>>
MCSources ==
  {<<File(<<Line(<<Ac("AC-001")>>), Line(<<Mark("word"), Ac("AC-002")>>)>>, 1)>>,
   <<File(<<Line(<<Card("GI-2"), Ac("AC-001")>>), Line(<<Card("GI-1"), Ac("AC-002")>>),
            Line(<<Card("GI-2"), Words(40), Ac("AC-1")>>)>>, 0)>>,
   \* the window begins at the id of a card, and behind its first letter
   <<File(<<Line(<<Card("GI-2"), Words(34), Ac("AC-1")>>), Line(<<Card("GI-1"), Words(34), Ac("AC-002")>>)>>,
          0)>>,
   CutSource,
   <<File(<<Line(<<Tok("key", "UTF-8", 5), Ac("AC-002")>>)>>, 1)>>,
   \* two criteria on a line, far from each other
   <<File(<<Line(<<Ac("AC-001"), Words(40), Ac("AC-002")>>)>>, 0)>>,
   <<File(<<>>, 1), File(<<Line(<<Mark("word")>>)>>, 1)>>,
   <<File(<<Line(<<Ac("AC-001")>>), Line(<<Ac("AC-002")>>),
            Defers(<<Ac("AC-002"), Mark("dash"), Mark("word")>>)>>, 0)>>,
   <<File(<<Line(<<Ac("AC-001")>>), Defers(<<Ac("AC-1"), Mark("word")>>)>>, 0)>>,
   <<File(<<Line(<<Ac("AC-001"), Mark("comma"), Ac("AC-002")>>)>>, 0)>>,
   <<File(<<Defers(<<Ac("AC-002"), Mark("dash"), Mark("word")>>)>>, 2)>>,
   <<File(<<Line(<<Card("GI-2"), Ac("AC-1")>>), Line(<<Ac("AC-002")>>),
            Defers(<<Ac("AC-002"), Mark("dash"), Mark("word")>>)>>, 1)>>,
   <<File(<<Line(<<Mark("word")>>)>>, 0)>>}
\* A line names two criteria of the card; the id of the card is cut.
GapSources == {<<File(<<Line(<<Ac("AC-001"), Mark("word"), Ac("AC-002")>>)>>, 0)>>, CutSource}
GapCardArgs == {"GI-1"}

MCPackages == {"entity", "usecase", "postgres", "handler", "util", "main"}
MCLayerOf == [p \in MCPackages |->
  CASE p = "entity" -> "domain" [] p = "usecase" -> "usecase" [] p = "postgres" -> "adapters"
    [] p = "handler" -> "delivery" [] OTHER -> "other"]
MCFrameworks == {"gin"}
Plain == [dirs |-> RequiredDirs \cup {"internal/domain"}, code |-> {}, flat |-> "no", groups |-> {},
          imports |-> [p \in MCPackages |-> {}], module |-> "svc",
          contract |-> {".golangci.yaml", ".kiro/steering/INDEX.md"}]
MCTrees == {Plain, [Plain EXCEPT !.imports = [p \in MCPackages |->
              CASE p = "usecase" -> {"entity"} [] p = "postgres" -> {"entity"}
                [] p = "handler" -> {"usecase"} [] p = "main" -> {"usecase", "postgres", "handler"}
                [] OTHER -> {}]],
            [Plain EXCEPT !.contract = @ \cup {"sentinel module"}], [Plain EXCEPT !.module = "none"]}

Use(handlers) == [handlers |-> handlers, first |-> "call", comment |-> "no"]
MCStatements == {Use(<<"Cors">>), Use(<<"Audit", "Cors">>), Use(<<"Logging">>),
                 [Use(<<"Audit">>) EXCEPT !.first = "value"],
                 [Use(<<"Audit">>) EXCEPT !.comment = "yes"]}
X == <<"x">>
MCArguments == {X, <<"x", "(", "x", ",", "x", ")">>, <<"[", "x", ",", "x", "]">>,
                <<"router.New(", "x", ",", "x", ",", "x", ")">>, <<"x", "(", Literal, ")">>, <<Literal>>}
Service ==
  [migrations |-> {[named |-> "yes", creates |-> "yes", texts |-> {"request_id", "SUCCESS"}]},
   files |-> {"audit.go"}, query |-> "with insert", sqlc |-> {"uuid", "jsonb"},
   root |-> "with repository", placeholders |-> "no", takesRepo |-> "yes",
   setup |-> [i \in DOMAIN Order |-> Use(<<Order[i]>>)],
   audit |-> {"if writer == nil", "failed to persist", "uuid.New"},
   calls |-> {[needle |-> n, args |-> <<X, X, X>>, lines |-> "one"] : n \in Needles}]
MCServices == {Service,
               [Service EXCEPT !.migrations = {[named |-> "no", creates |-> "yes",
                  texts |-> {"request_id"}]}],
               [Service EXCEPT !.setup = Append(@, Use(<<"Cors">>))],
               [Service EXCEPT !.calls = {[c EXCEPT !.lines = "many"] : c \in @}]}
MCMigrationTexts == {"request_id", "SUCCESS"}
MCRequiredFiles == {"audit.go"}

Tag(kind, val) == Token(kind, val, {})
Word == Tag("text", "word")
Space == Tag("space", "none")
TableOf(cell) == <<Tag("open", "table"), Tag("open", "tr"), Tag("open", cell), Tag("close", cell),
                   Tag("close", "tr"), Tag("close", "table")>>
Table == TableOf("td")
CodeBlock == <<Token("open", "macro", {"code"}), Tag("open", "body"), Tag("cdata start", "none"), Word,
               Tag("cdata end", "none"), Tag("close", "body"), Tag("close", "macro")>>
MCPages ==
  {[blocks |-> <<"table", "code">>, storage |-> Table \o CodeBlock],
   [blocks |-> <<"table", "table">>, storage |-> Table \o TableOf("th")],
   [blocks |-> <<"prose">>, storage |-> <<Tag("open", "ul"), Tag("open", "li"), Word, Space, Word, Space,
                                          Tag("open", "code"), Word, Tag("close", "code"),
                                          Tag("close", "li"), Tag("close", "ul")>>]}
MCMarkup == {Tag("open", "tr"), Tag("close", "tr"), Tag("open", "li"), Tag("close", "li"), Word,
             Tag("text", "other"), Tag("escaped", "tr"), Token("empty", "td", {"colspan"}),
             Tag("cdata start", "none"), Tag("cdata end", "none"), Tag("bare <", "none"), Space,
             Tag("space", "nbsp"), Tag("empty", "li"), Tag("empty", "br")}
=============================================================================
