------------------------------ MODULE Tripwires ------------------------------
(***************************************************************************)
(* Four tripwires, each over something people go on editing: e2echeck.py   *)
(* over the tests of several cards, structurecheck.py over a repository,   *)
(* auditcheck.py over a service, pubcheck.py over a page that is staged    *)
(* and what Confluence gives back of it. They share nothing, so a          *)
(* behaviour edits the subject of one of them. A tripwire may be run at    *)
(* any moment: what it says is an expression of the state.                 *)
(***************************************************************************)
EXTENDS AcCoverage, Structure, AuditRules, Publication

CONSTANTS Tools,
          TestFiles, Sources, CardArgs,     \* spec files, criteria, --card
          Trees, Services, Pages,         \* what there is at first
          Statements, Arguments, Markup,  \* what an author may write
          MaxEdits                        \* bound, for each tool

ASSUME TripwiresAssumption ==
  /\ Tools \subseteq {"e2e", "structure", "audit", "page"} /\ MaxEdits \in [Tools -> Nat]
  /\ \A s \in Sources : \A line \in Lines(s) : line.tokens \in Seq(LineTokens)
  /\ Statements \subseteq UseStatements /\ Arguments \subseteq ArgumentTexts
  /\ Services \subseteq ServiceTexts
  /\ Pages \subseteq [blocks : Seq({"table", "code", "prose"}), storage : Seq(Tokens)]
  /\ Markup \subseteq Tokens

VARIABLES tool, edits,
          specs, source, card, \* of e2echeck.py
          tree,                \* of structurecheck.py
          svc,                 \* of auditcheck.py
          draft, sent, stored  \* of pubcheck.py: the Markdown as its blocks, what
                               \* is staged, and {} or what Confluence has stored

e2e == <<specs, source, card>>
page == <<draft, sent, stored>>
vars == <<tool, edits, e2e, tree, svc, page>>

Init == /\ tool \in Tools /\ edits = 0
        /\ specs = {}
        /\ source \in Sources /\ card \in CardArgs /\ tree \in Trees
        /\ svc \in Services /\ stored = {}
        /\ \E p \in Pages : draft = p.blocks /\ sent = p.storage
        /\ tool # "e2e" => source = CHOOSE s \in Sources : TRUE
        /\ tool # "e2e" => card = CHOOSE c \in CardArgs : TRUE
        /\ tool # "structure" => tree = CHOOSE t \in Trees : TRUE
        /\ tool # "audit" => svc = CHOOSE s \in Services : TRUE
        /\ tool # "page" => sent = (CHOOSE p \in Pages : TRUE).storage

TypeOK == /\ source \in Sources /\ svc \in ServiceTexts
          /\ draft \in Seq({"table", "code", "prose"}) /\ sent \in Seq(Tokens)
          /\ stored \subseteq Seq(Tokens)

Without(s, i) == SubSeq(s, 1, i - 1) \o SubSeq(s, i + 1, Len(s))
Into(s, i, t) == SubSeq(s, 1, i - 1) \o <<t>> \o SubSeq(s, i, Len(s))

Edit(t) == tool = t /\ edits < MaxEdits[t] /\ edits' = edits + 1 /\ UNCHANGED tool
-----------------------------------------------------------------------------
\* Somebody adds the tests of a card.
AddTests == /\ Edit("e2e")
            /\ \E file \in TestFiles \ specs : specs' = specs \cup {file}
            /\ UNCHANGED <<source, card, tree, svc, page>>
-----------------------------------------------------------------------------
AddImport == /\ Edit("structure")
             /\ \E p \in Packages : \E q \in (Packages \cup Frameworks) \ (tree.imports[p] \cup {p}) :
                  tree' = [tree EXCEPT !.imports[p] = @ \cup {q}]
             /\ UNCHANGED <<e2e, svc, page>>

MoveCode == /\ Edit("structure")
            /\ tree' \in {[tree EXCEPT !.dirs = @ \cup {d}, !.code = @ \cup {d}] : d \in ResidueDirs}
                         \cup {[tree EXCEPT !.dirs = @ \ {d}] : d \in RequiredDirs}
                         \cup {[tree EXCEPT !.groups = {"Account"}], [tree EXCEPT !.flat = "yes"],
                               [tree EXCEPT !.contract = {".golangci.yaml"}]}
            /\ UNCHANGED <<e2e, svc, page>>
-----------------------------------------------------------------------------
EditSetup == /\ Edit("audit")
             /\ \E i \in DOMAIN svc.setup :
                  svc' \in {[svc EXCEPT !.setup[i] = s] : s \in Statements}
                           \cup {[svc EXCEPT !.setup = Without(@, i)],
                                 [svc EXCEPT !.setup = Into(@, i, @[i])]}
             /\ UNCHANGED <<e2e, tree, page>>

EditCall == /\ Edit("audit")
            /\ \E c \in svc.calls : \E a \in Arguments :
                 svc' \in {[svc EXCEPT !.calls = (@ \ {c}) \cup {[c EXCEPT !.args = Append(@, a)]}],
                           [svc EXCEPT !.calls = @ \ {c}],
                           [svc EXCEPT !.calls = (@ \ {c}) \cup {[c EXCEPT !.lines = "many"]}]}
                          \cup {[svc EXCEPT !.calls = (@ \ {c}) \cup {[c EXCEPT !.args = Without(@, i)]}] :
                                  i \in DOMAIN c.args}
                          \cup {[svc EXCEPT !.calls = (@ \ {c}) \cup {[c EXCEPT !.args[i] = a]}] :
                                  i \in DOMAIN c.args}
            /\ UNCHANGED <<e2e, tree, page>>

EditService == /\ Edit("audit")
               /\ svc' \in {[svc EXCEPT !.migrations = {}], [svc EXCEPT !.placeholders = "yes"],
                            [svc EXCEPT !.sqlc = {"uuid"}], [svc EXCEPT !.audit = @ \cup {"Abort"}],
                            [svc EXCEPT !.takesRepo = "no"], [svc EXCEPT !.files = {}]}
               /\ UNCHANGED <<e2e, tree, page>>
-----------------------------------------------------------------------------
\* The conversion loses a piece of markup, or writes one too many.
Convert == /\ Edit("page") /\ stored = {}
           /\ \E i \in DOMAIN sent : \/ sent' = Without(sent, i)
                                     \/ \E t \in Markup : sent' = Into(sent, i, t)
           /\ UNCHANGED <<e2e, tree, svc, draft, stored>>

\* Confluence stores the page, with attributes and spaces of its own.
Store == /\ tool = "page" /\ stored = {}
         /\ \E new \in {"macro-id", "local-id"} :
              stored' = {[i \in DOMAIN sent |->
                            IF sent[i].kind \in Opening /\ i \notin InCdata(sent)
                              THEN [sent[i] EXCEPT !.attrs = @ \cup {new}] ELSE sent[i]]}
         /\ UNCHANGED <<tool, edits, e2e, tree, svc, draft, sent>>

\* It changes something, or somebody edits the page there.
Alter == /\ Edit("page")
         /\ \E s \in stored : \E i \in DOMAIN s :
              \/ stored' = {Without(s, i)}
              \/ s[i].attrs # {} /\ stored' = {[s EXCEPT ![i].attrs = {}]}
              \/ \E t \in Markup : stored' = {Into(s, i, t)}
         /\ UNCHANGED <<e2e, tree, svc, draft, sent>>

Next == \/ AddTests \/ AddImport \/ MoveCode \/ EditSetup \/ EditCall \/ EditService
        \/ Convert \/ Store \/ Alter

Spec == Init /\ [][Next]_vars
-----------------------------------------------------------------------------
\* The tests of other cards neither cover a criterion of this card nor fail
\* its check, whatever their titles: e2echeck.py credits a criterion to the
\* card that claims it, and reports the titles of a foreign file as notes.
\* One test of the card itself must be there: without any, the first card
\* somebody else names is an error.
OtherCardsDoNotMatter ==
  [][card # NoCard /\ card \in Cards(specs)
     /\ (\A file \in specs' \ specs : card \notin FileCards(file))
     => (Passes(specs', source, card) <=> Passes(specs, source, card))]_specs

\* When the check passes, every criterion the source owes has a test that
\* runs, one that says why it is skipped, or a deferral. That is so for a
\* careful source only: with --card an id is dropped as well when the window
\* of foreign_ac_spans cuts the id of its own card (of GI-1036 it sees
\* I-1036), when another criterion is in it, or a word that looks like a card.
PassMeansTraced == Careful(source, card) => NoGap(specs, source, card)

\* e2echeck.py, 10: an AC in the source but in neither is UNCOVERED, an ERROR.
NoSilentGap == NoGap(specs, source, card)

\* In a repository that conforms a chain of imports, of any length, leads out
\* of a layer of the core only over a package outside the layers: of those
\* structurecheck.py reads no imports, and it reads no chains.
CoreLeavesOverOthers == Conforms(tree) /\ tree.module # "none" => LeavesOverOthers(tree)

\* A service that passes has its audit middleware in the place its rows
\* depend on (unless a statement is commented out), whatever else is used in
\* between, and calls both constructors. Each call on one line has three
\* arguments. One that gofmt has broken into lines has two and the comma behind
\* them, so the third, the repository, is missing. (A comma in a string counts
\* as well: of calls with one nothing follows.)
InPlace(chain) ==
  \A i \in 1..(Len(Order) - 1) : \E j, k \in DOMAIN chain :
    j < k /\ chain[j] = Order[i] /\ chain[k] = Order[i + 1]

AuditIsWired ==
  (/\ \E found \in Migrations(svc) :
        AuditErrors(svc, {TextOf(c) : c \in svc.calls}, found) = {}
   /\ \A i \in DOMAIN svc.setup : svc.setup[i].comment = "no")
  => /\ InPlace(Chain(svc.setup))
     /\ \A needle \in Needles : \E c \in svc.calls :
          c.needle = needle \/ \E i \in DOMAIN c.args : \E j \in DOMAIN c.args[i] : c.args[i][j] = needle
     /\ \A c \in svc.calls : ~HasLiteral(c) => Len(c.args) = IF c.lines = "many" THEN 2 ELSE 3

\* Tags in a code block are text to a reader, and tags to the checks that count.
PlainCode(s) == \A i \in InCdata(s) : s[i].kind \in {"text", "space"}

\* What a reader finds of a tag on the page.
Blocks(s, tag) == Cardinality({i \in DOMAIN s : s[i].kind \in Opening /\ s[i].val = tag})

\* A page without an error has arrived whole: there is a table for each table
\* of the Markdown it was converted from, and a code macro for each fence.
TablesArrive ==
  PlainCode(sent) /\ PageErrors("title", MarkdownOf(draft), FencesOf(draft), sent) = {} =>
    /\ Cardinality({b \in DOMAIN draft : draft[b] = "table"}) <= Blocks(sent, "table")
    /\ Cardinality({b \in DOMAIN draft : draft[b] = "code"}) <= Blocks(sent, "macro")

HasEmpty(s, tags) == \E i \in DOMAIN s : s[i].kind = "empty" /\ s[i].val \in tags

\* The balance checks count in the raw text what C1 parses. On a page that
\* parses, whose code holds no markup and whose rows begin with a cell, they
\* are wrong about one thing: a tag they count that is written as empty, <li/>,
\* is taken for one that is never closed. Any other such page trips none.
OnlyEmptyTagsTrip ==
  (/\ WellFormed(sent)
   /\ PlainCode(sent)
   /\ \A i \in DOMAIN sent : sent[i].kind = "open" /\ sent[i].val = "tr" =>
        i < Len(sent) /\ sent[i + 1].kind \in Opening /\ sent[i + 1].val \in {"td", "th"})
  => LET found == PageErrors("title", <<"none">>, 0, sent)
     IN  /\ "C2" \notin found
         /\ "C4" \in found <=> HasEmpty(sent, {"table", "tr"})
         /\ "C5" \in found <=> HasEmpty(sent, {"ul", "ol", "li"})

\* A round trip that reports nothing has lost nothing but white space: node by
\* node the page that is stored is the one that was sent, if no text spells out
\* a tag (the canonical form writes it as the tag itself). The space between a
\* text and an inline tag may be gone, though a reader would see it.
SameButForSpace ==
  \A s \in stored :
    (/\ RoundTripErrors(sent, s) = {}
     /\ \A i \in DOMAIN sent : sent[i].kind # "escaped"
     /\ \A i \in DOMAIN s : s[i].kind # "escaped")
    => Nodes(sent) = Nodes(s)
=============================================================================
