----------------------------- MODULE Publication -----------------------------
(***************************************************************************)
(* skills/confluence-api-doc/assets/pubcheck.py: the storage of a page, as *)
(* it is staged and as Confluence gives it back. A storage is a sequence   *)
(* of tokens as its regular expressions see them: tags, texts, the two     *)
(* ends of a CDATA section, and what has no place in XML. A code macro is  *)
(* the tag "macro", its plain-text-body the tag "body".                    *)
(***************************************************************************)
EXTENDS Naturals, SequencesExt

Volatile == {"macro-id", "schema-version", "local-id"}

Kinds == {"open", "close", "empty", "text", "escaped", "space", "bare &", "bare <",
          "cdata start", "cdata end"}
\* A tag is not called "broken"; what has no name is "none".
Tokens == {t \in [kind : Kinds, val : STRING \cup {"none"}, attrs : SUBSET (STRING \cup Volatile)] :
             /\ t.val # "broken"
             /\ t.kind \in {"cdata start", "cdata end"} => t.val = "none"}

\* Text is "text", or "escaped" when its entities spell out the tag in val.
Token(kind, val, attrs) == [kind |-> kind, val |-> val, attrs |-> attrs]
-----------------------------------------------------------------------------
\* RE_CDATA: the first end closes a section; one without an end is none.
InCdata(s) ==
  {i \in DOMAIN s :
     /\ s[i].kind # "cdata end"
     /\ \E j \in 1..(i - 1) : /\ s[j].kind = "cdata start"
                              /\ \A k \in j..i : s[k].kind # "cdata end"
     /\ \E j \in i..Len(s) : s[j].kind = "cdata end"}

\* The markup an XML parser sees.
Seen(s) == DOMAIN s \ InCdata(s)

\* C2, C3, C4 and C5 count in the text of the page, in CDATA as elsewhere.
Count(s, kinds, vals) ==
  Cardinality({i \in DOMAIN s : s[i].kind \in kinds /\ s[i].val \in vals})

Opening == {"open", "empty"}

Balanced(s, tag) == Count(s, Opening, {tag}) = Count(s, {"close"}, {tag})

\* Mutant: a header row has no cells.
CellsOfBody == {"td"}

Cells == {"td", "th"}

\* The first </tr> after it ends what the expression takes for a row.
RowEnd(s, i, j) == /\ i < j /\ s[j].kind = "close" /\ s[j].val = "tr"
                   /\ \A k \in i..(j - 1) : s[k].kind # "close" \/ s[k].val # "tr"

\* findall goes on after the row it has found.
HasEmptyRow(s) ==
  LET ends(i) == {j \in DOMAIN s : RowEnd(s, i, j)}
      starts(i, after) == i > after /\ s[i].kind \in Opening /\ s[i].val = "tr" /\ ends(i) # {}
      \* where the last row found up to i ends
      taken[i \in 0..Len(s)] ==
        IF i = 0 THEN 0
        ELSE LET before == taken[i - 1]
             IN  IF starts(i, before) THEN CHOOSE j \in ends(i) : TRUE ELSE before
  IN  \E i \in DOMAIN s :
        /\ starts(i, taken[i - 1])
        /\ \A j \in ends(i) : \A k \in i..j : s[k].kind \notin Opening \/ s[k].val \notin Cells

\* minidom: the tags outside CDATA nest, and no stray character is left.
WellFormed(s) ==
  LET hidden == InCdata(s)
      step(st, i) ==
        CASE i \in hidden -> st
          [] i \notin hidden /\ s[i].kind = "open" -> Append(st, s[i].val)
          [] i \notin hidden /\ s[i].kind = "close" ->
               IF st # <<>> /\ st[Len(st)] = s[i].val THEN SubSeq(st, 1, Len(st) - 1)
                                                      ELSE <<"broken">>
          [] OTHER -> st
      stack[i \in 0..Len(s)] == IF i = 0 THEN <<>> ELSE step(stack[i - 1], i)
  IN  /\ \A i \in DOMAIN s \ hidden :
           CASE s[i].kind \in {"bare &", "bare <"} -> FALSE
             [] s[i].kind = "cdata start" -> \E j \in i..Len(s) : s[j].kind = "cdata end"
             [] s[i].kind = "cdata end" -> i > 1 /\ (i - 1 \in hidden \/ s[i - 1].kind = "cdata start")
             [] OTHER -> TRUE
      /\ stack[Len(s)] = <<>>
-----------------------------------------------------------------------------
\* Mutant: what follows the rows of a table is taken for rows, too.
MdTablesOnce(lines) ==
  IF \E i \in 1..(Len(lines) - 1) : lines[i] \in {"row", "rule"} /\ lines[i + 1] = "rule"
    THEN 1 ELSE 0

\* A header row followed by a separator row; lines are "row", "rule" (which
\* starts with a | as well) or "other".
MdTables(lines) ==
  LET isRow(i) == lines[i] \in {"row", "rule"}
      head(i) == i < Len(lines) /\ isRow(i) /\ lines[i + 1] = "rule"
      \* the state before line i: outside, on the rule of a table, in its rows
      at[i \in 1..(Len(lines) + 1)] ==
        IF i = 1 THEN "out"
        ELSE LET before == at[i - 1]
             IN  CASE before = "out" /\ head(i - 1) -> "rule"
                   [] before = "rule" -> "rows"
                   [] before = "rows" /\ isRow(i - 1) -> "rows"
                   [] OTHER -> "out"
  IN  Cardinality({i \in DOMAIN lines : head(i) /\ at[i] = "out"})

\* source is a sequence of lines, or <<"none">> when the manifest has none.
PageErrors(title, source, fences, s) ==
  (IF Count(s, {"cdata start"}, {"none"}) # Count(s, {"cdata end"}, {"none"}) THEN {"C2"} ELSE {})
  \cup (IF Count(s, Opening, {"macro"}) > Count(s, Opening, {"body"}) THEN {"C3"} ELSE {})
  \cup (IF ~Balanced(s, "table") \/ ~Balanced(s, "tr") \/ HasEmptyRow(s) THEN {"C4"} ELSE {})
  \cup (IF \E tag \in {"ul", "ol", "li"} : ~Balanced(s, tag) THEN {"C5"} ELSE {})
  \cup (IF \E i \in Seen(s) : s[i].kind \in {"bare &", "bare <"} THEN {"C6"} ELSE {})
  \cup (IF title = "blank" THEN {"C7"} ELSE {})
  \cup (IF ~WellFormed(s) THEN {"C1"} ELSE {})
  \cup (IF source # <<"none">> /\ \/ MdTables(source) > Count(s, Opening, {"table"})
                                  \/ fences \div 2 > Count(s, Opening, {"macro"})
          THEN {"C8"} ELSE {})
-----------------------------------------------------------------------------
\* White space is a token "space", &nbsp; as well as a line end. One that
\* belongs to a text is the first of a run inside of it: what follows it in the
\* run collapses, and strip() takes what stands at the ends.
Texts == {"text", "escaped"}

Inner(s, i) == /\ i > 1 /\ s[i - 1].kind \in Texts
               /\ \E j \in i..Len(s) : /\ s[j].kind \in Texts
                                       /\ \A k \in i..(j - 1) : s[k].kind = "space"

Blank == Token("space", "none", {})

\* Mutant: attributes are not compared.
WrittenBare(t) ==
  CASE t.kind = "empty" -> <<Token("open", t.val, {}), Token("close", t.val, {})>>
    [] t.kind = "escaped" -> <<Token("open", t.val, {})>>
    [] t.kind = "space" -> <<Blank>>
    [] OTHER -> <<[t EXCEPT !.attrs = {}]>>

\* _canon: what a node is written as. An entity comes out as what it stands
\* for, white space as a blank; volatile attributes are dropped.
Written(t) ==
  LET plain == [t EXCEPT !.attrs = t.attrs \ Volatile]
  IN  CASE t.kind = "empty" -> <<[plain EXCEPT !.kind = "open"], Token("close", t.val, {})>>
        [] t.kind = "escaped" -> <<Token("open", t.val, {})>>
        [] t.kind = "space" -> <<Blank>>
        [] OTHER -> <<plain>>

CanonicalForm(s) ==
  LET hidden == InCdata(s)
  IN  FlattenSeq([i \in DOMAIN s |->
        IF i \in hidden THEN <<s[i]>>
        ELSE IF s[i].kind = "space" /\ ~Inner(s, i) THEN <<>>
        ELSE Written(s[i])])

Payloads(s) ==
  LET hidden == InCdata(s)
  IN  SelectSeq([i \in DOMAIN s |-> <<i \in hidden, s[i]>>],
                LAMBDA p : p[1] \/ p[2].kind \in {"cdata start", "cdata end"})

RoundTripErrors(sent, stored) ==
  IF ~WellFormed(sent) \/ ~WellFormed(stored) THEN {"parse"}
  ELSE (IF Payloads(sent) # Payloads(stored) THEN {"cdata"} ELSE {})
       \cup (IF CanonicalForm(sent) # CanonicalForm(stored) THEN {"drift"} ELSE {})
-----------------------------------------------------------------------------
\* The lines of a Markdown text of tables, code blocks (which may hold a row)
\* and prose, and its fences.
LinesOf(block) == CASE block = "table" -> <<"row", "rule", "row", "other">>
                    [] block = "code" -> <<"other", "row", "other", "other">>
                    [] OTHER -> <<"other", "other">>

MarkdownOf(blocks) == FlattenSeq([b \in DOMAIN blocks |-> LinesOf(blocks[b])])

FencesOf(blocks) == 2 * Cardinality({b \in DOMAIN blocks : blocks[b] = "code"})

\* The page node by node, its white space aside: what stands at the ends of a
\* text is not kept, even where a reader sees it (before an inline tag, or as
\* &nbsp;), and a run inside is one blank.
Nodes(s) ==
  LET hidden == InCdata(s)
      plain(i) == [s[i] EXCEPT !.attrs = @ \ Volatile]
      node(t) == [code |-> FALSE, t |-> t]
  IN  FlattenSeq([i \in DOMAIN s |->
        IF i \in hidden THEN <<[code |-> TRUE, t |-> s[i]]>>
        ELSE IF s[i].kind = "space" THEN IF Inner(s, i) THEN <<node(Blank)>> ELSE <<>>
        ELSE IF s[i].kind = "empty"
          THEN <<node([plain(i) EXCEPT !.kind = "open"]), node(Token("close", s[i].val, {}))>>
        ELSE <<node(plain(i))>>])
=============================================================================
