------------------------------ MODULE AcCoverage ------------------------------
(***************************************************************************)
(* skills/e2e-playwright/assets/e2echeck.py: is every acceptance criterion *)
(* of a card traced by a test? Specs is the set of the spec files, each    *)
(* the set of its tests; source is the sequence of the files the criteria  *)
(* are read from. Of a text only what the regular expressions find in it   *)
(* is kept. A line is a sequence of tokens, each at a column and of a      *)
(* length: the ids of criteria ("ac") and of cards ("card"), what only     *)
(* looks like one ("key": TC-028, UTF-8), "comma" (", "), "dash" (-- or ;) *)
(* and "word" (anything else).                                             *)
(***************************************************************************)
EXTENDS Naturals, Sequences

CONSTANTS Canonical, \* id as it is written (AC-001, AC-1) -> the canonical one
          Numbered,  \* the canonical ids in the order of their numbers
          KeyRest    \* key -> characters cut off its front -> what CARD_TOKEN_RE
                     \* finds in the rest: of GI-1, I-1, and then "none"

NoCard == "none"     \* --card is not given

ASSUME KeyRestAssumption ==
  \A key \in DOMAIN KeyRest : 0 \in DOMAIN KeyRest[key] /\ KeyRest[key][0] = key /\ key # NoCard

Forms == {"prefix",  \* [CARD - AC-1] ..., its line may name more criteria
          "table",   \* [CARD - ${tc.ac}] ..., acs is what the table resolves to
          "loose",   \* names a criterion, not in that form
          "card",    \* [CARD] ...
          "plain"}
-----------------------------------------------------------------------------
NormAc(ac) == Canonical[ac]

\* The last key of the label: "TC-028 - GI-52" is about GI-52.
CardOf(label) == label[Len(label)]

Resolved(test) == test.form = "table" => test.acs # {}

IllTitled(test) == test.form = "loose" \/ ~Resolved(test)

Claims(test) == test.form \in {"prefix", "table", "card"} /\ Resolved(test)

FileCards(file) == {CardOf(test.label) : test \in {t \in file : Claims(t)}}

Cards(specs) == UNION {FileCards(file) : file \in specs}

\* Titles count against the card that owns the file.
Foreign(file, card) == card # NoCard /\ card \notin FileCards(file)

Credited(specs, ac) ==
  {test \in UNION specs : /\ test.form \in {"prefix", "table"}
                          /\ ac \in {NormAc(a) : a \in test.acs}}

SpecErrors(specs, card) ==
  {<<"title", CardOf(test.label)>> :
     test \in {t \in UNION {f \in specs : ~Foreign(f, card)} : IllTitled(t)}}
  \cup (IF specs = {} THEN {<<"no spec files", NoCard>>} ELSE {})
-----------------------------------------------------------------------------
Ids(line) == {i \in DOMAIN line.tokens : line.tokens[i].kind = "ac"}

FOREIGN_LOOKBEHIND == 40

\* The tokens in the window of position i, in part or whole.
Window(line, i) ==
  {j \in 1..(i - 1) :
     line.tokens[j].at + line.tokens[j].len + FOREIGN_LOOKBEHIND > line.tokens[i].at}

\* The window starts at a column, which may be in the middle of a token.
Cut(line, i, j) ==
  LET first == line.tokens[j].at + FOREIGN_LOOKBEHIND
  IN  IF first >= line.tokens[i].at THEN 0 ELSE line.tokens[i].at - first

\* CARD_TOKEN_RE: what looks like a card, the ids of criteria included.
CardTokens == {"card", "ac", "key"}

LineTokens == {t \in [kind : STRING, val : STRING, at : Nat, len : Nat] :
                 t.kind \in CardTokens => t.val \in DOMAIN KeyRest}

\* The keys it finds in the window.
KeysSeen(line, i) ==
  {KeyRest[line.tokens[j].val][Cut(line, i, j)] :
     j \in {k \in Window(line, i) : line.tokens[k].kind \in CardTokens}} \ {NoCard}

ForeignIds(line, card) ==
  {i \in Ids(line) : card # NoCard /\ KeysSeen(line, i) \ {card} # {}}

Lines(source) == UNION {{source[f].lines[l] : l \in DOMAIN source[f].lines} :
                          f \in DOMAIN source}

NamedOn(lines, card) ==
  UNION {{NormAc(line.tokens[i].val) : i \in Ids(line) \ ForeignIds(line, card)} : line \in lines}

Named(source, card) == NamedOn(Lines(source), card)

\* Checkboxes are numbered through all the files.
Boxes(source) ==
  LET upTo[f \in 0..Len(source)] ==
        IF f = 0 THEN 0 ELSE upTo[f - 1] + source[f].boxes
  IN  upTo[Len(source)]

Found(source, card) ==
  IF Named(source, card) # {} THEN Named(source, card)
                              ELSE {Numbered[n] : n \in 1..Boxes(source)}

\* Deferred-ACs: what stands before the first separator is the list.
Separators == {"comma", "dash"}

Listing(line) ==
  {i \in DOMAIN line.tokens :
     \A k \in 1..i : line.tokens[k].kind \notin Separators}

Listed(line) == {NormAc(line.tokens[i].val) : i \in Ids(line) \cap Listing(line)}

\* Something follows the separator.
Reasoned(line) == \E i \in DOMAIN line.tokens : i \notin Listing(line) /\ i < Len(line.tokens)

Declarations(source) == {line \in Lines(source) : line.declares = "yes"}

Deferred(source) == UNION {Listed(line) : line \in Declarations(source)}

SourceErrors(source) ==
  {<<"deferral", NoCard>> : line \in {l \in Declarations(source) :
                                        Listed(l) = {} \/ ~Reasoned(l)}}
-----------------------------------------------------------------------------
\* Mutant: the tests of every card count.
MineAll(tests, card) == tests

Mine(tests, card) ==
  {test \in tests : card = NoCard \/ CardOf(test.label) = card}

Active(specs, card, ac) ==
  {test \in Mine(Credited(specs, ac), card) : test.skip = "no"}

Skips(specs, card, ac) ==
  {test \in Mine(Credited(specs, ac), card) : test.skip = "yes"}

\* Mutant: a skipped test needs no reason.
InOrderSkipped(specs, source, card, ac) ==
  \/ Active(specs, card, ac) \cup Skips(specs, card, ac) # {}
  \/ ac \in Deferred(source)

\* A criterion is in order: run by a test, deferred, or skipped for a reason.
InOrder(specs, source, card, ac) ==
  \/ Active(specs, card, ac) # {}
  \/ ac \in Deferred(source)
  \/ /\ Skips(specs, card, ac) # {}
     /\ \A test \in Skips(specs, card, ac) : test.reason = "yes"

UnknownCard(specs, card) ==
  card # NoCard /\ Cards(specs) # {} /\ card \notin Cards(specs)

Errors(specs, source, card) ==
  SpecErrors(specs, card) \cup SourceErrors(source)
  \cup (IF UnknownCard(specs, card) THEN {<<"card not found", card>>} ELSE {})
  \cup {<<"criterion", ac>> : ac \in {a \in Found(source, card) :
                                         ~InOrder(specs, source, card, a)}}

Passes(specs, source, card) == Errors(specs, source, card) = {}
-----------------------------------------------------------------------------
\* What a reader of the source owes tests for: an id is another card's only
\* when the id of that card stands just before it on the line, and what a
\* deferral lists has been named elsewhere.
OtherCards(line, card) ==
  {i \in Ids(line) : /\ card # NoCard
                     /\ \E j \in Window(line, i) : /\ line.tokens[j].kind = "card"
                                                  /\ line.tokens[j].val # card}

Prose(source) == Lines(source) \ Declarations(source)

OwesByName(source, card) ==
  UNION {{NormAc(line.tokens[i].val) : i \in Ids(line) \ OtherCards(line, card)} :
           line \in Prose(source)}

Owes(source, card) ==
  IF OwesByName(source, card) # {} THEN OwesByName(source, card)
                                   ELSE {Numbered[n] : n \in 1..Boxes(source)}

\* Where there is a card: in the window of a criterion nothing looks like a
\* card but the ids of cards, none of them cut. And no deferral alone among
\* checkboxes.
Careful(source, card) ==
  /\ card # NoCard =>
       \A line \in Lines(source) : \A i \in Ids(line) : \A j \in Window(line, i) :
         line.tokens[j].kind \in CardTokens => line.tokens[j].kind = "card" /\ Cut(line, i, j) = 0
  /\ Named(source, card) # {} => NamedOn(Prose(source), card) # {}

\* The e2e test that stands for a criterion, or the word that there is none.
Traced(specs, source, card, ac) ==
  \/ \E file \in specs : \E test \in file :
        /\ test.form \in {"prefix", "table"} /\ ac \in {NormAc(a) : a \in test.acs}
        /\ card # NoCard => CardOf(test.label) = card
        /\ test.skip = "no" \/ test.reason = "yes"
  \/ ac \in Deferred(source)

\* Every criterion the source owes is traced once the check passes.
NoGap(specs, source, card) ==
  Passes(specs, source, card) =>
    \A ac \in Owes(source, card) : Traced(specs, source, card, ac)
=============================================================================
