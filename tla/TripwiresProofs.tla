--------------------------- MODULE TripwiresProofs ---------------------------
(***************************************************************************)
(* What tripwires say, for any input: the tests of other cards, a pass     *)
(* that leaves no gap (e2echeck.py), the ways out of the core              *)
(* (structurecheck.py), the wiring of the audit middleware                 *)
(* (auditcheck.py), a page that arrives whole and comes back as it went    *)
(* (pubcheck.py). By induction on the behaviour it is only that what they  *)
(* read keeps its type; the rest is about the expressions they search a    *)
(* text with. Those scan it from left to right, so their lemmas are by     *)
(* induction on the place in the text: IntervalInduction takes a set for   *)
(* the predicate, and Recursion gives the function a scan computes.        *)
(***************************************************************************)
EXTENDS Tripwires, FiniteSetTheorems, SequenceTheorems, WellFoundedInduction, TLAPS

\* A text somebody deletes from is a text of the same tokens.
LEMMA WithoutIsTyped ==
  ASSUME NEW T, NEW s \in Seq(T), NEW i \in DOMAIN s
  PROVE  Without(s, i) \in Seq(T)
<1>1. SubSeq(s, 1, i - 1) \in Seq(T) /\ SubSeq(s, i + 1, Len(s)) \in Seq(T)
  <2>1. Len(s) \in Nat /\ i \in 1..Len(s) /\ \A j \in 1..Len(s) : s[j] \in T
    OBVIOUS
  <2>2. /\ 1 \in Int /\ i - 1 \in Int /\ i + 1 \in Int /\ Len(s) \in Int
        /\ \A j \in 1..(i - 1) : s[j] \in T
        /\ \A j \in (i + 1)..Len(s) : s[j] \in T
    BY <2>1
  <2> QED BY <2>2, SubSeqProperties, Zenon
<1> QED BY <1>1, ConcatProperties, Zenon DEF Without

\* So is one somebody inserts into.
LEMMA IntoIsTyped ==
  ASSUME NEW T, NEW s \in Seq(T), NEW i \in DOMAIN s, NEW t \in T
  PROVE  Into(s, i, t) \in Seq(T)
<1>1. SubSeq(s, 1, i - 1) \in Seq(T) /\ SubSeq(s, i, Len(s)) \in Seq(T) /\ <<t>> \in Seq(T)
  <2>1. Len(s) \in Nat /\ i \in 1..Len(s) /\ \A j \in 1..Len(s) : s[j] \in T
    OBVIOUS
  <2>2. /\ 1 \in Int /\ i - 1 \in Int /\ i \in Int /\ Len(s) \in Int
        /\ \A j \in 1..(i - 1) : s[j] \in T
        /\ \A j \in i..Len(s) : s[j] \in T
    BY <2>1
  <2>3. <<t>> \in Seq(T)
    OBVIOUS
  <2> QED BY <2>2, <2>3, SubSeqProperties, Zenon
<1> QED BY <1>1, ConcatProperties, Zenon DEF Into

\* A setup stays one however it is edited, and so do the calls.
LEMMA SetupIsTyped ==
  ASSUME NEW setup \in Seq(UseStatements), NEW i \in DOMAIN setup
  PROVE  /\ \A s \in Statements : [setup EXCEPT ![i] = s] \in Seq(UseStatements)
         /\ Without(setup, i) \in Seq(UseStatements)
         /\ Into(setup, i, setup[i]) \in Seq(UseStatements)
<1>1. Statements \subseteq UseStatements
  BY TripwiresAssumption DEF TripwiresAssumption
<1>2. setup[i] \in UseStatements
  OBVIOUS
<1>3. \A s \in Statements : [setup EXCEPT ![i] = s] \in Seq(UseStatements)
  BY <1>1
<1> QED BY <1>2, <1>3, WithoutIsTyped, IntoIsTyped

\* A call stays a call however its arguments are edited.
LEMMA CallsAreTyped ==
  ASSUME NEW c \in Calls, NEW a \in Arguments
  PROVE  /\ [c EXCEPT !.args = Append(@, a)] \in Calls
         /\ \A i \in DOMAIN c.args : [c EXCEPT !.args = Without(@, i)] \in Calls
         /\ \A i \in DOMAIN c.args : [c EXCEPT !.args[i] = a] \in Calls
         /\ [c EXCEPT !.lines = "many"] \in Calls
<1>1. a \in ArgumentTexts
  BY TripwiresAssumption DEF TripwiresAssumption
<1>2. /\ c.needle \in Needles /\ c.args \in Seq(ArgumentTexts) /\ c.lines \in {"one", "many"}
      /\ c = [needle |-> c.needle, args |-> c.args, lines |-> c.lines]
  BY DEF Calls
<1>3. \A args \in Seq(ArgumentTexts) : [c EXCEPT !.args = args] \in Calls
  BY DEF Calls
<1>4. Append(c.args, a) \in Seq(ArgumentTexts)
  BY <1>1, <1>2
<1>5. \A i \in DOMAIN c.args : /\ Without(c.args, i) \in Seq(ArgumentTexts)
                              /\ [c.args EXCEPT ![i] = a] \in Seq(ArgumentTexts)
  BY <1>1, <1>2, WithoutIsTyped
<1>6. [c EXCEPT !.lines = "many"] \in Calls
  BY DEF Calls
<1> QED BY <1>3, <1>4, <1>5, <1>6

\* What the tripwires read is what they are written for, however it is edited.
THEOREM TypeInvariant == Spec => []TypeOK
<1>1. Init => TypeOK
  BY TripwiresAssumption DEF TripwiresAssumption, Init, TypeOK
<1>2. TypeOK /\ [Next]_vars => TypeOK'
  <2> SUFFICES ASSUME TypeOK, [Next]_vars PROVE TypeOK'
    OBVIOUS
  <2>1. CASE EditSetup
    <3>1. svc.setup \in Seq(UseStatements)
      BY DEF TypeOK, ServiceTexts
    <3>2. \A setup \in Seq(UseStatements) : [svc EXCEPT !.setup = setup] \in ServiceTexts
      BY DEF TypeOK, ServiceTexts
    <3>3. svc' \in ServiceTexts
      BY <2>1, <3>1, <3>2, SetupIsTyped DEF EditSetup
    <3> QED BY <2>1, <3>3 DEF TypeOK, EditSetup, e2e, page
  <2>2. CASE EditCall
    <3>1. svc.calls \subseteq Calls
      BY DEF TypeOK, ServiceTexts
    <3>2. \A calls \in SUBSET Calls : [svc EXCEPT !.calls = calls] \in ServiceTexts
      BY DEF TypeOK, ServiceTexts
    <3>3. PICK c \in svc.calls, a \in Arguments :
            \/ \E d \in {[c EXCEPT !.args = Append(@, a)], [c EXCEPT !.lines = "many"]}
                       \cup {[c EXCEPT !.args = Without(@, i)] : i \in DOMAIN c.args}
                       \cup {[c EXCEPT !.args[i] = a] : i \in DOMAIN c.args} :
                 svc' = [svc EXCEPT !.calls = (svc.calls \ {c}) \cup {d}]
            \/ svc' = [svc EXCEPT !.calls = svc.calls \ {c}]
      BY <2>2 DEF EditCall
    <3>4. \A d \in {[c EXCEPT !.args = Append(@, a)], [c EXCEPT !.lines = "many"]}
                   \cup {[c EXCEPT !.args = Without(@, i)] : i \in DOMAIN c.args}
                   \cup {[c EXCEPT !.args[i] = a] : i \in DOMAIN c.args} : d \in Calls
      BY <3>1, CallsAreTyped
    <3>5. svc' \in ServiceTexts
      BY <3>1, <3>2, <3>3, <3>4
    <3> QED BY <2>2, <3>5 DEF TypeOK, EditCall, e2e, page
  <2>3. CASE EditService
    BY <2>3 DEF TypeOK, EditService, e2e, page, ServiceTexts, YesNo
  <2>4. CASE Convert
    <3>1. sent \in Seq(Tokens) /\ Markup \subseteq Tokens
      BY TripwiresAssumption DEF TripwiresAssumption, TypeOK
    <3>2. sent' \in Seq(Tokens)
      BY <2>4, <3>1, WithoutIsTyped, IntoIsTyped DEF Convert
    <3> QED BY <2>4, <3>2 DEF TypeOK, Convert, e2e
  <2>5. CASE Store
    <3>1. ASSUME NEW t \in Tokens, NEW new \in {"macro-id", "local-id"}
          PROVE  [t EXCEPT !.attrs = @ \cup {new}] \in Tokens
      BY DEF Tokens, Volatile
    <3>2. ASSUME NEW new \in {"macro-id", "local-id"}
          PROVE  [i \in DOMAIN sent |->
                    IF sent[i].kind \in Opening /\ i \notin InCdata(sent)
                      THEN [sent[i] EXCEPT !.attrs = @ \cup {new}] ELSE sent[i]] \in Seq(Tokens)
      <4>1. sent \in Seq(Tokens) /\ \A i \in DOMAIN sent : sent[i] \in Tokens
        BY DEF TypeOK
      <4> DEFINE kept(t, i) == IF t.kind \in Opening /\ i \notin InCdata(sent)
                                 THEN [t EXCEPT !.attrs = @ \cup {new}] ELSE t
      <4>2. \A t \in Tokens : \A i : kept(t, i) \in Tokens
        BY <3>1
      <4> HIDE DEF kept
      <4>3. [i \in DOMAIN sent |-> kept(sent[i], i)] \in Seq(Tokens)
        BY <4>1, <4>2
      <4> QED BY <4>3 DEF kept
    <3>3. stored' \subseteq Seq(Tokens)
      BY <2>5, <3>2 DEF Store
    <3> QED BY <2>5, <3>3 DEF TypeOK, Store, e2e
  <2>6. CASE Alter
    <3>1. stored \subseteq Seq(Tokens) /\ Markup \subseteq Tokens
      BY TripwiresAssumption DEF TripwiresAssumption, TypeOK
    <3>2. ASSUME NEW t \in Tokens PROVE [t EXCEPT !.attrs = {}] \in Tokens
      BY DEF Tokens
    <3>3. ASSUME NEW s \in stored, NEW i \in DOMAIN s PROVE [s EXCEPT ![i].attrs = {}] \in Seq(Tokens)
      <4>1. s \in Seq(Tokens) /\ [s[i] EXCEPT !.attrs = {}] \in Tokens
        BY <3>1, <3>2
      <4>2. [s EXCEPT ![i].attrs = {}] = [s EXCEPT ![i] = [s[i] EXCEPT !.attrs = {}]]
        OBVIOUS
      <4> QED BY <4>1, <4>2
    <3>4. PICK s \in stored : \E i \in DOMAIN s :
            \/ stored' = {Without(s, i)}
            \/ stored' = {[s EXCEPT ![i].attrs = {}]}
            \/ \E t \in Markup : stored' = {Into(s, i, t)}
      BY <2>6 DEF Alter
    <3>5. PICK i \in DOMAIN s :
            \/ stored' = {Without(s, i)}
            \/ stored' = {[s EXCEPT ![i].attrs = {}]}
            \/ \E t \in Markup : stored' = {Into(s, i, t)}
      BY <3>4
    <3>6. s \in Seq(Tokens)
      BY <3>1
    <3>7. stored' \subseteq Seq(Tokens)
      <4>1. CASE stored' = {Without(s, i)}
        <5>1. Without(s, i) \in Seq(Tokens)
          BY <3>6, WithoutIsTyped
        <5> QED BY <4>1, <5>1
      <4>2. CASE stored' = {[s EXCEPT ![i].attrs = {}]}
        BY <3>3, <4>2
      <4>3. CASE \E t \in Markup : stored' = {Into(s, i, t)}
        <5>1. PICK t \in Tokens : stored' = {Into(s, i, t)}
          BY <3>1, <4>3
        <5>2. Into(s, i, t) \in Seq(Tokens)
          BY <3>6, IntoIsTyped
        <5> QED BY <5>1, <5>2
      <4> QED BY <3>5, <4>1, <4>2, <4>3
    <3> QED BY <2>6, <3>7 DEF TypeOK, Alter, e2e
  <2>7. CASE AddTests \/ AddImport \/ MoveCode \/ UNCHANGED vars
    BY <2>7 DEF TypeOK, AddTests, AddImport, MoveCode, vars, e2e, page
  <2> QED BY <2>1, <2>2, <2>3, <2>4, <2>5, <2>6, <2>7 DEF Next
<1> QED BY <1>1, <1>2, PTL DEF Spec
-----------------------------------------------------------------------------
\* Credit is counted against the card that claims it: a test that counts for
\* a criterion of the card makes its file one of the card's.
LEMMA CreditIsClaimed ==
  ASSUME NEW file, NEW test \in file, NEW ac,
         test.form \in {"prefix", "table"}, ac \in {NormAc(a) : a \in test.acs}
  PROVE  CardOf(test.label) \in FileCards(file)
<1>1. test.acs # {}
  OBVIOUS
<1>2. Claims(test)
  BY <1>1 DEF Claims, Resolved
<1> QED BY <1>2 DEF FileCards

\* Files of other cards change none of the errors.
LEMMA ForeignFilesAddNothing ==
  ASSUME NEW few, NEW more, few \subseteq more, NEW criteria, NEW key, key # NoCard,
         key \in Cards(few),
         \A file \in more \ few : key \notin FileCards(file)
  PROVE  Errors(more, criteria, key) = Errors(few, criteria, key)
<1>1. few # {} /\ more # {}
  BY DEF Cards
<1>2. SpecErrors(more, key) = SpecErrors(few, key)
  <2>1. {f \in more : ~Foreign(f, key)} = {f \in few : ~Foreign(f, key)}
    BY DEF Foreign
  <2> QED BY <1>1, <2>1 DEF SpecErrors
<1>3. ~UnknownCard(more, key) /\ ~UnknownCard(few, key)
  BY DEF UnknownCard, Cards
<1>4. ASSUME NEW ac
      PROVE  InOrder(more, criteria, key, ac) <=> InOrder(few, criteria, key, ac)
  <2>1. Mine(Credited(few, ac), key) \subseteq Mine(Credited(more, ac), key)
    BY DEF Mine, Credited
  <2>2. ASSUME NEW test \in Mine(Credited(more, ac), key)
        PROVE  test \in Mine(Credited(few, ac), key)
    <3>1. PICK file \in more : test \in file
      BY DEF Mine, Credited
    <3>2. /\ test.form \in {"prefix", "table"} /\ ac \in {NormAc(a) : a \in test.acs}
          /\ CardOf(test.label) = key
      BY DEF Mine, Credited
    <3>3. key \in FileCards(file)
      BY <3>1, <3>2, CreditIsClaimed
    <3>4. file \in few
      BY <3>1, <3>3
    <3> QED BY <3>1, <3>2, <3>4 DEF Mine, Credited
  <2>3. Mine(Credited(more, ac), key) = Mine(Credited(few, ac), key)
    BY <2>1, <2>2
  <2> QED BY <2>3 DEF InOrder, Active, Skips
<1> QED BY <1>2, <1>3, <1>4 DEF Errors

\* Every step of any tool keeps the verdict on a card whose tests it does not
\* touch (e2echeck.py, main).
THEOREM OtherCardsDoNotMatterHolds == Spec => OtherCardsDoNotMatter
<1>1. ASSUME [Next]_vars,
             card # NoCard, card \in Cards(specs),
             \A file \in specs' \ specs : card \notin FileCards(file)
      PROVE  \/ Passes(specs', source, card) <=> Passes(specs, source, card)
             \/ UNCHANGED specs
  <2>1. CASE AddTests
    <3>1. specs \subseteq specs'
      BY <2>1 DEF AddTests
    <3>2. Errors(specs', source, card) = Errors(specs, source, card)
      BY <1>1, <3>1, ForeignFilesAddNothing
    <3> QED BY <3>2 DEF Passes
  <2>2. CASE ~AddTests
    <3>1. UNCHANGED specs
      BY <1>1, <2>2 DEF Next, vars, e2e, AddImport, MoveCode, EditSetup, EditCall, EditService,
                        Convert, Store, Alter
    <3> QED BY <3>1
  <2> QED BY <2>1, <2>2
<1>2. [Next]_vars => [card # NoCard /\ card \in Cards(specs)
                      /\ (\A file \in specs' \ specs : card \notin FileCards(file))
                      => (Passes(specs', source, card) <=> Passes(specs, source, card))]_specs
  BY <1>1
<1> QED BY <1>2, PTL DEF Spec, OtherCardsDoNotMatter
-----------------------------------------------------------------------------
Clean(line) ==
  \A i \in Ids(line) : \A j \in Window(line, i) :
    line.tokens[j].kind \in CardTokens => line.tokens[j].kind = "card" /\ Cut(line, i, j) = 0

\* In a line where only ids of cards look like one, and none is cut, the
\* window sees of a key what the author wrote.
LEMMA KeyIsSeenWhole ==
  ASSUME NEW line, line.tokens \in Seq(LineTokens), Clean(line),
         NEW i \in Ids(line), NEW j \in Window(line, i), line.tokens[j].kind \in CardTokens
  PROVE  /\ line.tokens[j].kind = "card"
         /\ KeyRest[line.tokens[j].val][Cut(line, i, j)] = line.tokens[j].val
         /\ line.tokens[j].val # NoCard
<1>1. line.tokens[j].kind = "card" /\ Cut(line, i, j) = 0
  BY DEF Clean
<1>2. line.tokens[j] \in LineTokens
  <2>1. i \in 1..Len(line.tokens) /\ j \in 1..(i - 1) /\ Len(line.tokens) \in Nat
    BY DEF Ids, Window
  <2>2. j \in 1..Len(line.tokens)
    BY <2>1
  <2> QED BY <2>2, ElementOfSeq
<1>3. line.tokens[j].val \in DOMAIN KeyRest
  BY <1>2 DEF LineTokens
<1> QED BY <1>1, <1>3, KeyRestAssumption, Zenon DEF KeyRestAssumption

\* In such a line an id is foreign exactly when another card stands before it.
LEMMA ForeignIsAnotherCards ==
  ASSUME NEW line, NEW key, line.tokens \in Seq(LineTokens), key # NoCard => Clean(line)
  PROVE  ForeignIds(line, key) = OtherCards(line, key)
<1>1. ASSUME NEW i \in ForeignIds(line, key) PROVE i \in OtherCards(line, key)
  <2>1. i \in Ids(line) /\ key # NoCard /\ KeysSeen(line, i) \ {key} # {}
    BY DEF ForeignIds
  <2>2. PICK j \in Window(line, i) :
          /\ line.tokens[j].kind \in CardTokens
          /\ KeyRest[line.tokens[j].val][Cut(line, i, j)] # key
    BY <2>1 DEF KeysSeen
  <2>3. line.tokens[j].kind = "card" /\ line.tokens[j].val # key
    BY <2>1, <2>2, KeyIsSeenWhole
  <2> QED BY <2>1, <2>3 DEF OtherCards
<1>2. ASSUME NEW i \in OtherCards(line, key) PROVE i \in ForeignIds(line, key)
  <2>1. i \in Ids(line) /\ key # NoCard
    BY DEF OtherCards
  <2>2. PICK j \in Window(line, i) : line.tokens[j].kind = "card" /\ line.tokens[j].val # key
    BY DEF OtherCards
  <2>3. line.tokens[j].kind \in CardTokens
    BY <2>2 DEF CardTokens
  <2>4. line.tokens[j].val \in KeysSeen(line, i)
    BY <2>1, <2>3, KeyIsSeenWhole DEF KeysSeen
  <2> QED BY <2>1, <2>2, <2>4 DEF ForeignIds
<1> QED BY <1>1, <1>2

\* Whatever a careful source owes is found in it.
LEMMA OwedIsFound ==
  ASSUME NEW criteria, NEW key, Careful(criteria, key),
         \A line \in Lines(criteria) : line.tokens \in Seq(LineTokens)
  PROVE  Owes(criteria, key) \subseteq Found(criteria, key)
<1>1. OwesByName(criteria, key) = NamedOn(Prose(criteria), key)
  <2>1. ASSUME NEW line \in Prose(criteria) PROVE ForeignIds(line, key) = OtherCards(line, key)
    <3>1. line \in Lines(criteria)
      BY DEF Prose
    <3> QED BY <3>1, ForeignIsAnotherCards DEF Careful, Clean
  <2> QED BY <2>1 DEF OwesByName, NamedOn
<1>3. NamedOn(Prose(criteria), key) \subseteq Named(criteria, key)
  BY DEF NamedOn, Named, Prose
<1>4. CASE OwesByName(criteria, key) # {}
  BY <1>1, <1>3, <1>4 DEF Owes, Found
<1>5. CASE OwesByName(criteria, key) = {}
  <2>1. Named(criteria, key) = {}
    BY <1>1, <1>5 DEF Careful
  <2> QED BY <1>5, <2>1 DEF Owes, Found
<1> QED BY <1>4, <1>5

\* What the check takes to be in order is traced.
LEMMA InOrderIsTraced ==
  ASSUME NEW tests, NEW criteria, NEW key, NEW ac, InOrder(tests, criteria, key, ac)
  PROVE  Traced(tests, criteria, key, ac)
<1>1. ASSUME NEW test \in Mine(Credited(tests, ac), key), test.skip = "no" \/ test.reason = "yes"
      PROVE  Traced(tests, criteria, key, ac)
  <2>1. PICK file \in tests : test \in file
    BY DEF Mine, Credited
  <2>2. /\ test.form \in {"prefix", "table"} /\ ac \in {NormAc(a) : a \in test.acs}
        /\ key # NoCard => CardOf(test.label) = key
    BY DEF Mine, Credited
  <2> QED BY <1>1, <2>1, <2>2 DEF Traced
<1>2. CASE Active(tests, key, ac) # {}
  BY <1>1, <1>2 DEF Active
<1>3. CASE ac \in Deferred(criteria)
  BY <1>3 DEF Traced
<1>4. CASE /\ Skips(tests, key, ac) # {}
           /\ \A test \in Skips(tests, key, ac) : test.reason = "yes"
  BY <1>1, <1>4 DEF Skips
<1> QED BY <1>2, <1>3, <1>4 DEF InOrder

\* A pass of e2echeck.py leaves no criterion of a careful source without a
\* test that runs, a skip with a reason or a deferral.
THEOREM PassMeansTracedHolds == Spec => []PassMeansTraced
<1>1. source \in Sources => PassMeansTraced
  <2> SUFFICES ASSUME source \in Sources, Careful(source, card), Passes(specs, source, card),
                      NEW ac \in Owes(source, card)
               PROVE  Traced(specs, source, card, ac)
    BY DEF PassMeansTraced, NoGap
  <2>1. ac \in Found(source, card)
    <3>1. \A line \in Lines(source) : line.tokens \in Seq(LineTokens)
      BY TripwiresAssumption DEF TripwiresAssumption
    <3> QED BY <3>1, OwedIsFound
  <2>2. InOrder(specs, source, card, ac)
    <3> SUFFICES ASSUME ~InOrder(specs, source, card, ac) PROVE FALSE
      OBVIOUS
    <3>1. <<"criterion", ac>> \in Errors(specs, source, card)
      BY <2>1 DEF Errors
    <3> QED BY <3>1 DEF Passes
  <2> QED BY <2>2, InOrderIsTraced
<1>2. TypeOK => source \in Sources
  BY DEF TypeOK
<1> QED BY <1>1, <1>2, TypeInvariant, PTL
-----------------------------------------------------------------------------
\* structurecheck.py looks at direct imports only: from inside a layer of the
\* core one import leads to no layer outward of it.
LEMMA ImportStaysInside ==
  ASSUME NEW t, Conforms(t), t.module # "none",
         NEW layer \in {"domain", "usecase"},
         NEW r \in Packages, LayerOf[r] \notin Outward(layer), LayerOf[r] # "other",
         NEW q \in t.imports[r] \cap Packages
  PROVE  LayerOf[q] \notin Outward(layer)
<1>1. LayerOf[r] \in {"domain", "usecase"} /\ (layer = "domain" => LayerOf[r] # "usecase")
  BY StructureAssumption DEF StructureAssumption, Outward
<1>2. DependencyRule(t) = {} /\ r \in InLayer({"domain", "usecase"})
  BY <1>1 DEF Conforms, InLayer
<1>3. LayerOf[q] \notin Outward(LayerOf[r])
  <2> SUFFICES ASSUME LayerOf[q] \in Outward(LayerOf[r]) PROVE FALSE
    OBVIOUS
  <2>1. <<r, q>> \in DependencyRule(t)
    BY <1>2 DEF DependencyRule
  <2> QED BY <1>2, <2>1
<1> QED BY <1>1, <1>3 DEF Outward

\* What a package imports, and what that is linked with, it is linked with.
LEMMA LinksAreClosed ==
  ASSUME NEW t, NEW p, NEW r \in LinkedWith(t, p) \cup {p}
  PROVE  t.imports[r] \cap Packages \subseteq LinkedWith(t, p)
BY DEF LinkedWith

\* In a repository structurecheck.py accepts, a chain of imports of any length
\* that leads out of the core leads over a package outside of the layers
\* (structurecheck.py, check_dependency_rule).
THEOREM CoreLeavesOverOthersHolds == Spec => []CoreLeavesOverOthers
<1>1. CoreLeavesOverOthers
  <2> SUFFICES ASSUME Conforms(tree), tree.module # "none",
                      NEW p \in InLayer({"domain", "usecase"}), NEW q \in LinkedWith(tree, p),
                      LayerOf[q] \in Outward(LayerOf[p])
               PROVE  \E r \in LinkedWith(tree, p) : LayerOf[r] = "other" /\ q \in LinkedWith(tree, r)
    BY DEF CoreLeavesOverOthers, LeavesOverOthers, InLayer, LinkedWith
  <2> DEFINE over(x) == \E r \in LinkedWith(tree, p) :
                          LayerOf[r] = "other" /\ (x = r \/ x \in LinkedWith(tree, r))
             reached == {x \in LinkedWith(tree, p) : LayerOf[x] \notin Outward(LayerOf[p]) \/ over(x)}
  <2>1. /\ p \in Packages /\ LayerOf[p] \in {"domain", "usecase"}
        /\ LayerOf[p] \notin Outward(LayerOf[p]) /\ LayerOf[p] # "other"
        /\ "other" \notin Outward(LayerOf[p])
    BY DEF InLayer, Outward
  <2>2. LinkedWith(tree, p) \subseteq Packages
    BY DEF LinkedWith
  <2>3. ASSUME NEW x \in reached \cup {p}, NEW y \in tree.imports[x] \cap Packages
        PROVE  y \in reached
    <3>1. y \in LinkedWith(tree, p) /\ x \in Packages
      BY <2>1, <2>2, LinksAreClosed
    <3>2. CASE over(x) /\ x \in LinkedWith(tree, p)
      <4>1. PICK r \in LinkedWith(tree, p) : LayerOf[r] = "other" /\ x \in LinkedWith(tree, r) \cup {r}
        BY <3>2
      <4>2. y \in LinkedWith(tree, r)
        BY <4>1, LinksAreClosed
      <4> QED BY <3>1, <4>1, <4>2
    <3>3. CASE LayerOf[x] \notin Outward(LayerOf[p]) /\ LayerOf[x] # "other"
      <4>1. LayerOf[y] \notin Outward(LayerOf[p])
        BY <2>1, <3>1, <3>3, ImportStaysInside
      <4> QED BY <3>1, <4>1
    <3>4. CASE LayerOf[x] = "other" /\ x \in LinkedWith(tree, p)
      BY <3>2, <3>4
    <3> QED BY <2>1, <3>2, <3>3, <3>4
  <2>4. q \in reached
    <3>1. reached \in SUBSET Packages
      BY <2>2
    <3>2. \A x \in reached \cup {p} : tree.imports[x] \cap Packages \subseteq reached
      BY <2>3
    <3> HIDE DEF reached
    <3> QED BY <3>1, <3>2 DEF LinkedWith
  <2>5. PICK r \in LinkedWith(tree, p) : LayerOf[r] = "other" /\ (q = r \/ q \in LinkedWith(tree, r))
    BY <2>4
  <2> QED BY <2>1, <2>5
<1> QED BY <1>1, PTL
-----------------------------------------------------------------------------
\* Induction as a statement about sets.
LEMMA SetInduction ==
  ASSUME NEW S, 0 \in S, \A n \in Nat : n \in S => n + 1 \in S
  PROVE  Nat \subseteq S
<1> SUFFICES ASSUME Nat \ S # {} PROVE FALSE
  OBVIOUS
<1>1. PICK m \in Nat \ S : \A n \in Nat \ S : ~(<<n, m>> \in OpToRel(<, Nat))
  BY NatLessThanWellFounded, WFMin
<1>2. m - 1 \in Nat /\ m - 1 < m /\ (m - 1) + 1 = m
  OBVIOUS
<1>3. <<m - 1, m>> \in OpToRel(<, Nat)
  BY <1>2 DEF OpToRel
<1> QED BY <1>1, <1>2, <1>3

\* Induction on the place in a text of n.
LEMMA IntervalInduction ==
  ASSUME NEW S, NEW n \in Nat, 0 \in S, \A i \in 1..n : i - 1 \in S => i \in S
  PROVE  0..n \subseteq S
<1> DEFINE T == {i \in Nat : i <= n => i \in S}
<1>1. 0 \in T
  OBVIOUS
<1>2. ASSUME NEW i \in Nat, i \in T PROVE i + 1 \in T
  <2>1. CASE i + 1 <= n
    <3>1. i + 1 \in 1..n /\ (i + 1) - 1 = i /\ i <= n
      BY <2>1
    <3> QED BY <1>2, <3>1
  <2> QED BY <2>1
<1>3. Nat \subseteq T
  <2> HIDE DEF T
  <2> QED BY <1>1, <1>2, SetInduction
<1> QED BY <1>3

\* What each step makes of the one before is a function on 0..n.
Iterates(g, n, base, step) == g[0] = base /\ \A i \in 1..n : g[i] = step[i][g[i - 1]]

\* A loop over a text computes one value for each place.
LEMMA Recursion ==
  ASSUME NEW T, NEW n \in Nat, NEW base \in T, NEW step \in [1..n -> [T -> T]]
  PROVE  \E g \in [0..n -> T] : Iterates(g, n, base, step)
<1> DEFINE Good == {m \in 0..n : \E g \in [0..m -> T] : Iterates(g, m, base, step)}
<1>1. 0 \in Good
  <2> DEFINE g == [i \in 0..0 |-> base]
  <2>1. g \in [0..0 -> T]
    OBVIOUS
  <2>2. Iterates(g, 0, base, step)
    BY DEF Iterates
  <2>3. 0 \in 0..n
    OBVIOUS
  <2> HIDE DEF g
  <2> QED BY <2>1, <2>2, <2>3
<1>2. ASSUME NEW m \in 1..n, m - 1 \in Good PROVE m \in Good
  <2>1. PICK g \in [0..(m - 1) -> T] : Iterates(g, m - 1, base, step)
    BY <1>2
  <2> DEFINE more == [i \in 0..m |-> IF i < m THEN g[i] ELSE step[m][g[m - 1]]]
  <2>2. step[m][g[m - 1]] \in T
    <3>1. step[m] \in [T -> T] /\ g[m - 1] \in T
      OBVIOUS
    <3> QED BY <3>1
  <2>3. more \in [0..m -> T]
    BY <2>2
  <2>4. more[0] = base
    BY <2>1 DEF Iterates
  <2>5. ASSUME NEW i \in 1..m PROVE more[i] = step[i][more[i - 1]]
    <3>1. CASE i < m
      BY <2>1, <3>1 DEF Iterates
    <3>2. CASE i = m
      BY <3>2
    <3> QED BY <3>1, <3>2
  <2> HIDE DEF more
  <2>6. Iterates(more, m, base, step)
    BY <2>4, <2>5 DEF Iterates
  <2>7. m \in 0..n
    OBVIOUS
  <2> QED BY <2>3, <2>6, <2>7
<1>3. 0..n \subseteq Good
  <2> HIDE DEF Good
  <2> QED BY <1>1, <1>2, IntervalInduction
<1> QED BY <1>3

IsConcat(w, s, t) ==
  /\ Len(s) \in Nat /\ Len(t) \in Nat /\ Len(w) = Len(s) + Len(t)
  /\ \A p \in 1..Len(s) : p \in 1..Len(w) /\ w[p] = s[p]
  /\ \A k \in 1..Len(t) : Len(s) + k \in 1..Len(w) /\ w[Len(s) + k] = t[k]

\* Where the elements of two sequences are in their concatenation.
LEMMA Concatenated ==
  ASSUME NEW X, NEW s \in Seq(X), NEW t \in Seq(X)
  PROVE  s \o t \in Seq(X) /\ IsConcat(s \o t, s, t)
<1> DEFINE w == s \o t
<1>1. /\ w \in Seq(X)
      /\ Len(w) = Len(s) + Len(t)
      /\ \A i \in 1..(Len(s) + Len(t)) : w[i] = IF i <= Len(s) THEN s[i] ELSE t[i - Len(s)]
  BY ConcatProperties
<1> HIDE DEF w
<1>2. Len(s) \in Nat /\ Len(t) \in Nat
  OBVIOUS
<1>3. ASSUME NEW p \in 1..Len(s) PROVE p \in 1..Len(w) /\ w[p] = s[p]
  BY <1>1, <1>2
<1>4. ASSUME NEW k \in 1..Len(t) PROVE Len(s) + k \in 1..Len(w) /\ w[Len(s) + k] = t[k]
  <2>1. Len(s) + k \in 1..(Len(s) + Len(t)) /\ ~(Len(s) + k <= Len(s)) /\ (Len(s) + k) - Len(s) = k
    BY <1>2
  <2> QED BY <1>1, <2>1
<1>5. IsConcat(w, s, t)
  BY <1>1, <1>2, <1>3, <1>4 DEF IsConcat
<1> QED BY <1>1, <1>5 DEF w

\* A flattened sequence is its parts one behind the other: part i takes the
\* places behind cut[i - 1] up to cut[i].
IsCut(cut, parts, n) ==
  /\ cut \in [0..n -> Nat]
  /\ cut[0] = 0
  /\ \A i \in 1..n : cut[i] = cut[i - 1] + Len(parts[i]) /\ Len(parts[i]) \in Nat

Placed(w, cut, parts, n) ==
  /\ Len(w) = cut[n]
  /\ \A i \in 1..n : \A k \in 1..Len(parts[i]) : w[cut[i - 1] + k] = parts[i][k]

\* The recursive function of FlattenSeq is there and is what it says.
LEMMA FlattenSteps ==
  ASSUME NEW X, NEW seqs \in Seq(Seq(X)), seqs # <<>>
  PROVE  \E f \in [1..Len(seqs) -> Seq(X)] :
           /\ f[1] = seqs[1]
           /\ \A i \in 2..Len(seqs) : f[i] = f[i - 1] \o seqs[i]
           /\ FlattenSeq(seqs) = f[Len(seqs)]
<1> DEFINE n == Len(seqs)
           Def(h) == h = [i \in 1..n |-> IF i = 1 THEN seqs[i] ELSE h[i - 1] \o seqs[i]]
           F == CHOOSE h : Def(h)
           step == [i \in 1..n |-> [s \in Seq(X) |-> s \o seqs[i]]]
<1>1. n \in Nat \ {0} /\ \A i \in 1..n : seqs[i] \in Seq(X)
  OBVIOUS
<1>2. FlattenSeq(seqs) = F[n]
  BY <1>1, Zenon DEF FlattenSeq
<1> HIDE DEF n
<1>3. step \in [1..n -> [Seq(X) -> Seq(X)]] /\ <<>> \in Seq(X)
  BY <1>1
<1>4. PICK g \in [0..n -> Seq(X)] : Iterates(g, n, <<>>, step)
  <2> HIDE DEF step
  <2> QED BY <1>1, <1>3, Recursion, Zenon
<1>5. ASSUME NEW i \in 1..n PROVE g[i] = g[i - 1] \o seqs[i]
  <2>1. i - 1 \in 0..n
    BY <1>1
  <2>2. g[i - 1] \in Seq(X)
    BY <1>4, <2>1
  <2>3. step[i] = [s \in Seq(X) |-> s \o seqs[i]]
    OBVIOUS
  <2> HIDE DEF step
  <2>4. step[i][g[i - 1]] = g[i - 1] \o seqs[i]
    BY <2>2, <2>3, Zenon
  <2> QED BY <1>4, <2>4, Zenon DEF Iterates
<1>6. g[1] = seqs[1]
  <2>1. 1 \in 1..n /\ 1 - 1 = 0
    BY <1>1
  <2>2. g[1] = <<>> \o seqs[1] /\ seqs[1] \in Seq(X)
    BY <1>1, <1>4, <1>5, <2>1 DEF Iterates
  <2> QED BY <2>2, ConcatEmptySeq
<1> DEFINE f == [i \in 1..n |-> g[i]]
<1>7. Def(f)
  <2>1. ASSUME NEW i \in 1..n
        PROVE  g[i] = IF i = 1 THEN seqs[i] ELSE f[i - 1] \o seqs[i]
    <3>1. CASE i = 1
      BY <1>6, <3>1
    <3>2. CASE i # 1
      <4>1. i - 1 \in 1..n
        BY <1>1, <3>2
      <4> QED BY <1>5, <3>2, <4>1
    <3> QED BY <3>1, <3>2
  <2> QED BY <2>1, Zenon
<1>8. \E h : Def(h)
  <2> HIDE DEF f
  <2> QED BY <1>7
<1>9. Def(F)
  <2> HIDE DEF Def
  <2> QED BY <1>8, Zenon
<1> HIDE DEF F
<1>10. F[1] = seqs[1] /\ \A i \in 2..n : F[i] = F[i - 1] \o seqs[i]
  <2>1. 1 \in 1..n /\ \A i \in 2..n : i \in 1..n /\ i # 1
    BY <1>1
  <2> QED BY <1>9, <2>1, Zenon
<1>11. F \in [1..n -> Seq(X)]
  <2> DEFINE S == {i \in 0..n : i = 0 \/ F[i] \in Seq(X)}
  <2>1. ASSUME NEW i \in 1..n, i - 1 \in S PROVE i \in S
    <3>1. CASE i = 1
      BY <1>1, <1>10, <3>1
    <3>2. CASE i # 1
      <4>1. i \in 2..n /\ F[i - 1] \in Seq(X)
        BY <1>1, <2>1, <3>2
      <4>2. F[i] = F[i - 1] \o seqs[i] /\ seqs[i] \in Seq(X)
        BY <1>1, <1>10, <4>1
      <4>3. F[i] \in Seq(X)
        BY <4>1, <4>2, ConcatProperties, Zenon
      <4> QED BY <4>3, <3>2
    <3> QED BY <3>1, <3>2
  <2>2. 0 \in S
    BY <1>1
  <2>3. 0..n \subseteq S
    <3> HIDE DEF S
    <3> QED BY <1>1, <2>1, <2>2, IntervalInduction
  <2>4. \A i \in 1..n : F[i] \in Seq(X)
    BY <2>3
  <2>5. F = [i \in 1..n |-> F[i]]
    BY <1>9, Zenon
  <2> QED BY <2>4, <2>5
<1> QED BY <1>2, <1>10, <1>11 DEF n

\* Each part is found where the lengths of those before it end.
LEMMA PartsOfFlattened ==
  ASSUME NEW X, NEW n \in Nat \ {0}, NEW parts, \A i \in 1..n : parts[i] \in Seq(X),
         NEW f \in [1..n -> Seq(X)],
         f[1] = parts[1], \A i \in 2..n : f[i] = f[i - 1] \o parts[i]
  PROVE  \E cut : IsCut(cut, parts, n) /\ Placed(f[n], cut, parts, n)
<1> DEFINE cut == [i \in 0..n |-> IF i = 0 THEN 0 ELSE Len(f[i])]
<1>1. /\ cut \in [0..n -> Nat] /\ cut[0] = 0
      /\ \A i \in 1..n : cut[i] = Len(f[i]) /\ cut[i] \in Nat
  <2>1. \A i \in 1..n : Len(f[i]) \in Nat /\ i # 0 /\ i \in 0..n
    OBVIOUS
  <2> QED BY <2>1
<1> HIDE DEF cut
<1>2. ASSUME NEW i \in 2..n
      PROVE  /\ i \in 1..n /\ i - 1 \in 1..n /\ i # 0
             /\ cut[i] = cut[i - 1] + Len(parts[i])
             /\ Len(parts[i]) \in Nat
             /\ \A p \in 1..cut[i - 1] : p \in 1..cut[i] /\ f[i][p] = f[i - 1][p]
             /\ \A k \in 1..Len(parts[i]) :
                  cut[i - 1] + k \in 1..cut[i] /\ f[i][cut[i - 1] + k] = parts[i][k]
  <2>1. i \in 1..n /\ i - 1 \in 1..n /\ i # 0
    OBVIOUS
  <2>2. f[i] = f[i - 1] \o parts[i] /\ f[i - 1] \in Seq(X) /\ parts[i] \in Seq(X)
    BY <2>1
  <2>3. cut[i] = Len(f[i]) /\ cut[i - 1] = Len(f[i - 1])
    BY <1>1, <2>1
  <2>4. IsConcat(f[i], f[i - 1], parts[i])
    <3>1. f[i - 1] \in Seq(X) /\ parts[i] \in Seq(X)
      BY <2>2
    <3>2. IsConcat(f[i - 1] \o parts[i], f[i - 1], parts[i])
      BY ONLY <3>1, Concatenated, Zenon
    <3> QED BY ONLY <2>2, <3>2
  <2> QED BY <2>1, <2>3, <2>4, Zenon DEF IsConcat
<1>3. cut[1] = Len(parts[1]) /\ Len(parts[1]) \in Nat /\ f[1] = parts[1]
  BY <1>1
<1>4. ASSUME NEW i \in 1..n PROVE cut[i] = cut[i - 1] + Len(parts[i])
  <2>1. CASE i = 1
    BY <1>1, <1>3, <2>1
  <2>2. CASE i # 1
    BY <1>2, <2>2
  <2> QED BY <2>1, <2>2
<1> DEFINE S == {i \in 0..n : \A j \in 1..i : \A k \in 1..Len(parts[j]) :
                   cut[j - 1] + k \in 1..cut[i] /\ f[i][cut[j - 1] + k] = parts[j][k]}
<1>5. ASSUME NEW i \in 1..n, i - 1 \in S PROVE i \in S
  <2>1. CASE i = 1
    <3>1. ASSUME NEW j \in 1..1, NEW k \in 1..Len(parts[j])
          PROVE  cut[j - 1] + k \in 1..cut[1] /\ f[1][cut[j - 1] + k] = parts[j][k]
      <4>1. j = 1 /\ j - 1 = 0 /\ k \in 1..Len(parts[1])
        OBVIOUS
      <4>2. cut[j - 1] + k = k
        BY <1>1, <4>1
      <4> QED BY <1>3, <4>1, <4>2
    <3>2. 1 \in 0..n
      OBVIOUS
    <3>3. 1 \in S
      BY <3>1, <3>2, Zenon
    <3> QED BY <2>1, <3>3
  <2>2. CASE i # 1
    <3>1. i \in 2..n /\ i - 1 \in 1..n
      BY <2>2
    <3>2. ASSUME NEW j \in 1..i, NEW k \in 1..Len(parts[j])
          PROVE  cut[j - 1] + k \in 1..cut[i] /\ f[i][cut[j - 1] + k] = parts[j][k]
      <4>1. CASE j = i
        BY <1>2, <3>1, <4>1
      <4>2. CASE j # i
        <5>1. j \in 1..(i - 1)
          BY <4>2
        <5>2. cut[j - 1] + k \in 1..cut[i - 1] /\ f[i - 1][cut[j - 1] + k] = parts[j][k]
          BY <1>5, <5>1
        <5> QED BY <1>2, <3>1, <5>2
      <4> QED BY <4>1, <4>2
    <3> QED BY <3>2
  <2> QED BY <2>1, <2>2
<1>6. 0 \in S
  OBVIOUS
<1>7. n \in S
  <2>1. 0..n \subseteq S
    <3> HIDE DEF S
    <3> QED BY <1>5, <1>6, IntervalInduction
  <2> HIDE DEF S
  <2> QED BY <2>1
<1>8. n \in 1..n
  OBVIOUS
<1>9. \A i \in 1..n : \A k \in 1..Len(parts[i]) : f[n][cut[i - 1] + k] = parts[i][k]
  BY <1>7
<1>10. \A i \in 1..n : Len(parts[i]) \in Nat
  BY <1>2, <1>3
<1>11. IsCut(cut, parts, n)
  BY <1>1, <1>4, <1>10 DEF IsCut
<1>12. Placed(f[n], cut, parts, n)
  BY <1>1, <1>8, <1>9 DEF Placed
<1> QED BY <1>11, <1>12

\* FlattenSeq, for use: its parts one after the other.
LEMMA Flattened ==
  ASSUME NEW X, NEW seqs \in Seq(Seq(X))
  PROVE  /\ FlattenSeq(seqs) \in Seq(X)
         /\ \E cut : /\ IsCut(cut, seqs, Len(seqs))
                     /\ Placed(FlattenSeq(seqs), cut, seqs, Len(seqs))
<1>1. CASE seqs = <<>>
  <2> DEFINE cut == [i \in 0..0 |-> 0]
  <2>1. Len(seqs) = 0 /\ FlattenSeq(seqs) = <<>>
    BY <1>1 DEF FlattenSeq
  <2>2. IsCut(cut, seqs, 0) /\ cut[0] = 0
    BY DEF IsCut
  <2> HIDE DEF cut
  <2>3. <<>> \in Seq(X) /\ Len(<<>>) = 0
    OBVIOUS
  <2>4. Placed(<<>>, cut, seqs, 0)
    BY <2>2, <2>3 DEF Placed
  <2> QED BY <2>1, <2>2, <2>3, <2>4
<1>2. CASE seqs # <<>>
  <2>1. PICK f \in [1..Len(seqs) -> Seq(X)] :
          /\ f[1] = seqs[1]
          /\ \A i \in 2..Len(seqs) : f[i] = f[i - 1] \o seqs[i]
          /\ FlattenSeq(seqs) = f[Len(seqs)]
    BY <1>2, FlattenSteps
  <2>2. Len(seqs) \in Nat \ {0} /\ \A i \in 1..Len(seqs) : seqs[i] \in Seq(X)
    BY <1>2
  <2>3. f[Len(seqs)] \in Seq(X)
    BY <2>2
  <2>4. \E cut : IsCut(cut, seqs, Len(seqs)) /\ Placed(f[Len(seqs)], cut, seqs, Len(seqs))
    BY <2>1, <2>2, PartsOfFlattened, Zenon
  <2> QED BY <2>1, <2>3, <2>4
<1> QED BY <1>1, <1>2

\* Later parts end later.
LEMMA CutGrows ==
  ASSUME NEW n \in Nat, NEW cut, NEW parts, IsCut(cut, parts, n)
  PROVE  \A j \in 0..n : \A i \in 0..j : cut[i] \in Nat /\ cut[i] <= cut[j]
<1> DEFINE S == {j \in 0..n : \A i \in 0..j : cut[i] <= cut[j]}
<1>1. cut \in [0..n -> Nat] /\ \A i \in 1..n : cut[i] = cut[i - 1] + Len(parts[i]) /\ Len(parts[i]) \in Nat
  BY DEF IsCut
<1>2. 0 \in S
  BY <1>1
<1>3. ASSUME NEW j \in 1..n, j - 1 \in S PROVE j \in S
  <2>1. cut[j - 1] <= cut[j]
    <3>1. j - 1 \in 0..n /\ j \in 0..n
      OBVIOUS
    <3>2. cut[j - 1] \in Nat /\ Len(parts[j]) \in Nat /\ cut[j] = cut[j - 1] + Len(parts[j])
      BY <1>1, <3>1
    <3> QED BY <3>2
  <2>2. ASSUME NEW i \in 0..j PROVE cut[i] <= cut[j]
    <3>1. CASE i = j
      BY <1>1, <3>1
    <3>2. CASE i # j
      <4>1. cut[i] <= cut[j - 1]
        BY <1>3, <3>2
      <4> QED BY <1>1, <2>1, <4>1
    <3> QED BY <3>1, <3>2
  <2> QED BY <2>2
<1>4. 0..n \subseteq S
  <2> HIDE DEF S
  <2> QED BY <1>2, <1>3, IntervalInduction
<1> QED BY <1>1, <1>4
-----------------------------------------------------------------------------
BlockKinds == {"table", "code", "prose"}
LineKinds == {"row", "rule", "other"}

\* Every table of a Markdown text starts with a header row and a rule, and
\* what is before it is not a row.
StartsTable(lines, i) ==
  /\ i \in 1..(Len(lines) - 1) /\ lines[i] = "row" /\ lines[i + 1] = "rule"
  /\ i = 1 \/ (i - 1 \in 1..Len(lines) /\ lines[i - 1] = "other")

\* The Markdown of a page has a table start of its own for each table.
LEMMA MarkdownLines ==
  ASSUME NEW blocks \in Seq(BlockKinds)
  PROVE  /\ MarkdownOf(blocks) \in Seq(LineKinds)
         /\ \E start : /\ \A b \in DOMAIN blocks : blocks[b] = "table" => StartsTable(MarkdownOf(blocks), start[b])
                       /\ \A b, c \in DOMAIN blocks : start[b] = start[c] => b = c
<1> DEFINE n == Len(blocks)
           parts == [b \in DOMAIN blocks |-> LinesOf(blocks[b])]
           lines == MarkdownOf(blocks)
<1>1. n \in Nat /\ DOMAIN blocks = 1..n /\ \A b \in 1..n : blocks[b] \in BlockKinds
  OBVIOUS
<1>2. ASSUME NEW k PROVE /\ LinesOf(k) \in Seq(LineKinds)
                         /\ Len(LinesOf(k)) \in {2, 4}
                         /\ LinesOf(k)[Len(LinesOf(k))] = "other"
  <2>1. CASE k = "table"
    <3>1. LinesOf(k) = <<"row", "rule", "row", "other">>
      BY <2>1 DEF LinesOf
    <3> QED BY <3>1 DEF LineKinds
  <2>2. CASE k = "code"
    <3>1. LinesOf(k) = <<"other", "row", "other", "other">>
      BY <2>2 DEF LinesOf
    <3> QED BY <3>1 DEF LineKinds
  <2>3. CASE k # "table" /\ k # "code"
    <3>1. LinesOf(k) = <<"other", "other">>
      BY <2>3 DEF LinesOf
    <3> QED BY <3>1 DEF LineKinds
  <2> QED BY <2>1, <2>2, <2>3
<1>3. parts \in Seq(Seq(LineKinds)) /\ Len(parts) = n
  BY <1>1, <1>2
<1>4. \A b \in 1..n : parts[b] = LinesOf(blocks[b])
  BY <1>1
<1>5. lines = FlattenSeq(parts)
  BY DEF MarkdownOf
<1> HIDE DEF parts, lines, n
<1>6. PICK cut : IsCut(cut, parts, n) /\ Placed(lines, cut, parts, n)
  BY <1>3, <1>5, Flattened
<1>7. lines \in Seq(LineKinds)
  BY <1>3, <1>5, Flattened
<1>8. /\ cut \in [0..n -> Nat] /\ cut[0] = 0 /\ Len(lines) = cut[n]
      /\ \A b \in 1..n : cut[b] = cut[b - 1] + Len(parts[b])
      /\ \A b \in 1..n : \A k \in 1..Len(parts[b]) : lines[cut[b - 1] + k] = parts[b][k]
  BY <1>6 DEF IsCut, Placed
<1>9. \A j \in 0..n : \A i \in 0..j : cut[i] \in Nat /\ cut[i] <= cut[j]
  BY <1>1, <1>6, CutGrows
<1> DEFINE start == [b \in 1..n |-> cut[b - 1] + 1]
<1>10. ASSUME NEW b \in 1..n, blocks[b] = "table" PROVE StartsTable(lines, start[b])
  <2>1. parts[b] = <<"row", "rule", "row", "other">>
    BY <1>4, <1>10 DEF LinesOf
  <2>2. /\ Len(parts[b]) = 4 /\ 1 \in 1..4 /\ 2 \in 1..4
        /\ parts[b][1] = "row" /\ parts[b][2] = "rule"
    BY <2>1
  <2>3. cut[b] = cut[b - 1] + 4 /\ cut[b] <= cut[n] /\ cut[b - 1] \in Nat
    <3>1. b - 1 \in 0..n /\ b \in 0..n /\ n \in 0..n
      BY <1>1
    <3>2. cut[b - 1] \in Nat /\ cut[b] <= cut[n]
      BY <1>1, <1>8, <1>9, <3>1
    <3>3. cut[b] = cut[b - 1] + Len(parts[b])
      BY <1>8
    <3> QED BY <2>2, <3>2, <3>3
  <2>4. lines[cut[b - 1] + 1] = "row" /\ lines[cut[b - 1] + 2] = "rule"
    BY <1>8, <2>2
  <2>5. start[b] \in 1..(Len(lines) - 1) /\ lines[start[b]] = "row" /\ lines[start[b] + 1] = "rule"
    <3>1. (cut[b - 1] + 1) + 1 = cut[b - 1] + 2
      BY <2>3
    <3> QED BY <1>1, <1>8, <2>3, <2>4, <3>1
  <2>6. CASE b = 1
    <3>1. start[b] = 1
      BY <1>8, <2>6
    <3> QED BY <2>5, <3>1 DEF StartsTable
  <2>7. CASE b # 1
    <3> DEFINE c == b - 1
               m == Len(parts[c])
    <3>1. c \in 1..n /\ c - 1 \in 0..n
      BY <1>1, <2>7
    <3>2. m \in {2, 4} /\ parts[c][m] = "other"
      BY <1>2, <1>4, <3>1
    <3>3. cut[c] = cut[c - 1] + m /\ m \in 1..Len(parts[c])
      <4>1. cut[c] = cut[c - 1] + Len(parts[c])
        BY <1>8, <3>1
      <4>2. \A x \in {2, 4} : x \in 1..x
        OBVIOUS
      <4>3. m \in 1..m
        BY <3>2, <4>2, Zenon
      <4> QED BY <4>1, <4>3
    <3>4. lines[cut[c - 1] + m] = "other"
      BY <1>8, <3>1, <3>2, <3>3
    <3>5. start[b] - 1 = cut[c - 1] + m
      BY <1>8, <2>3, <3>1, <3>3
    <3>6. start[b] - 1 \in 1..Len(lines)
      <4>1. cut[c - 1] \in Nat
        BY <1>8, <3>1
      <4> HIDE DEF start, c, m
      <4> QED BY <2>5, <3>2, <3>5, <4>1, <1>8
    <3> QED BY <2>5, <3>4, <3>5, <3>6 DEF StartsTable
  <2> QED BY <2>6, <2>7
<1>11. ASSUME NEW b \in 1..n, NEW c \in 1..n, b < c PROVE start[b] # start[c]
  <2>1. Len(parts[b]) \in {2, 4}
    BY <1>2, <1>4
  <2>2. cut[b] = cut[b - 1] + Len(parts[b]) /\ cut[b] <= cut[c - 1]
    BY <1>1, <1>8, <1>9, <1>11
  <2>3. cut[b - 1] \in Nat /\ cut[c - 1] \in Nat /\ cut[b - 1] < cut[c - 1]
    <3>1. b - 1 \in 0..n /\ c - 1 \in 0..n
      BY <1>1
    <3>2. cut[b - 1] \in Nat /\ cut[c - 1] \in Nat
      BY <1>8, <3>1
    <3>3. \A x, y \in Nat : \A l \in {2, 4} : x + l <= y => x < y
      OBVIOUS
    <3>4. cut[b - 1] + Len(parts[b]) <= cut[c - 1]
      BY <2>2, Zenon
    <3> QED BY <2>1, <3>2, <3>3, <3>4, Zenon
  <2> QED BY <2>3
<1>12. \A b, c \in 1..n : start[b] = start[c] => b = c
  <2> HIDE DEF start
  <2> QED BY <1>1, <1>11
<1> HIDE DEF start
<1> QED BY <1>1, <1>7, <1>10, <1>12 DEF lines

\* pubcheck.py, md_tables: each of those starts is counted. The loop is
\* outside of a table there, since the line before it is in none.
LEMMA StartsAreCounted ==
  ASSUME NEW lines \in Seq(LineKinds), NEW S, NEW start,
         \A b \in S : StartsTable(lines, start[b]),
         \A b, c \in S : start[b] = start[c] => b = c
  PROVE  MdTables(lines) \in Nat /\ Cardinality(S) <= MdTables(lines)
<1> DEFINE n == Len(lines)
           isRow(i) == lines[i] \in {"row", "rule"}
           head(i) == i < Len(lines) /\ isRow(i) /\ lines[i + 1] = "rule"
           after(i, before) == CASE before = "out" /\ head(i - 1) -> "rule"
                                 [] before = "rule" -> "rows"
                                 [] before = "rows" /\ isRow(i - 1) -> "rows"
                                 [] OTHER -> "out"
           Def(h) == h = [i \in 1..(Len(lines) + 1) |-> IF i = 1 THEN "out" ELSE after(i, h[i - 1])]
           at == CHOOSE h : Def(h)
           T == {"out", "rule", "rows"}
           step == [i \in 1..n |-> [before \in T |-> after(i + 1, before)]]
           counted == {i \in DOMAIN lines : head(i) /\ at[i] = "out"}
<1>1. n \in Nat /\ DOMAIN lines = 1..n
  OBVIOUS
<1>2. MdTables(lines) = Cardinality(counted)
  BY Zenon DEF MdTables
<1>3. \E h : Def(h)
  <2>1. step \in [1..n -> [T -> T]] /\ "out" \in T
    OBVIOUS
  <2>2. PICK g \in [0..n -> T] : Iterates(g, n, "out", step)
    <3> HIDE DEF step, T, n
    <3> QED BY <1>1, <2>1, Recursion
  <2>3. ASSUME NEW i \in 1..n PROVE g[i] = after(i + 1, g[i - 1])
    <3>1. g[i - 1] \in T /\ g[i] = step[i][g[i - 1]]
      BY <2>2 DEF Iterates
    <3> HIDE DEF after, T
    <3> QED BY <3>1
  <2> DEFINE h == [i \in 1..(Len(lines) + 1) |-> g[i - 1]]
  <2>4. ASSUME NEW i \in 1..(Len(lines) + 1)
        PROVE  g[i - 1] = IF i = 1 THEN "out" ELSE after(i, h[i - 1])
    <3>1. CASE i = 1
      BY <2>2, <3>1 DEF Iterates
    <3>2. CASE i # 1
      <4>1. i - 1 \in 1..n /\ (i - 1) + 1 = i /\ i - 1 \in 1..(Len(lines) + 1)
        BY <1>1, <3>2
      <4>2. g[i - 1] = after(i, g[(i - 1) - 1])
        <5> HIDE DEF after
        <5> QED BY <2>3, <4>1
      <4>3. h[i - 1] = g[(i - 1) - 1]
        BY <4>1
      <4> HIDE DEF after, h
      <4> QED BY <3>2, <4>2, <4>3
    <3> QED BY <3>1, <3>2
  <2>5. Def(h)
    <3> HIDE DEF after
    <3> QED BY <2>4, Zenon
  <2> HIDE DEF h, Def
  <2> QED BY <2>5
<1>4. Def(at)
  <2> HIDE DEF Def
  <2> QED BY <1>3, Zenon
<1> HIDE DEF at
<1>5. /\ at[1] = "out"
      /\ \A i \in 2..(n + 1) : at[i] = after(i, at[i - 1])
  <2>1. 1 \in 1..(Len(lines) + 1) /\ \A i \in 2..(n + 1) : i \in 1..(Len(lines) + 1) /\ i # 1
    BY <1>1
  <2> HIDE DEF after
  <2> QED BY <1>4, <2>1, Zenon
<1>6. ASSUME NEW i \in 1..(n + 1), at[i] = "rule" PROVE lines[i] = "rule"
  <2>1. i \in 2..(n + 1)
    BY <1>1, <1>5, <1>6
  <2>2. after(i, at[i - 1]) = "rule"
    BY <1>5, <1>6, <2>1
  <2>3. head(i - 1)
    <3> HIDE DEF head, isRow
    <3> QED BY <2>2
  <2> QED BY <2>1, <2>3
<1>7. ASSUME NEW i, StartsTable(lines, i) PROVE i \in counted
  <2>1. /\ i \in 1..n /\ head(i)
        /\ i = 1 \/ (i - 1 \in 1..n /\ lines[i - 1] = "other")
    BY <1>1, <1>7 DEF StartsTable
  <2>2. CASE i = 1
    BY <1>1, <1>5, <2>1, <2>2
  <2>3. CASE i # 1
    <3>1. i \in 2..(n + 1) /\ i - 1 \in 1..(n + 1) /\ ~isRow(i - 1)
      BY <1>1, <2>1, <2>3
    <3>2. at[i - 1] # "rule"
      BY <1>6, <2>1, <2>3, <3>1
    <3>3. ~head(i - 1)
      BY <3>1
    <3>4. at[i] = "out"
      <4> HIDE DEF head, isRow
      <4> QED BY <1>5, <3>1, <3>2, <3>3
    <3> QED BY <1>1, <2>1, <3>4
  <2> QED BY <2>2, <2>3
<1>8. IsFiniteSet(counted)
  <2>1. IsFiniteSet(1..n)
    BY <1>1, FS_Interval
  <2>2. counted \in SUBSET (1..n)
    BY <1>1
  <2> QED BY <2>1, <2>2, FS_Subset
<1> DEFINE f == [b \in S |-> start[b]]
<1> HIDE DEF counted
<1>9. f \in [S -> counted]
  BY <1>7
<1>10. f \in Injection(S, counted)
  BY <1>9 DEF Injection, IsInjective
<1> QED BY <1>2, <1>8, <1>10, FS_Injection, FS_CardinalityType

\* What the regular expressions of pubcheck.py count is a number.
LEMMA CountIsNat ==
  ASSUME NEW T, NEW s \in Seq(T), NEW kinds, NEW vals
  PROVE  Count(s, kinds, vals) \in Nat
<1>1. IsFiniteSet(1..Len(s)) /\ DOMAIN s = 1..Len(s)
  BY FS_Interval
<1>2. {i \in DOMAIN s : s[i].kind \in kinds /\ s[i].val \in vals} \in SUBSET (1..Len(s))
  BY <1>1
<1> QED BY <1>1, <1>2, FS_Subset, FS_CardinalityType DEF Count

\* pubcheck.py, C8: a page without an error has the tables and the code
\* blocks of the Markdown it was converted from.
THEOREM TablesArriveHolds == Spec => []TablesArrive
<1>1. TypeOK => TablesArrive
  <2> SUFFICES ASSUME TypeOK,
                      PageErrors("title", MarkdownOf(draft), FencesOf(draft), sent) = {}
               PROVE  /\ Cardinality({b \in DOMAIN draft : draft[b] = "table"}) <= Blocks(sent, "table")
                      /\ Cardinality({b \in DOMAIN draft : draft[b] = "code"}) <= Blocks(sent, "macro")
    BY DEF TablesArrive
  <2> DEFINE tables == {b \in DOMAIN draft : draft[b] = "table"}
             codes == {b \in DOMAIN draft : draft[b] = "code"}
             lines == MarkdownOf(draft)
  <2> draft \in Seq(BlockKinds) /\ sent \in Seq(Tokens)
    BY DEF TypeOK, BlockKinds
  <2>1. lines \in Seq(LineKinds)
    BY MarkdownLines
  <2>2. lines # <<"none">>
    <3>1. \A w \in Seq(LineKinds) : w # <<"none">>
      <4> SUFFICES ASSUME <<"none">> \in Seq(LineKinds) PROVE FALSE
        OBVIOUS
      <4>1. <<"none">>[1] \in LineKinds
        OBVIOUS
      <4> QED BY <4>1 DEF LineKinds
    <3> QED BY <2>1, <3>1
  <2>3. /\ ~(MdTables(lines) > Count(sent, Opening, {"table"}))
        /\ ~(FencesOf(draft) \div 2 > Count(sent, Opening, {"macro"}))
    <3> SUFFICES ASSUME \/ MdTables(lines) > Count(sent, Opening, {"table"})
                        \/ FencesOf(draft) \div 2 > Count(sent, Opening, {"macro"})
                 PROVE  FALSE
      OBVIOUS
    <3>1. "C8" \in PageErrors("title", lines, FencesOf(draft), sent)
      BY <2>2 DEF PageErrors
    <3> QED BY <3>1
  <2>4. \A tag : Blocks(sent, tag) = Count(sent, Opening, {tag})
    BY DEF Blocks, Count
  <2>7. \A kinds, vals : Count(sent, kinds, vals) \in Nat
    BY CountIsNat
  <2>5. MdTables(lines) \in Nat /\ Cardinality(tables) <= MdTables(lines)
    <3>1. PICK start : /\ \A b \in DOMAIN draft : draft[b] = "table" => StartsTable(lines, start[b])
                       /\ \A b, c \in DOMAIN draft : start[b] = start[c] => b = c
      BY MarkdownLines
    <3>2. /\ \A b \in tables : StartsTable(lines, start[b])
          /\ \A b, c \in tables : start[b] = start[c] => b = c
      BY <3>1
    <3> HIDE DEF lines, tables
    <3> QED BY <2>1, <3>2, StartsAreCounted
  <2>6. FencesOf(draft) \div 2 = Cardinality(codes) /\ Cardinality(codes) \in Nat
    <3>1. IsFiniteSet(1..Len(draft)) /\ codes \in SUBSET (1..Len(draft))
      BY FS_Interval
    <3>2. Cardinality(codes) \in Nat
      BY <3>1, FS_Subset, FS_CardinalityType
    <3>3. \A c \in Nat : (2 * c) \div 2 = c
      OBVIOUS
    <3> QED BY <3>2, <3>3 DEF FencesOf
  <2>8. Cardinality(tables) \in Nat
    <3>1. IsFiniteSet(1..Len(draft)) /\ tables \in SUBSET (1..Len(draft))
      BY FS_Interval
    <3> QED BY <3>1, FS_Subset, FS_CardinalityType
  <2>9. Count(sent, Opening, {"table"}) \in Nat /\ Count(sent, Opening, {"macro"}) \in Nat
    BY <2>7
  <2>10. \A x, y, z \in Nat : x <= y /\ ~(y > z) => x <= z
    OBVIOUS
  <2>11. Cardinality(tables) <= Count(sent, Opening, {"table"})
    <3> HIDE DEF tables, codes, lines
    <3> QED BY <2>3, <2>5, <2>8, <2>9, <2>10
  <2>12. Cardinality(codes) <= Count(sent, Opening, {"macro"})
    <3> HIDE DEF tables, codes, lines
    <3> QED BY <2>3, <2>6, <2>9
  <2> QED BY <2>4, <2>11, <2>12
<1> QED BY <1>1, TypeInvariant, PTL
-----------------------------------------------------------------------------
\* Every place of a flattened sequence is in one of its parts.
LEMMA PlaceIsInAPart ==
  ASSUME NEW n \in Nat, NEW cut, NEW parts, IsCut(cut, parts, n)
  PROVE  \A p \in 1..cut[n] : \E i \in 1..n : p \in (cut[i - 1] + 1)..cut[i]
<1> DEFINE S == {j \in 0..n : \A p \in 1..cut[j] : \E i \in 1..j : p \in (cut[i - 1] + 1)..cut[i]}
<1>1. cut \in [0..n -> Nat] /\ cut[0] = 0
  BY DEF IsCut
<1>2. 0 \in S
  BY <1>1
<1>3. ASSUME NEW j \in 1..n, j - 1 \in S PROVE j \in S
  <2>1. ASSUME NEW p \in 1..cut[j] PROVE \E i \in 1..j : p \in (cut[i - 1] + 1)..cut[i]
    <3>1. cut[j - 1] \in Nat /\ cut[j] \in Nat
      <4>1. j - 1 \in 0..n /\ j \in 0..n
        OBVIOUS
      <4> QED BY <1>1, <4>1
    <3>2. CASE p <= cut[j - 1]
      <4>1. \E i \in 1..(j - 1) : p \in (cut[i - 1] + 1)..cut[i]
        BY <1>3, <3>1, <3>2
      <4> QED BY <4>1
    <3>3. CASE ~(p <= cut[j - 1])
      <4>1. p \in (cut[j - 1] + 1)..cut[j] /\ j \in 1..j
        BY <3>1, <3>3
      <4> QED BY <4>1
    <3> QED BY <3>2, <3>3
  <2> QED BY <2>1
<1>4. 0..n \subseteq S
  <2> HIDE DEF S
  <2> QED BY <1>2, <1>3, IntervalInduction
<1> QED BY <1>4

\* Counting up to i is counting up to i - 1, and i.
LEMMA CountStep ==
  ASSUME NEW text, NEW set, NEW i \in Nat \ {0}
  PROVE  /\ Cardinality({k \in 1..(i - 1) : text[k] \in set}) \in Nat
         /\ Cardinality({k \in 1..i : text[k] \in set})
              = Cardinality({k \in 1..(i - 1) : text[k] \in set}) + (IF text[i] \in set THEN 1 ELSE 0)
<1> DEFINE few == {k \in 1..(i - 1) : text[k] \in set}
           more == {k \in 1..i : text[k] \in set}
<1>1. IsFiniteSet(few)
  <2>1. IsFiniteSet(1..(i - 1)) /\ few \in SUBSET (1..(i - 1))
    BY FS_Interval
  <2> QED BY <2>1, FS_Subset
<1>2. i \notin few
  OBVIOUS
<1>3. CASE text[i] \in set
  <2>1. more = few \cup {i}
    BY <1>3
  <2> HIDE DEF few, more
  <2> QED BY <1>1, <1>2, <1>3, <2>1, FS_AddElement, FS_CardinalityType DEF few, more
<1>4. CASE text[i] \notin set
  <2>1. more = few
    BY <1>4
  <2>2. Cardinality(few) \in Nat
    BY <1>1, FS_CardinalityType
  <2> HIDE DEF few, more
  <2>3. Cardinality(few) \in Nat /\ Cardinality(more) = Cardinality(few) + 0
    BY <2>1, <2>2
  <2> QED BY <1>4, <2>3 DEF few, more
<1> QED BY <1>3, <1>4

StepsBy(text, opens, closes) ==
  /\ Depth(text, 1, 0, opens, closes) = 0
  /\ \A i \in Nat : Depth(text, 1, i, opens, closes) \in Int
  /\ \A i \in Nat \ {0} :
       Depth(text, 1, i, opens, closes)
         = Depth(text, 1, i - 1, opens, closes)
           + (IF text[i] \in opens THEN 1 ELSE 0) - (IF text[i] \in closes THEN 1 ELSE 0)

\* A bracket changes the depth of auditcheck.py by one, nothing else does.
LEMMA DepthStep ==
  ASSUME NEW text, NEW opens, NEW closes
  PROVE  StepsBy(text, opens, closes)
<1> DEFINE of(set, i) == Cardinality({k \in 1..i : text[k] \in set})
<1>1. ASSUME NEW i \in Nat, NEW set PROVE of(set, i) \in Nat
  <2>1. i + 1 \in Nat \ {0} /\ (i + 1) - 1 = i
    OBVIOUS
  <2> QED BY <2>1, CountStep
<1>2. ASSUME NEW set PROVE of(set, 0) = 0
  <2>1. {k \in 1..0 : text[k] \in set} = {}
    OBVIOUS
  <2> QED BY <2>1, FS_EmptySet
<1>3. ASSUME NEW i \in Nat \ {0}, NEW set
      PROVE  of(set, i) = of(set, i - 1) + (IF text[i] \in set THEN 1 ELSE 0)
  BY CountStep
<1>4. \A i : Depth(text, 1, i, opens, closes) = of(opens, i) - of(closes, i)
  BY DEF Depth
<1> HIDE DEF of
<1>5. ASSUME NEW i \in Nat \ {0}
      PROVE  Depth(text, 1, i, opens, closes)
                = Depth(text, 1, i - 1, opens, closes)
                  + (IF text[i] \in opens THEN 1 ELSE 0) - (IF text[i] \in closes THEN 1 ELSE 0)
  <2>1. i - 1 \in Nat
    OBVIOUS
  <2>2. of(opens, i - 1) \in Nat /\ of(closes, i - 1) \in Nat
    BY <1>1, <2>1
  <2> QED BY <1>3, <1>4, <2>2
<1>6. \A i \in Nat : of(opens, i) \in Nat /\ of(closes, i) \in Nat
  BY <1>1
<1> QED BY <1>2, <1>4, <1>5, <1>6 DEF StepsBy

\* A part of a text adds its own depth to what is before it.
AddsDepth(text, base, part, opens, closes) ==
  \A k \in 0..Len(part) : Depth(text, 1, base + k, opens, closes)
                            = Depth(text, 1, base, opens, closes) + Depth(part, 1, k, opens, closes)

\* The depth inside of a part is its own, on top of that before it.
LEMMA DepthOfPart ==
  ASSUME NEW text, NEW part, NEW base \in Nat, NEW opens, NEW closes, Len(part) \in Nat,
         \A k \in 1..Len(part) : text[base + k] = part[k]
  PROVE  AddsDepth(text, base, part, opens, closes)
<1> DEFINE m == Len(part)
<1> m \in Nat /\ \A k \in 1..m : text[base + k] = part[k]
  OBVIOUS
<1> HIDE DEF m
<1> DEFINE d(i) == Depth(text, 1, i, opens, closes)
           e(i) == Depth(part, 1, i, opens, closes)
           S == {k \in 0..m : d(base + k) = d(base) + e(k)}
<1>1. /\ \A i \in Nat : d(i) \in Int /\ e(i) \in Int
      /\ e(0) = 0
      /\ \A i \in Nat \ {0} :
           /\ d(i) = d(i - 1) + (IF text[i] \in opens THEN 1 ELSE 0) - (IF text[i] \in closes THEN 1 ELSE 0)
           /\ e(i) = e(i - 1) + (IF part[i] \in opens THEN 1 ELSE 0) - (IF part[i] \in closes THEN 1 ELSE 0)
  <2>1. StepsBy(text, opens, closes) /\ StepsBy(part, opens, closes)
    BY DepthStep
  <2> QED BY <2>1, Zenon DEF StepsBy
<1> HIDE DEF d, e
<1>2. 0 \in S
  BY <1>1
<1>3. ASSUME NEW k \in 1..m, k - 1 \in S PROVE k \in S
  <2>1. text[base + k] = part[k] /\ base + k \in Nat \ {0} /\ k \in Nat \ {0}
        /\ (base + k) - 1 = base + (k - 1) /\ k - 1 \in Nat /\ base + (k - 1) \in Nat
    OBVIOUS
  <2>2. d(base + (k - 1)) = d(base) + e(k - 1)
    BY <1>3
  <2>3. d(base + k) = d(base + (k - 1)) + (IF part[k] \in opens THEN 1 ELSE 0)
                                       - (IF part[k] \in closes THEN 1 ELSE 0)
    BY <1>1, <2>1
  <2>4. e(k) = e(k - 1) + (IF part[k] \in opens THEN 1 ELSE 0) - (IF part[k] \in closes THEN 1 ELSE 0)
    BY <1>1, <2>1
  <2>5. d(base) \in Int /\ e(k - 1) \in Int
    BY <1>1, <2>1
  <2>6. d(base + k) = d(base) + e(k)
    BY <2>2, <2>3, <2>4, <2>5
  <2> QED BY <2>6
<1>4. 0..m \subseteq S
  <2> HIDE DEF S
  <2> QED BY <1>2, <1>3, IntervalInduction
<1> QED BY <1>4 DEF d, e, m, AddsDepth

\* The text between the parentheses of a call: argument i is behind base[i],
\* where the comma before it is.
Between(args) == FlattenSeq([i \in DOMAIN args |-> IF i = 1 THEN args[1] ELSE <<",">> \o args[i]])

Separated(text, args, base) ==
  /\ base \in [1..Len(args) -> Nat]
  /\ \A i \in 1..Len(args) :
       /\ \A k \in 1..Len(args[i]) : base[i] + k \in 1..Len(text) /\ text[base[i] + k] = args[i][k]
       /\ i = 1 => base[i] = 0
       /\ i # 1 => /\ base[i] = base[i - 1] + Len(args[i - 1]) + 1
                   /\ base[i] \in 1..Len(text) /\ text[base[i]] = ","
  /\ Len(text) = IF args = <<>> THEN 0 ELSE base[Len(args)] + Len(args[Len(args)])
  /\ \A p \in 1..Len(text) : \E i \in 1..Len(args) :
       \/ \E k \in 1..Len(args[i]) : p = base[i] + k
       \/ i # 1 /\ p = base[i]

\* What a caller writes between the parentheses is such a text.
LEMMA BetweenIsSeparated ==
  ASSUME NEW args \in Seq(PieceTexts)
  PROVE  Between(args) \in Seq(CodeTokens) /\ \E base : Separated(Between(args), args, base)
<1> DEFINE n == Len(args)
           parts == [i \in DOMAIN args |-> IF i = 1 THEN args[1] ELSE <<",">> \o args[i]]
           text == Between(args)
<1>1. /\ n \in Nat /\ DOMAIN args = 1..n
      /\ \A i \in 1..n : args[i] \in Seq(CodeTokens) /\ Len(args[i]) \in Nat
  BY DEF PieceTexts
<1>2. \A i \in 1..n : parts[i] = IF i = 1 THEN args[1] ELSE <<",">> \o args[i]
  BY <1>1
<1> DEFINE one == <<",">>
<1>3. one \in Seq(CodeTokens) /\ Len(one) = 1 /\ one[1] = ","
  BY DEF CodeTokens
<1>4. ASSUME NEW i \in 1..n, i # 1
      PROVE  /\ parts[i] \in Seq(CodeTokens) /\ Len(parts[i]) = Len(args[i]) + 1
             /\ parts[i][1] = ","
             /\ \A k \in 1..Len(args[i]) : parts[i][k + 1] = args[i][k]
  <2>1. args[i] \in Seq(CodeTokens) /\ Len(args[i]) \in Nat
    BY <1>1
  <2>2. parts[i] = one \o args[i]
    BY <1>2, <1>4
  <2> HIDE DEF parts, one
  <2>3. one \o args[i] \in Seq(CodeTokens) /\ IsConcat(one \o args[i], one, args[i])
    BY ONLY <1>3, <2>1, Concatenated, Zenon
  <2>4. parts[i] \in Seq(CodeTokens) /\ IsConcat(parts[i], one, args[i])
    BY ONLY <2>2, <2>3
  <2>5. /\ Len(parts[i]) = 1 + Len(args[i])
        /\ \A q \in 1..1 : parts[i][q] = one[q]
        /\ \A k \in 1..Len(args[i]) : parts[i][1 + k] = args[i][k]
    BY ONLY <1>3, <2>4, Zenon DEF IsConcat
  <2>6. \A x \in Nat : 1 + x = x + 1
    OBVIOUS
  <2>7. Len(parts[i]) = Len(args[i]) + 1
    BY <2>1, <2>5, <2>6, Zenon
  <2>8. \A k \in 1..Len(args[i]) : parts[i][k + 1] = args[i][k]
    <3>1. \A k \in 1..Len(args[i]) : k \in Nat
      OBVIOUS
    <3> QED BY <2>5, <2>6, <3>1, Zenon
  <2>9. parts[i][1] = ","
    <3>1. 1 \in 1..1
      OBVIOUS
    <3> QED BY <1>3, <2>5, <3>1, Zenon
  <2> QED BY <2>4, <2>7, <2>8, <2>9, Zenon
<1>5. parts \in Seq(Seq(CodeTokens)) /\ Len(parts) = n
  <2>1. \A i \in 1..n : parts[i] \in Seq(CodeTokens)
    BY <1>1, <1>2, <1>4
  <2>2. parts = [i \in 1..n |-> parts[i]]
    BY <1>1
  <2> HIDE DEF parts, n
  <2> QED BY <1>1, <2>1, <2>2
<1>6. text = FlattenSeq(parts)
  BY DEF Between
<1> HIDE DEF parts, text, n
<1>7. text \in Seq(CodeTokens)
  BY <1>5, <1>6, Flattened
<1>8. PICK cut : IsCut(cut, parts, n) /\ Placed(text, cut, parts, n)
  BY <1>5, <1>6, Flattened
<1>9. /\ cut \in [0..n -> Nat] /\ cut[0] = 0 /\ Len(text) = cut[n]
      /\ \A i \in 1..n : cut[i] = cut[i - 1] + Len(parts[i])
      /\ \A i \in 1..n : \A k \in 1..Len(parts[i]) : text[cut[i - 1] + k] = parts[i][k]
  BY <1>8 DEF IsCut, Placed
<1>10. \A i \in 1..n : i - 1 \in 0..n /\ i \in 0..n /\ cut[i - 1] \in Nat /\ cut[i] \in Nat /\ cut[i] <= cut[n]
  <2>1. \A i \in 1..n : i - 1 \in 0..n /\ i \in 0..n /\ n \in 0..n /\ i \in 0..n
    BY <1>1
  <2> QED BY <1>1, <1>8, <1>9, <2>1, CutGrows
<1> DEFINE base == [i \in 1..n |-> IF i = 1 THEN 0 ELSE cut[i - 1] + 1]
<1>11. base \in [1..n -> Nat] /\ \A i \in 1..n : base[i] = IF i = 1 THEN 0 ELSE cut[i - 1] + 1
  BY <1>10
<1> HIDE DEF base
<1>12. ASSUME NEW i \in 1..n
       PROVE  /\ cut[i] = base[i] + Len(args[i])
              /\ \A k \in 1..Len(args[i]) : base[i] + k \in 1..Len(text) /\ text[base[i] + k] = args[i][k]
              /\ i = 1 => base[i] = 0
              /\ i # 1 => base[i] = cut[i - 1] + 1 /\ base[i] \in 1..Len(text) /\ text[base[i]] = ","
  <2>1. /\ cut[i - 1] \in Nat /\ cut[i] \in Nat /\ cut[i] <= cut[n] /\ cut[n] = Len(text)
        /\ cut[i] = cut[i - 1] + Len(parts[i]) /\ Len(args[i]) \in Nat
        /\ \A k \in 1..Len(parts[i]) : text[cut[i - 1] + k] = parts[i][k]
    BY <1>1, <1>9, <1>10
  <2>2. CASE i = 1
    <3>1. parts[i] = args[i] /\ cut[i - 1] = 0 /\ base[i] = 0
      <4>1. parts[i] = args[i] /\ base[i] = 0
        BY <1>2, <1>11, <2>2, Zenon
      <4>2. 1 - 1 = 0
        OBVIOUS
      <4> QED BY <1>9, <2>2, <4>1, <4>2, Zenon
    <3>2. cut[i] = base[i] + Len(args[i])
      BY <2>1, <3>1
    <3>3. \A k \in 1..Len(args[i]) : base[i] + k = k /\ k \in 1..Len(text) /\ text[k] = args[i][k]
      <4>1. Len(text) \in Nat /\ Len(args[i]) <= Len(text)
        BY <2>1, <3>1, <3>2, <1>7
      <4>2. \A k \in 1..Len(args[i]) : cut[i - 1] + k = k /\ base[i] + k = k /\ k \in 1..Len(text)
        BY <2>1, <3>1, <4>1
      <4> QED BY <2>1, <3>1, <4>2
    <3> QED BY <2>2, <3>1, <3>2, <3>3
  <2>3. CASE i # 1
    <3>1. base[i] = cut[i - 1] + 1 /\ Len(parts[i]) = Len(args[i]) + 1
          /\ parts[i][1] = "," /\ \A k \in 1..Len(args[i]) : parts[i][k + 1] = args[i][k]
      BY <1>4, <1>11, <2>3
    <3> DEFINE Fits(c, ci, l, lt) ==
                 /\ ci = (c + 1) + l /\ c + 1 \in 1..lt /\ 1 \in 1..(l + 1)
                 /\ \A k \in 1..l : /\ k + 1 \in 1..(l + 1) /\ c + (k + 1) = (c + 1) + k
                                    /\ (c + 1) + k \in 1..lt
    <3>5. \A c, ci, l, lt \in Nat : ci = c + (l + 1) /\ ci <= lt => Fits(c, ci, l, lt)
      OBVIOUS
    <3>6. cut[i] = cut[i - 1] + (Len(args[i]) + 1) /\ cut[i] <= Len(text) /\ Len(text) \in Nat
      <4>1. Len(text) \in Nat
        BY ONLY <1>7
      <4> QED BY ONLY <2>1, <3>1, <4>1, Zenon
    <3>7. Fits(cut[i - 1], cut[i], Len(args[i]), Len(text))
      <4> HIDE DEF Fits
      <4> QED BY ONLY <2>1, <3>5, <3>6, Zenon
    <3>8. /\ cut[i] = base[i] + Len(args[i]) /\ base[i] \in 1..Len(text) /\ 1 \in 1..Len(parts[i])
          /\ \A k \in 1..Len(args[i]) : /\ k + 1 \in 1..Len(parts[i])
                                        /\ cut[i - 1] + (k + 1) = base[i] + k
                                        /\ base[i] + k \in 1..Len(text)
      BY ONLY <3>1, <3>7, Zenon
    <3>2. cut[i] = base[i] + Len(args[i]) /\ base[i] \in 1..Len(text)
      BY <3>8
    <3>3. text[base[i]] = ","
      BY ONLY <2>1, <3>1, <3>8, Zenon
    <3>4. ASSUME NEW k \in 1..Len(args[i])
          PROVE  base[i] + k \in 1..Len(text) /\ text[base[i] + k] = args[i][k]
      <4>1. k + 1 \in 1..Len(parts[i]) /\ cut[i - 1] + (k + 1) = base[i] + k
            /\ base[i] + k \in 1..Len(text)
        BY <3>8, Zenon
      <4>2. text[cut[i - 1] + (k + 1)] = parts[i][k + 1]
        BY <2>1, <4>1
      <4> QED BY <3>1, <4>1, <4>2
    <3> QED BY <2>3, <3>1, <3>2, <3>3, <3>4
  <2> QED BY <2>2, <2>3
<1>13. ASSUME NEW i \in 1..n, i # 1 PROVE base[i] = base[i - 1] + Len(args[i - 1]) + 1
  <2>1. i - 1 \in 1..n
    BY <1>1, <1>13
  <2>2. cut[i - 1] = base[i - 1] + Len(args[i - 1])
    BY <1>12, <2>1
  <2> QED BY <1>12, <1>13, <2>2
<1>14. ASSUME NEW p \in 1..Len(text)
       PROVE  \E i \in 1..n : (\E k \in 1..Len(args[i]) : p = base[i] + k) \/ (i # 1 /\ p = base[i])
  <2>1. PICK i \in 1..n : p \in (cut[i - 1] + 1)..cut[i]
    BY <1>1, <1>8, <1>9, PlaceIsInAPart
  <2>2. cut[i - 1] \in Nat /\ cut[i] = base[i] + Len(args[i]) /\ Len(args[i]) \in Nat /\ base[i] \in Nat
    BY <1>1, <1>10, <1>11, <1>12
  <2>3. CASE i = 1
    <3>1. base[i] = 0 /\ cut[i - 1] = 0
      <4>1. 1 - 1 = 0
        OBVIOUS
      <4> QED BY <1>9, <1>12, <2>3, <4>1, Zenon
    <3>2. p \in 1..Len(args[i]) /\ p = base[i] + p
      BY <2>1, <2>2, <3>1
    <3> QED BY <3>2
  <2>4. CASE i # 1 /\ p = base[i]
    BY <2>4
  <2>5. CASE i # 1 /\ p # base[i]
    <3>1. base[i] = cut[i - 1] + 1
      BY <1>12, <2>5
    <3>2. p - base[i] \in 1..Len(args[i]) /\ p = base[i] + (p - base[i])
      BY <2>1, <2>2, <2>5, <3>1
    <3> QED BY <3>2
  <2> QED BY <2>3, <2>4, <2>5
<1>15. Len(text) = IF args = <<>> THEN 0 ELSE base[n] + Len(args[n])
  <2>1. CASE args = <<>>
    <3>1. n = 0
      BY <2>1 DEF n
    <3> QED BY <1>9, <2>1, <3>1
  <2>2. CASE args # <<>>
    <3>1. n \in 1..n
      BY <2>2 DEF n
    <3> QED BY <1>9, <1>12, <2>2, <3>1
  <2> QED BY <2>1, <2>2
<1>16. Separated(text, args, base)
  BY <1>11, <1>12, <1>13, <1>14, <1>15 DEF Separated, n
<1> QED BY <1>7, <1>16 DEF text

\* Between two arguments nothing is open, and in one only what it has opened.
Tidy(args, opens, closes) ==
  /\ args \in Seq(PieceTexts)
  /\ "," \notin opens /\ "," \notin closes
  /\ \A a \in PieceTexts : Depth(a, 1, Len(a), opens, closes) = 0

LocalDepth(text, args, base, opens, closes) ==
  \A i \in 1..Len(args) :
    /\ Depth(text, 1, base[i], opens, closes) = 0
    /\ \A k \in 0..Len(args[i]) :
         Depth(text, 1, base[i] + k, opens, closes) = Depth(args[i], 1, k, opens, closes)

\* Between the arguments the depth is 0, inside of one it is its own.
LEMMA DepthBetween ==
  ASSUME NEW args, NEW text, NEW base, Separated(text, args, base),
         NEW opens, NEW closes, Tidy(args, opens, closes)
  PROVE  LocalDepth(text, args, base, opens, closes)
<1> DEFINE n == Len(args)
           d(i) == Depth(text, 1, i, opens, closes)
           e(i, k) == Depth(args[i], 1, k, opens, closes)
           Local(i) == d(base[i]) = 0 /\ \A k \in 0..Len(args[i]) : d(base[i] + k) = e(i, k)
           S == {i \in 0..n : i = 0 \/ Local(i)}
<1>1. n \in Nat /\ \A i \in 1..n : args[i] \in PieceTexts /\ Len(args[i]) \in Nat
  <2>1. n \in Nat /\ \A i \in 1..n : args[i] \in PieceTexts
    <3>1. args \in Seq(PieceTexts)
      BY DEF Tidy
    <3> QED BY <3>1, ElementOfSeq, LenProperties
  <2>2. \A a \in PieceTexts : Len(a) \in Nat
    BY DEF PieceTexts
  <2> QED BY <2>1, <2>2, Zenon
<1>2. \A i \in 1..n : /\ base[i] \in Nat
                      /\ \A k \in 1..Len(args[i]) : text[base[i] + k] = args[i][k]
                      /\ i = 1 => base[i] = 0
                      /\ i # 1 => /\ base[i] = base[i - 1] + Len(args[i - 1]) + 1
                                  /\ text[base[i]] = ","
  BY DEF Separated
<1>3. /\ d(0) = 0 /\ \A i \in Nat : d(i) \in Int
      /\ \A i \in Nat \ {0} : d(i) = d(i - 1) + (IF text[i] \in opens THEN 1 ELSE 0)
                                             - (IF text[i] \in closes THEN 1 ELSE 0)
  <2>1. StepsBy(text, opens, closes)
    BY DepthStep
  <2> QED BY <2>1, Zenon DEF StepsBy
<1>4. \A i \in 1..n : e(i, Len(args[i])) = 0 /\ \A k \in Nat : e(i, k) \in Int
  <2>1. \A i \in 1..n : StepsBy(args[i], opens, closes)
    BY DepthStep
  <2>2. \A i \in 1..n : e(i, Len(args[i])) = 0
    BY <1>1, Zenon DEF Tidy
  <2> QED BY <2>1, <2>2, Zenon DEF StepsBy
<1> HIDE DEF n
<1>5. ASSUME NEW i \in 1..n, d(base[i]) = 0 PROVE Local(i)
  <2>1. base[i] \in Nat /\ Len(args[i]) \in Nat /\ \A k \in 1..Len(args[i]) : text[base[i] + k] = args[i][k]
    BY <1>1, <1>2
  <2>2. \A k \in 0..Len(args[i]) : d(base[i] + k) = d(base[i]) + e(i, k)
    <3>1. AddsDepth(text, base[i], args[i], opens, closes)
      BY ONLY <2>1, DepthOfPart, Zenon
    <3> QED BY <3>1, Zenon DEF AddsDepth
  <2>3. \A x \in Nat : \A k \in 0..x : k \in Nat
    OBVIOUS
  <2>4. \A k \in 0..Len(args[i]) : e(i, k) \in Int
    BY <1>4, <2>1, <2>3, Zenon
  <2> HIDE DEF d, e
  <2>5. \A x \in Int : 0 + x = x
    OBVIOUS
  <2> QED BY ONLY <1>5, <2>2, <2>4, <2>5, Zenon
<1> HIDE DEF d, e
<1>6. ASSUME NEW i \in 1..n, i - 1 \in S PROVE i \in S
  <2>1. d(base[i]) = 0
    <3>1. CASE i = 1
      BY <1>2, <1>3, <3>1, Zenon
    <3>2. CASE i # 1
      <4> DEFINE j == i - 1
      <4>1. j \in 1..n /\ Local(j)
        <5>1. j \in 1..n /\ j # 0
          BY <1>1, <3>2
        <5>2. j \in S
          BY <1>6
        <5> HIDE DEF j, Local
        <5> QED BY <5>1, <5>2
      <4>2. base[i] = base[j] + Len(args[j]) + 1 /\ text[base[i]] = "," /\ base[i] \in Nat
        BY <1>2, <3>2, Zenon
      <4> HIDE DEF j
      <4>3. base[j] \in Nat /\ Len(args[j]) \in Nat /\ e(j, Len(args[j])) = 0
        BY <1>1, <1>2, <1>4, <4>1, Zenon
      <4>4. \A x \in Nat : x \in 0..x
        OBVIOUS
      <4>5. d(base[j] + Len(args[j])) = 0
        BY <4>1, <4>3, <4>4, Zenon
      <4> DEFINE Behind(x, y, z) == z \in Nat \ {0} /\ z - 1 = x + y
      <4>6. \A x, y, z \in Nat : z = x + y + 1 => Behind(x, y, z)
        OBVIOUS
      <4>7. base[i] \in Nat \ {0} /\ base[i] - 1 = base[j] + Len(args[j])
        <5>1. Behind(base[j], Len(args[j]), base[i])
          <6> HIDE DEF Behind
          <6> QED BY <4>2, <4>3, <4>6, Zenon
        <5> QED BY <5>1, Zenon
      <4>8. text[base[i]] \notin opens /\ text[base[i]] \notin closes
        BY <4>2, Zenon DEF Tidy
      <4>9. d(base[i]) = d(base[i] - 1) + 0 - 0
        BY <1>3, <4>7, <4>8, Zenon
      <4>10. 0 + 0 - 0 = 0
        OBVIOUS
      <4> QED BY <4>5, <4>7, <4>9, <4>10, Zenon
    <3> QED BY <3>1, <3>2
  <2>2. Local(i)
    BY <1>5, <2>1
  <2>3. i \in 0..n
    BY <1>1
  <2> HIDE DEF Local
  <2> QED BY <2>2, <2>3
<1>7. \A i \in 1..n : Local(i)
  <2> HIDE DEF Local
  <2>1. 0 \in S
    BY <1>1
  <2>2. 0..n \subseteq S
    <3> HIDE DEF S
    <3> QED BY <1>1, <1>6, <2>1, IntervalInduction
  <2>3. \A i \in 1..n : i \in 0..n /\ i # 0
    OBVIOUS
  <2> QED BY <2>2, <2>3
<1> QED BY <1>7 DEF d, e, n, LocalDepth

\* What stands between two commas is balanced and has no loose comma.
LEMMA ArgumentsAreTidy ==
  ASSUME NEW args \in Seq(PieceTexts)
  PROVE  Tidy(args, Opens, Closes) /\ Tidy(args, Parens, {")"})
<1>1. \A a \in PieceTexts : /\ Depth(a, 1, Len(a), Opens, Closes) = 0
                               /\ Depth(a, 1, Len(a), Parens, {")"}) = 0
  BY DEF PieceTexts, IsPiece
<1>2. "," \notin Opens /\ "," \notin Closes /\ "," \notin Parens /\ "," \notin {")"}
  BY DEF Opens, Closes, Parens, Needles
<1> QED BY <1>1, <1>2 DEF Tidy

\* Later arguments start later.
LEMMA BaseGrows ==
  ASSUME NEW args, args \in Seq(PieceTexts), NEW text, NEW base, Separated(text, args, base)
  PROVE  \A j \in 1..Len(args) : \A i \in 1..(j - 1) : base[i] < base[j]
<1> DEFINE n == Len(args)
           S == {j \in 0..n : \A i \in 1..(j - 1) : base[i] < base[j]}
<1>1. n \in Nat /\ \A i \in 1..n : Len(args[i]) \in Nat
  <2>1. n \in Nat /\ \A i \in 1..n : args[i] \in PieceTexts
    BY ElementOfSeq, LenProperties
  <2>2. \A a \in PieceTexts : Len(a) \in Nat
    BY DEF PieceTexts
  <2> QED BY <2>1, <2>2, Zenon
<1>2. \A i \in 1..n : base[i] \in Nat /\ (i # 1 => base[i] = base[i - 1] + Len(args[i - 1]) + 1)
  BY DEF Separated
<1> HIDE DEF n
<1>3. ASSUME NEW j \in 1..n, j - 1 \in S PROVE j \in S
  <2>1. ASSUME NEW i \in 1..(j - 1) PROVE base[i] < base[j]
    <3>1. i \in 1..n /\ j - 1 \in 1..n /\ j # 1
      BY <1>1
    <3>2. base[j] = base[j - 1] + Len(args[j - 1]) + 1 /\ Len(args[j - 1]) \in Nat
          /\ base[i] \in Nat /\ base[j - 1] \in Nat
      BY <1>1, <1>2, <3>1, Zenon
    <3>3. \A x, y, l \in Nat : x <= y => x < y + l + 1
      OBVIOUS
    <3>4. base[i] <= base[j - 1]
      <4>1. CASE i = j - 1
        BY <3>2, <4>1
      <4>2. CASE i # j - 1
        <5>1. i \in 1..((j - 1) - 1)
          BY <4>2
        <5>2. base[i] < base[j - 1]
          BY <1>3, <5>1
        <5> QED BY <3>2, <5>2
      <4> QED BY <4>1, <4>2
    <3>5. base[i] < base[j - 1] + Len(args[j - 1]) + 1
      BY ONLY <3>2, <3>3, <3>4, Zenon
    <3> QED BY ONLY <3>2, <3>5, Zenon
  <2>2. j \in 0..n
    BY <1>1
  <2> QED BY <2>1, <2>2
<1>4. 0 \in S
  BY <1>1
<1>5. 0..n \subseteq S
  <2> HIDE DEF S
  <2> QED BY <1>1, <1>3, <1>4, IntervalInduction
<1>6. \A j \in 1..n : j \in 0..n
  OBVIOUS
<1> QED BY <1>5, <1>6 DEF n

\* auditcheck.py, arg_count: where no string has a comma in it, it counts what
\* the commas separate, the nothing behind the last one included.
LEMMA ArgCountIsPieces ==
  ASSUME NEW args, args \in Seq(PieceTexts), NEW text, text \in Seq(CodeTokens),
         NEW base, Separated(text, args, base), args # <<>> => text # <<>>,
         \A p \in DOMAIN text : text[p] # Literal
  PROVE  ArgCount(text) = Len(args)
<1> DEFINE n == Len(args)
           d(p) == Depth(text, 1, p, Opens, Closes)
           commas == {p \in DOMAIN text : text[p] = "," /\ d(p) = 0}
           f == [i \in 2..n |-> base[i]]
<1>0. /\ \A x \in Nat : /\ \A y \in 1..x : y \in 0..x /\ (y # 1 => y \in 2..x)
                        /\ \A y \in 2..x : y \in 1..x /\ y # 1
      /\ \A x, y \in Nat : x < y => x # y
  OBVIOUS
<1>1. n \in Nat /\ \A i \in 1..n : args[i] \in PieceTexts
  BY ElementOfSeq, LenProperties
<1>2. \A a \in PieceTexts : /\ Len(a) \in Nat
                            /\ \A k \in 1..Len(a) : a[k] = "," => Depth(a, 1, k, Opens, Closes) # 0
  <2>1. \A a \in PieceTexts : a \in Seq(CodeTokens) /\ IsPiece(a)
    BY DEF PieceTexts
  <2>2. \A a \in Seq(CodeTokens) : Len(a) \in Nat /\ DOMAIN a = 1..Len(a)
    OBVIOUS
  <2> QED BY <2>1, <2>2 DEF IsPiece
<1>3. DOMAIN text = 1..Len(text) /\ Len(text) \in Nat /\ (Len(text) = 0 <=> text = <<>>)
  OBVIOUS
<1>4. /\ \A i \in 1..n :
           /\ base[i] \in Nat
           /\ \A k \in 1..Len(args[i]) : base[i] + k \in 1..Len(text) /\ text[base[i] + k] = args[i][k]
           /\ i # 1 => base[i] \in 1..Len(text) /\ text[base[i]] = ","
      /\ Len(text) = IF args = <<>> THEN 0 ELSE base[n] + Len(args[n])
      /\ \A p \in 1..Len(text) : \E i \in 1..n :
           \/ \E k \in 1..Len(args[i]) : p = base[i] + k
           \/ i # 1 /\ p = base[i]
  BY DEF Separated
<1>5. \A i \in 1..n : d(base[i]) = 0
                      /\ \A k \in 0..Len(args[i]) : d(base[i] + k) = Depth(args[i], 1, k, Opens, Closes)
  <2>1. Tidy(args, Opens, Closes)
    BY ArgumentsAreTidy
  <2>2. LocalDepth(text, args, base, Opens, Closes)
    BY <2>1, DepthBetween, Zenon
  <2> QED BY <2>2, Zenon DEF LocalDepth
<1>6. args = <<>> <=> n = 0
  BY EmptySeq
<1> HIDE DEF n, d
<1>7. CASE n = 0
  <2>1. text = <<>>
    BY <1>3, <1>4, <1>6, <1>7
  <2> QED BY <1>7, <2>1 DEF ArgCount, n
<1>8. CASE n # 0
  <2>1. text # <<>>
    BY <1>6, <1>8
  <2>2. ASSUME NEW i \in 2..n PROVE i \in 1..n /\ base[i] \in commas
    <3>1. i \in 1..n /\ i # 1
      BY <1>1
    <3> QED BY <1>3, <1>4, <1>5, <3>1
  <2>3. ASSUME NEW p \in commas PROVE \E i \in 2..n : p = base[i]
    <3>1. p \in 1..Len(text) /\ text[p] = "," /\ d(p) = 0
      BY <1>3
    <3>2. PICK i \in 1..n : (\E k \in 1..Len(args[i]) : p = base[i] + k) \/ (i # 1 /\ p = base[i])
      BY <1>4, <3>1
    <3>3. ASSUME NEW k \in 1..Len(args[i]), p = base[i] + k PROVE FALSE
      <4>1. args[i][k] = ","
        BY <1>4, <3>1, <3>3
      <4>2. Len(args[i]) \in Nat
        BY <1>1, <1>2
      <4>3. k \in 0..Len(args[i])
        BY <1>0, <4>2, Zenon
      <4>4. Depth(args[i], 1, k, Opens, Closes) = 0
        BY <1>5, <3>1, <3>3, <4>3, Zenon
      <4> QED BY <1>1, <1>2, <4>1, <4>4, Zenon
    <3>4. i # 1 /\ p = base[i]
      BY <3>2, <3>3
    <3>5. i \in 2..n
      BY <1>0, <1>1, <3>4, Zenon
    <3> QED BY <3>4, <3>5
  <2>4. \A i, j \in 2..n : base[i] = base[j] => i = j
    <3>1. ASSUME NEW i \in 2..n, NEW j \in 2..n, i < j PROVE base[i] # base[j]
      <4>1. j \in 1..n /\ i \in 1..(j - 1) /\ i \in 1..n
        BY <1>1, <3>1
      <4>2. base[i] < base[j]
        BY <4>1, BaseGrows, Zenon DEF n
      <4> QED BY <1>0, <1>4, <4>1, <4>2, Zenon
    <3> QED BY <1>1, <3>1
  <2>5. f \in Bijection(2..n, commas)
    <3> HIDE DEF commas
    <3>1. f \in [2..n -> commas] /\ \A i \in 2..n : f[i] = base[i]
      BY <2>2
    <3> HIDE DEF f
    <3>2. f \in Injection(2..n, commas)
      BY <2>4, <3>1 DEF Injection, IsInjective
    <3>3. f \in Surjection(2..n, commas)
      BY <2>3, <3>1 DEF Surjection
    <3> QED BY <3>2, <3>3 DEF Bijection
  <2>6. Cardinality(commas) = n - 1
    <3>1. IsFiniteSet(2..n) /\ Cardinality(2..n) = n - 1
      <4>1. IsFiniteSet(2..n) /\ Cardinality(2..n) = IF 2 > n THEN 0 ELSE n - 2 + 1
        BY <1>1, FS_Interval
      <4> QED BY <1>1, <1>8, <4>1
    <3>2. ExistsBijection(2..n, commas)
      BY <2>5, Zenon DEF ExistsBijection
    <3> QED BY <3>1, <3>2, FS_Bijection, Zenon
  <2>7. ArgCount(text) = 1 + Cardinality(commas)
    <3>1. commas = {p \in DOMAIN text : text[p] \in {",", Literal} /\ d(p) = 0}
      OBVIOUS
    <3> QED BY <2>1, <3>1, Zenon DEF ArgCount, d
  <2> HIDE DEF commas
  <2>8. 1 + (n - 1) = n
    BY <1>1
  <2> QED BY <2>6, <2>7, <2>8, Zenon DEF n
<1> QED BY <1>7, <1>8

\* The text of a call is its needle, what is between, and a parenthesis.
Enclosed(text, needle, inside) ==
  /\ text \in Seq(CodeTokens) /\ Len(text) = Len(inside) + 2
  /\ text[1] = needle /\ text[Len(inside) + 2] = ")"
  /\ \A p \in 1..Len(inside) : text[1 + p] = inside[p]

\* A call is its name, what is between the parentheses, and the last one.
LEMMA CallIsEnclosed ==
  ASSUME NEW needle \in Needles, NEW args, args \in Seq(PieceTexts)
  PROVE  Enclosed(Call(needle, args), needle, Between(args))
<1> DEFINE one == <<needle>>
           close == <<")">>
           inside == Between(args)
           text == Call(needle, args)
<1>1. one \in Seq(CodeTokens) /\ Len(one) = 1 /\ one[1] = needle
  <2>1. needle \in CodeTokens
    BY DEF CodeTokens
  <2> HIDE DEF text, inside, close
  <2> QED BY <2>1
<1>2. close \in Seq(CodeTokens) /\ Len(close) = 1 /\ close[1] = ")"
  BY DEF CodeTokens
<1>3. inside \in Seq(CodeTokens)
  BY BetweenIsSeparated
<1>4. text = (one \o inside) \o close
  BY Zenon DEF Call, Between
<1> DEFINE head == one \o inside
<1>5. text = head \o close
  BY <1>4
<1>6. head = one \o inside
  OBVIOUS
<1> HIDE DEF one, close, inside, text, head
<1>7. head \in Seq(CodeTokens) /\ IsConcat(head, one, inside)
  BY <1>1, <1>3, <1>6, Concatenated, Zenon
<1>8. text \in Seq(CodeTokens) /\ IsConcat(text, head, close)
  BY <1>2, <1>5, <1>7, Concatenated, Zenon
<1>9. /\ Len(inside) \in Nat /\ Len(head) = 1 + Len(inside)
      /\ \A p \in 1..1 : p \in 1..Len(head) /\ head[p] = one[p]
      /\ \A k \in 1..Len(inside) : 1 + k \in 1..Len(head) /\ head[1 + k] = inside[k]
  BY <1>1, <1>7, Zenon DEF IsConcat
<1>10. /\ Len(text) = Len(head) + 1
       /\ \A p \in 1..Len(head) : text[p] = head[p]
       /\ \A k \in 1..1 : text[Len(head) + k] = close[k]
  BY <1>2, <1>8, Zenon DEF IsConcat
<1>11. 1 \in 1..1 /\ \A x \in Nat : (1 + x) + 1 = x + 2
  OBVIOUS
<1>12. Len(text) = Len(inside) + 2
  BY <1>9, <1>10, <1>11, Zenon
<1>13. text[1] = needle
  <2>1. 1 \in 1..Len(head) /\ head[1] = needle
    BY <1>1, <1>9, <1>11, Zenon
  <2> QED BY <1>10, <2>1, Zenon
<1>14. text[Len(inside) + 2] = ")"
  <2>1. text[Len(head) + 1] = ")"
    BY <1>2, <1>10, <1>11, Zenon
  <2>2. Len(head) + 1 = Len(inside) + 2
    BY <1>9, <1>11, Zenon
  <2> QED BY <2>1, <2>2, Zenon
<1>15. \A p \in 1..Len(inside) : text[1 + p] = inside[p]
  BY <1>9, <1>10, Zenon
<1> QED BY <1>8, <1>12, <1>13, <1>14, <1>15, Zenon DEF Enclosed, text, inside

\* Within the arguments of a call its parenthesis is open.
LEMMA NothingClosesBefore ==
  ASSUME NEW args, args \in Seq(PieceTexts), NEW text, NEW base, Separated(text, args, base)
  PROVE  /\ \A p \in 1..Len(text) : Depth(text, 1, p, Parens, {")"}) >= 0
         /\ Depth(text, 1, Len(text), Parens, {")"}) = 0
<1> DEFINE d(p) == Depth(text, 1, p, Parens, {")"})
           e(a, k) == Depth(a, 1, k, Parens, {")"})
           n == Len(args)
<1>0. /\ \A x \in Nat : x \in 0..x /\ \A y \in 1..x : y \in 0..x
      /\ 0 >= 0
  OBVIOUS
<1>1. n \in Nat /\ \A i \in 1..n : args[i] \in PieceTexts
  BY ElementOfSeq, LenProperties
<1>2. \A a \in PieceTexts : /\ Len(a) \in Nat /\ e(a, Len(a)) = 0
                               /\ \A k \in 1..Len(a) : e(a, k) >= 0
  <2>1. \A a \in PieceTexts : a \in Seq(CodeTokens) /\ IsPiece(a)
    BY DEF PieceTexts
  <2>2. \A a \in Seq(CodeTokens) : Len(a) \in Nat /\ DOMAIN a = 1..Len(a)
    OBVIOUS
  <2> QED BY <2>1, <2>2 DEF IsPiece
<1>3. \A i \in 1..n : d(base[i]) = 0 /\ \A k \in 0..Len(args[i]) : d(base[i] + k) = e(args[i], k)
  <2>1. Tidy(args, Parens, {")"})
    BY ArgumentsAreTidy
  <2>2. LocalDepth(text, args, base, Parens, {")"})
    BY <2>1, DepthBetween, Zenon
  <2> QED BY <2>2, Zenon DEF LocalDepth
<1>4. d(0) = 0
  <2>1. StepsBy(text, Parens, {")"})
    BY DepthStep
  <2> QED BY <2>1, Zenon DEF StepsBy
<1>5. /\ Len(text) = IF args = <<>> THEN 0 ELSE base[n] + Len(args[n])
      /\ \A p \in 1..Len(text) : \E i \in 1..n :
           \/ \E k \in 1..Len(args[i]) : p = base[i] + k
           \/ i # 1 /\ p = base[i]
  BY DEF Separated
<1>6. args = <<>> \/ n \in 1..n
  BY EmptySeq
<1> HIDE DEF d, e, n
<1>7. ASSUME NEW p \in 1..Len(text) PROVE d(p) >= 0
  <2>1. PICK i \in 1..n : (\E k \in 1..Len(args[i]) : p = base[i] + k) \/ (i # 1 /\ p = base[i])
    BY <1>5
  <2>2. ASSUME NEW k \in 1..Len(args[i]), p = base[i] + k PROVE d(p) >= 0
    <3>1. k \in 0..Len(args[i]) /\ e(args[i], k) >= 0
      BY <1>0, <1>1, <1>2, Zenon
    <3> QED BY <1>3, <2>2, <3>1, Zenon
  <2>3. CASE p = base[i]
    BY <1>0, <1>3, <2>3, Zenon
  <2> QED BY <2>1, <2>2, <2>3
<1>8. d(Len(text)) = 0
  <2>1. CASE args = <<>>
    BY <1>4, <1>5, <2>1, Zenon
  <2>2. CASE n \in 1..n /\ args # <<>>
    <3>1. Len(args[n]) \in 0..Len(args[n]) /\ e(args[n], Len(args[n])) = 0
      BY <1>0, <1>1, <1>2, <2>2, Zenon
    <3> QED BY <1>3, <1>5, <2>2, <3>1, Zenon
  <2> QED BY <1>6, <2>1, <2>2
<1> QED BY <1>7, <1>8 DEF d

\* auditcheck.py, check_call_arity: it finds the end of a call.
THEOREM ClosedAtIsRight ==
  ASSUME NEW needle \in Needles, NEW args, args \in Seq(PieceTexts),
         NEW text, NEW inside, NEW base,
         inside \in Seq(CodeTokens), Separated(inside, args, base), Enclosed(text, needle, inside)
  PROVE  ClosedAt(text, 1) = Len(text)
<1> DEFINE d(p) == Depth(text, 1, p, Parens, {")"})
           e(k) == Depth(inside, 1, k, Parens, {")"})
           m == Len(inside)
           shut == {j \in 1..Len(text) : d(j) = 0}
<1>1. m \in Nat /\ Len(text) = m + 2 /\ text[1] = needle /\ text[m + 2] = ")"
      /\ \A p \in 1..m : text[1 + p] = inside[p]
  <2>1. m \in Nat
    OBVIOUS
  <2> QED BY <2>1 DEF Enclosed
<1>2. e(m) = 0 /\ \A k \in 1..m : e(k) >= 0
  BY NothingClosesBefore
<1>3. /\ d(0) = 0 /\ \A i \in Nat : d(i) \in Int
      /\ \A i \in Nat \ {0} : d(i) = d(i - 1) + (IF text[i] \in Parens THEN 1 ELSE 0)
                                             - (IF text[i] \in {")"} THEN 1 ELSE 0)
  <2>1. StepsBy(text, Parens, {")"})
    BY DepthStep
  <2> QED BY <2>1, Zenon DEF StepsBy
<1>4. e(0) = 0 /\ \A k \in Nat : e(k) \in Int
  <2>1. StepsBy(inside, Parens, {")"})
    BY DepthStep
  <2> QED BY <2>1, Zenon DEF StepsBy
<1>5. \A k \in 0..m : d(1 + k) = d(1) + e(k)
  <2>1. AddsDepth(text, 1, inside, Parens, {")"})
    BY ONLY <1>1, DepthOfPart
  <2> QED BY <2>1, Zenon DEF AddsDepth
<1>6. ClosedAt(text, 1) = IF shut = {} THEN Len(text) + 1
                                       ELSE CHOOSE j \in shut : \A k \in shut : j <= k
  BY Zenon DEF ClosedAt
<1> HIDE DEF d, e, m
<1>7. d(1) = 1
  <2>1. needle \in Parens /\ needle \notin {")"}
    BY DEF Parens, Needles
  <2>2. 1 \in Nat \ {0} /\ 1 - 1 = 0 /\ 0 + 1 - 0 = 1
    OBVIOUS
  <2> QED BY <1>1, <1>3, <2>1, <2>2, Zenon
<1>8. ASSUME NEW j \in 1..(m + 1) PROVE d(j) # 0
  <2>1. j - 1 \in 0..m /\ 1 + (j - 1) = j /\ (j - 1 = 0 \/ j - 1 \in 1..m) /\ j - 1 \in Nat
    BY <1>1
  <2>2. d(j) = 1 + e(j - 1)
    BY <1>5, <1>7, <2>1
  <2>3. e(j - 1) >= 0 /\ e(j - 1) \in Int
    BY <1>2, <1>4, <2>1
  <2> QED BY ONLY <2>2, <2>3
<1>9. d(m + 2) = 0
  <2>1. m + 2 \in Nat \ {0} /\ (m + 2) - 1 = 1 + m /\ m \in 0..m
    BY <1>1
  <2>2. d(1 + m) = 1 + 0
    BY <1>2, <1>5, <1>7, <2>1, Zenon
  <2>3. ")" \notin Parens /\ ")" \in {")"}
    BY DEF Parens, Needles
  <2>4. d(m + 2) = (1 + 0) + 0 - 1
    BY <1>1, <1>3, <2>1, <2>2, <2>3, Zenon
  <2> QED BY ONLY <2>4
<1>10. shut = {m + 2}
  <2>1. \A j \in 1..(m + 2) : j \in 1..(m + 1) \/ j = m + 2
    BY ONLY <1>1
  <2>2. m + 2 \in 1..(m + 2)
    BY ONLY <1>1
  <2> QED BY <1>1, <1>8, <1>9, <2>1, <2>2
<1> HIDE DEF shut
<1>11. m + 2 <= m + 2
  BY ONLY <1>1
<1>12. (CHOOSE j \in shut : \A k \in shut : j <= k) = m + 2
  BY <1>10, <1>11, Zenon
<1> QED BY <1>1, <1>6, <1>10, <1>12, Zenon

\* A token between the parentheses is a comma or of an argument.
LEMMA ArgumentsAreBetween ==
  ASSUME NEW needle, NEW text, NEW inside, inside \in Seq(CodeTokens), Enclosed(text, needle, inside)
  PROVE  SubSeq(text, 2, Len(text) - 1) = inside
<1> DEFINE m == Len(inside)
           sub == SubSeq(text, 2, Len(text) - 1)
<1>1. m \in Nat /\ Len(text) - 1 = m + 1 /\ text \in Seq(CodeTokens) /\ Len(text) = m + 2
      /\ \A p \in 1..m : text[1 + p] = inside[p]
  <2>1. m \in Nat
    OBVIOUS
  <2>2. Len(text) = m + 2
    BY DEF Enclosed
  <2>3. Len(text) - 1 = m + 1
    BY ONLY <2>1, <2>2
  <2> QED BY <2>1, <2>2, <2>3 DEF Enclosed
<1>2. \A i \in 2..(m + 1) : text[i] \in CodeTokens
  <2>1. \A i \in 2..(m + 1) : i \in 1..(m + 2)
    BY ONLY <1>1
  <2> QED BY <1>1, <2>1, ElementOfSeq
<1>3. /\ sub \in Seq(CodeTokens)
      /\ Len(sub) = IF 2 <= m + 1 THEN (m + 1) - 2 + 1 ELSE 0
      /\ \A i \in 1..((m + 1) - 2 + 1) : sub[i] = text[2 + i - 1]
  <2>1. 2 \in Int /\ m + 1 \in Int
    BY <1>1
  <2>2. sub = SubSeq(text, 2, m + 1)
    BY <1>1
  <2> HIDE DEF m, sub
  <2> QED BY ONLY <1>2, <2>1, <2>2, SubSeqProperties
<1> HIDE DEF m, sub
<1>4. Len(sub) = m /\ \A i \in 1..m : sub[i] = text[1 + i]
  <2>1. (m + 1) - 2 + 1 = m /\ (2 <= m + 1 \/ m = 0) /\ \A i \in 1..m : 2 + i - 1 = 1 + i
    BY ONLY <1>1
  <2> QED BY <1>3, <2>1
<1> QED BY <1>1, <1>3, <1>4, SeqEqual DEF m, sub

\* auditcheck.py, check_call_arity: the first place of a text is one, if the needle
\* is there.
LEMMA FirstIsASite ==
  ASSUME NEW text, text \in Seq(CodeTokens), text # <<>>, NEW needle, text[1] = needle
  PROVE  1 \in Sites(text, needle)
<1> DEFINE n == Len(text)
           after(i, from) == IF i >= from /\ text[i] = needle THEN ClosedAt(text, i) + 1 ELSE from
           Def(h) == h = [i \in 0..Len(text) |-> IF i = 0 THEN 1 ELSE after(i, h[i - 1])]
           behind == CHOOSE h : Def(h)
           T == {1} \cup {ClosedAt(text, i) + 1 : i \in 1..n}
           step == [i \in 1..n |-> [from \in T |-> after(i, from)]]
<1>1. n \in Nat /\ DOMAIN text = 1..n /\ 1 \in 1..n
  OBVIOUS
<1>2. Sites(text, needle) = {i \in DOMAIN text : text[i] = needle /\ i >= behind[i - 1]}
  BY Zenon DEF Sites
<1> HIDE DEF n
<1>3. \E h : Def(h)
  <2>1. step \in [1..n -> [T -> T]] /\ 1 \in T
    <3>1. \A i \in 1..n : \A from \in T : after(i, from) \in T
      OBVIOUS
    <3> HIDE DEF T, after
    <3>2. step \in [1..n -> [T -> T]]
      BY <3>1
    <3> QED BY <3>2 DEF T
  <2>2. PICK g \in [0..n -> T] : Iterates(g, n, 1, step)
    <3> HIDE DEF step, T
    <3> QED BY <1>1, <2>1, Recursion
  <2>3. ASSUME NEW i \in 1..n PROVE g[i] = after(i, g[i - 1])
    <3>1. i - 1 \in 0..n
      BY <1>1
    <3>2. g[i - 1] \in T /\ g[i] = step[i][g[i - 1]]
      BY <2>2, <3>1, Zenon DEF Iterates
    <3> HIDE DEF after, T
    <3> QED BY <3>2
  <2>4. g[0] = 1
    BY <2>2 DEF Iterates
  <2> DEFINE h == [i \in 0..Len(text) |-> g[i]]
  <2>5. ASSUME NEW i \in 0..Len(text)
        PROVE  g[i] = IF i = 0 THEN 1 ELSE after(i, h[i - 1])
    <3>1. CASE i = 0
      BY <2>4, <3>1
    <3>2. CASE i # 0
      <4>1. i \in 1..n /\ i - 1 \in 0..Len(text)
        BY <1>1, <3>2 DEF n
      <4>2. h[i - 1] = g[i - 1]
        BY <4>1
      <4> HIDE DEF h, after
      <4> QED BY <2>3, <3>2, <4>1, <4>2
    <3> QED BY <3>1, <3>2
  <2>6. Def(h)
    <3> HIDE DEF after
    <3> QED BY <2>5, Zenon
  <2> HIDE DEF h, Def
  <2> QED BY <2>6
<1>4. Def(behind)
  <2> HIDE DEF Def
  <2> QED BY <1>3, Zenon
<1> HIDE DEF behind
<1>5. behind[0] = 1
  <2>1. 0 \in 0..Len(text)
    BY <1>1 DEF n
  <2> HIDE DEF after
  <2> QED BY <1>4, <2>1, Zenon
<1>6. 1 >= 1 /\ 1 - 1 = 0
  OBVIOUS
<1> QED BY <1>1, <1>2, <1>5, <1>6, Zenon

Plain(args) == \A i \in DOMAIN args : \A j \in DOMAIN args[i] : args[i][j] # Literal

\* The tripwire counts the pieces of a call, and there is a needle in it for
\* no other reason than a call.
Counted(text, needle, args) ==
  /\ 1 \in Sites(text, needle)
  /\ Plain(args) => ArgCount(SubSeq(text, 1 + 1, ClosedAt(text, 1) - 1)) = Len(args)
  /\ \A p \in DOMAIN text : text[p] \in Needles =>
       text[p] = needle \/ \E i \in DOMAIN args : \E j \in DOMAIN args[i] : args[i][j] = text[p]

\* auditcheck.py: a call is found where it starts, and its pieces are counted.
LEMMA CallIsCounted ==
  ASSUME NEW needle \in Needles, NEW args, args \in Seq(PieceTexts), args # <<>> => args[1] # <<>>,
         NEW text, text = Call(needle, args)
  PROVE  Counted(text, needle, args)
<1> DEFINE inside == Between(args)
<1>1. inside \in Seq(CodeTokens) /\ \E base : Separated(inside, args, base)
  BY BetweenIsSeparated
<1>2. Enclosed(text, needle, inside)
  BY CallIsEnclosed
<1> HIDE DEF inside
<1>3. PICK base : Separated(inside, args, base)
  BY <1>1
<1>4. ClosedAt(text, 1) = Len(text)
  BY <1>1, <1>2, <1>3, ClosedAtIsRight, Zenon
<1>5. SubSeq(text, 2, Len(text) - 1) = inside
  BY <1>1, <1>2, ArgumentsAreBetween, Zenon
<1>6. Plain(args) => ArgCount(inside) = Len(args)
  <2> SUFFICES ASSUME Plain(args) PROVE ArgCount(inside) = Len(args)
    OBVIOUS
  <2>1. /\ DOMAIN args = 1..Len(args) /\ \A i \in 1..Len(args) : args[i] \in Seq(CodeTokens)
        /\ DOMAIN inside = 1..Len(inside) /\ (args # <<>> => 1 \in 1..Len(args))
    <3>1. \A i \in 1..Len(args) : args[i] \in PieceTexts
      BY ElementOfSeq
    <3>2. \A a \in PieceTexts : a \in Seq(CodeTokens)
      BY DEF PieceTexts
    <3>3. DOMAIN args = 1..Len(args) /\ (args # <<>> => 1 \in 1..Len(args))
      OBVIOUS
    <3>4. DOMAIN inside = 1..Len(inside)
      BY <1>1
    <3> QED BY <3>1, <3>2, <3>3, <3>4
  <2>2. \A i \in 1..Len(args) : DOMAIN args[i] = 1..Len(args[i]) /\ (args[i] # <<>> => 1 \in 1..Len(args[i]))
    <3>1. \A a \in Seq(CodeTokens) : DOMAIN a = 1..Len(a) /\ (a # <<>> => 1 \in 1..Len(a))
      OBVIOUS
    <3> QED BY <2>1, <3>1
  <2>3. args # <<>> => inside # <<>>
    <3> SUFFICES ASSUME args # <<>> PROVE inside # <<>>
      OBVIOUS
    <3>1. 1 \in 1..Len(args) /\ 1 \in 1..Len(args[1])
      BY <2>1, <2>2
    <3>2. base[1] + 1 \in 1..Len(inside)
      BY <1>3, <3>1, Zenon DEF Separated
    <3>3. Len(<<>>) = 0 /\ \A x : x \notin 1..0
      OBVIOUS
    <3> QED BY <3>2, <3>3
  <2>4. ASSUME NEW p \in DOMAIN inside PROVE inside[p] # Literal
    <3>1. PICK i \in 1..Len(args) : \/ \E k \in 1..Len(args[i]) : p = base[i] + k
                                    \/ i # 1 /\ p = base[i]
      BY <1>3, <2>1 DEF Separated
    <3>2. CASE i # 1 /\ p = base[i]
      <4>1. inside[p] = ","
        BY <1>3, <3>2 DEF Separated
      <4> QED BY <4>1 DEF Literal
    <3>3. ASSUME NEW k \in 1..Len(args[i]), p = base[i] + k PROVE inside[p] # Literal
      <4>1. inside[p] = args[i][k]
        BY <1>3, <3>3 DEF Separated
      <4> QED BY <2>1, <2>2, <4>1, Zenon DEF Plain
    <3> QED BY <3>1, <3>2, <3>3
  <2> QED BY <1>1, <1>3, <2>3, <2>4, ArgCountIsPieces, Zenon
<1>7. 1 + 1 = 2
  OBVIOUS
<1>8. /\ text \in Seq(CodeTokens) /\ text[1] = needle /\ Len(text) = Len(inside) + 2
      /\ text[Len(inside) + 2] = ")" /\ \A p \in 1..Len(inside) : text[1 + p] = inside[p]
  BY <1>2 DEF Enclosed
<1>9. Len(inside) \in Nat
  BY <1>1
<1>10. text # <<>>
  <2>1. Len(text) # 0
    BY ONLY <1>8, <1>9
  <2> QED BY <2>1
<1>11. 1 \in Sites(text, needle)
  BY <1>8, <1>10, FirstIsASite, Zenon
<1>12. /\ DOMAIN args = 1..Len(args)
       /\ \A i \in 1..Len(args) : DOMAIN args[i] = 1..Len(args[i])
  <2>1. \A i \in 1..Len(args) : args[i] \in PieceTexts
    BY ElementOfSeq
  <2>2. \A a \in PieceTexts : DOMAIN a = 1..Len(a)
    BY DEF PieceTexts
  <2> QED BY <2>1, <2>2, LenProperties, Zenon
<1>13. ASSUME NEW p \in DOMAIN text, text[p] \in Needles, text[p] # needle
       PROVE  \E i \in DOMAIN args : \E j \in DOMAIN args[i] : args[i][j] = text[p]
  <2>1. p \in 1..(Len(inside) + 2)
    BY ONLY <1>8, <1>13, LenProperties
  <2>2. p # 1 /\ p # Len(inside) + 2
    BY <1>8, <1>13 DEF Needles
  <2>3. p - 1 \in 1..Len(inside) /\ 1 + (p - 1) = p
    BY ONLY <1>9, <2>1, <2>2
  <2>4. inside[p - 1] = text[p]
    BY ONLY <1>8, <2>3, Zenon
  <2>5. PICK i \in 1..Len(args) : \/ \E k \in 1..Len(args[i]) : p - 1 = base[i] + k
                                  \/ i # 1 /\ p - 1 = base[i]
    BY <1>3, <2>3 DEF Separated
  <2>6. CASE i # 1 /\ p - 1 = base[i]
    <3>1. text[p] = ","
      BY <1>3, <2>4, <2>6 DEF Separated
    <3> QED BY <1>13, <3>1 DEF Needles
  <2>7. ASSUME NEW k \in 1..Len(args[i]), p - 1 = base[i] + k
        PROVE  \E j \in DOMAIN args[i] : args[i][j] = text[p]
    <3>1. args[i][k] = text[p]
      BY <1>3, <2>4, <2>7 DEF Separated
    <3> QED BY <1>12, <3>1, Zenon
  <2> QED BY <1>12, <2>5, <2>6, <2>7, Zenon
<1> QED BY <1>4, <1>5, <1>6, <1>7, <1>11, <1>13, Zenon DEF Counted

\* What a caller writes between the commas are its arguments, and nothing
\* behind the last comma of many lines.
LEMMA PiecesAreArguments ==
  ASSUME NEW c \in Calls
  PROVE  /\ Pieces(c) \in Seq(PieceTexts)
         /\ Pieces(c) # <<>> => Pieces(c)[1] # <<>>
         /\ \A i \in DOMAIN Pieces(c) : \A j \in DOMAIN Pieces(c)[i] :
              i \in DOMAIN c.args /\ j \in DOMAIN c.args[i] /\ c.args[i][j] = Pieces(c)[i][j]
         /\ Len(Pieces(c)) = 3 => Len(c.args) = IF c.lines = "many" THEN 2 ELSE 3
<1> DEFINE args == c.args
           n == Len(args)
<1>1. /\ args \in Seq(ArgumentTexts) /\ n \in Nat /\ DOMAIN args = 1..n
      /\ \A i \in 1..n : args[i] \in ArgumentTexts
  <2>1. args \in Seq(ArgumentTexts)
    BY DEF Calls
  <2> HIDE DEF args
  <2> QED BY <2>1, ElementOfSeq, LenProperties
<1>2. ArgumentTexts \subseteq PieceTexts /\ <<>> \notin ArgumentTexts
  BY DEF ArgumentTexts
<1>3. <<>> \in PieceTexts
  <2>1. <<>> \in Seq(CodeTokens) /\ Len(<<>>) = 0 /\ \A i : i \notin DOMAIN <<>>
    OBVIOUS
  <2>2. Depth(<<>>, 1, 0, Parens, {")"}) = 0 /\ Depth(<<>>, 1, 0, Opens, Closes) = 0
    <3>1. StepsBy(<<>>, Parens, {")"}) /\ StepsBy(<<>>, Opens, Closes)
      BY DepthStep
    <3> QED BY <3>1 DEF StepsBy
  <2>3. IsPiece(<<>>)
    BY <2>1, <2>2 DEF IsPiece
  <2> QED BY <2>1, <2>3 DEF PieceTexts
<1>4. args \in Seq(PieceTexts)
  BY <1>1, <1>2
<1>5. Pieces(c) = IF c.lines = "many" /\ args # <<>> THEN Append(args, <<>>) ELSE args
  BY DEF Pieces
<1>6. c.lines \in {"one", "many"}
  BY DEF Calls
<1> HIDE DEF args
<1>7. CASE c.lines = "many" /\ args # <<>>
  <2> DEFINE more == Append(args, <<>>)
  <2>1. more \in Seq(PieceTexts)
    BY <1>3, <1>4
  <2>2. Len(more) = n + 1 /\ more[n + 1] = <<>> /\ \A i \in 1..n : more[i] = args[i]
    BY <1>4
  <2>3. n \in Nat \ {0} /\ DOMAIN more = 1..(n + 1)
    <3>1. n # 0
      BY <1>1, <1>7, EmptySeq
    <3>2. DOMAIN more = 1..Len(more)
      BY <2>1
    <3> QED BY <1>1, <2>2, <3>1, <3>2
  <2>4. Pieces(c) = more
    BY <1>5, <1>7
  <2> HIDE DEF more, n
  <2>5. more[1] # <<>>
    <3>1. 1 \in 1..n
      BY <2>3
    <3> QED BY <1>1, <1>2, <2>2, <3>1
  <2>6. ASSUME NEW i \in DOMAIN more, NEW j \in DOMAIN more[i]
        PROVE  i \in 1..n
    <3>1. i # n + 1
      <4>1. \A x : x \notin DOMAIN <<>>
        OBVIOUS
      <4> QED BY <2>2, <4>1
    <3> QED BY <2>3, <3>1
  <2>7. \A i \in DOMAIN more : \A j \in DOMAIN more[i] :
          i \in DOMAIN args /\ j \in DOMAIN args[i] /\ args[i][j] = more[i][j]
    BY <1>1, <2>2, <2>6
  <2>8. Len(more) = 3 => n = 2
    BY <2>2, <2>3
  <2> QED BY <1>7, <2>1, <2>4, <2>5, <2>7, <2>8 DEF args, n
<1>8. CASE ~(c.lines = "many" /\ args # <<>>)
  <2>1. Pieces(c) = args
    BY <1>5, <1>8, Zenon
  <2>2. args # <<>> => args[1] # <<>>
    <3>1. args # <<>> => 1 \in 1..n
      BY <1>4
    <3> QED BY <1>1, <1>2, <3>1
  <2>3. n = 3 => c.lines = "one"
    <3>1. n = 3 => args # <<>>
      BY EmptySeq
    <3> QED BY <1>6, <1>8, <3>1
  <2> QED BY <1>4, <2>1, <2>2, <2>3 DEF args, n
<1> QED BY <1>7, <1>8

\* The handlers the expression finds one after the other come one after the
\* other in the chain.
LEMMA OrderIsTheChains ==
  ASSUME NEW setup, setup \in Seq(UseStatements), HasStandardAuditOrder(setup),
         \A i \in DOMAIN setup : setup[i].comment = "no"
  PROVE  InPlace(Chain(setup))
<1> DEFINE n == Len(setup)
           parts == [i \in DOMAIN setup |-> IF setup[i].comment = "yes" THEN <<>> ELSE setup[i].handlers]
           chain == Chain(setup)
<1>1. n \in Nat /\ DOMAIN setup = 1..n /\ \A i \in 1..n : setup[i] \in UseStatements
  BY ElementOfSeq, LenProperties
<1>2. \A i \in 1..n : setup[i].handlers \in Seq(STRING) /\ setup[i].handlers # <<>>
  BY <1>1 DEF UseStatements
<1>3. \A i \in 1..n : parts[i] = setup[i].handlers
  BY <1>1
<1>4. \A i \in 1..n : parts[i] \in Seq(STRING) /\ Len(parts[i]) \in Nat \ {0}
  <2>1. \A w \in Seq(STRING) : w # <<>> => Len(w) \in Nat \ {0}
    OBVIOUS
  <2> HIDE DEF parts
  <2> QED BY <1>2, <1>3, <2>1, Zenon
<1>5. parts \in Seq(Seq(STRING)) /\ Len(parts) = n
  <2>1. parts = [i \in 1..n |-> parts[i]]
    BY <1>1
  <2> HIDE DEF parts, n
  <2> QED BY <1>1, <1>4, <2>1
<1>6. chain = FlattenSeq(parts)
  BY DEF Chain
<1>7. Len(Order) = 6
  BY DEF Order
<1> HIDE DEF parts, chain
<1> DEFINE place(i) == Cardinality(Uses(setup) \cap 1..i)
           stands(i, k) == i \in 1..n /\ place(i) = k /\ setup[i].handlers[1] = Order[k]
<1>8. \A k \in 1..6 : \E i \in 1..n : stands(i, k)
  <2>1. Uses(setup) \subseteq 1..n
    BY <1>1 DEF Uses
  <2> HIDE DEF n
  <2> QED BY <1>7, <2>1 DEF HasStandardAuditOrder
<1>9. ASSUME NEW i \in 1..n, NEW j \in 1..n, i <= j PROVE place(i) <= place(j)
  <2>1. 1..i \subseteq 1..j /\ IsFiniteSet(1..j)
    BY <1>1, <1>9, FS_Interval
  <2>2. Uses(setup) \cap 1..i \subseteq Uses(setup) \cap 1..j /\ IsFiniteSet(Uses(setup) \cap 1..j)
    <3>1. Uses(setup) \cap 1..j \in SUBSET (1..j)
      OBVIOUS
    <3> QED BY <2>1, <3>1, FS_Subset
  <2> HIDE DEF n
  <2> QED BY <2>2, FS_Subset
<1>10. chain \in Seq(STRING)
  BY <1>5, <1>6, Flattened
<1>11. PICK cut : IsCut(cut, parts, n) /\ Placed(chain, cut, parts, n)
  BY <1>5, <1>6, Flattened
<1> HIDE DEF n
<1>12. /\ cut \in [0..n -> Nat] /\ Len(chain) = cut[n]
       /\ \A i \in 1..n : cut[i] = cut[i - 1] + Len(parts[i])
       /\ \A i \in 1..n : \A k \in 1..Len(parts[i]) : chain[cut[i - 1] + k] = parts[i][k]
  BY <1>11 DEF IsCut, Placed
<1>13. \A j \in 0..n : \A i \in 0..j : cut[i] \in Nat /\ cut[i] <= cut[j]
  BY <1>1, <1>11, CutGrows
<1>14. DOMAIN chain = 1..Len(chain) /\ Len(chain) \in Nat
  BY <1>10
<1>15. ASSUME NEW i \in 1..n
       PROVE  /\ cut[i - 1] \in Nat /\ cut[i - 1] + 1 \in DOMAIN chain
              /\ chain[cut[i - 1] + 1] = setup[i].handlers[1]
              /\ cut[i - 1] < cut[i]
  <2>1. i \in 1..n /\ i - 1 \in 0..n /\ i \in 0..n /\ n \in 0..n /\ i - 1 \in 0..i
    BY <1>1
  <2>2. cut[i - 1] \in Nat /\ cut[i] <= cut[n] /\ cut[n] = Len(chain)
        /\ cut[i] = cut[i - 1] + Len(parts[i]) /\ Len(parts[i]) \in Nat \ {0}
    BY <1>4, <1>12, <1>13, <2>1
  <2> DEFINE Fits(c, ci, l, lt) == c + 1 \in 1..lt /\ c < ci /\ 1 \in 1..l
  <2>3. \A c, ci, lt \in Nat : \A l \in Nat \ {0} : ci = c + l /\ ci <= lt => Fits(c, ci, l, lt)
    OBVIOUS
  <2>4. cut[i] \in Nat
    BY <1>12, <2>1
  <2>5. Fits(cut[i - 1], cut[i], Len(parts[i]), Len(chain))
    <3> HIDE DEF Fits
    <3> QED BY <1>14, <2>2, <2>3, <2>4, Zenon
  <2>6. chain[cut[i - 1] + 1] = parts[i][1]
    BY <1>12, <2>1, <2>5, Zenon
  <2> QED BY <1>3, <1>14, <2>1, <2>2, <2>5, <2>6, Zenon
<1>16. ASSUME NEW i \in 1..5
       PROVE  \E j, k \in DOMAIN chain : j < k /\ chain[j] = Order[i] /\ chain[k] = Order[i + 1]
  <2>1. i \in 1..6 /\ i + 1 \in 1..6 /\ ~(i + 1 <= i)
    OBVIOUS
  <2>2. PICK p \in 1..n : stands(p, i)
    BY <1>8, <2>1
  <2>3. PICK q \in 1..n : stands(q, i + 1)
    BY <1>8, <2>1
  <2>4. ~(q <= p)
    <3>1. place(p) = i /\ place(q) = i + 1
      BY <2>2, <2>3
    <3> HIDE DEF place, stands
    <3> QED BY <1>9, <2>1, <3>1
  <2>5. p <= q - 1 /\ p \in 0..n /\ q - 1 \in 0..n /\ p \in 0..(q - 1)
    BY <1>1, <2>4
  <2>6. cut[p] <= cut[q - 1]
    BY <1>13, <2>5
  <2>7. /\ cut[p - 1] \in Nat /\ cut[p - 1] + 1 \in DOMAIN chain /\ chain[cut[p - 1] + 1] = Order[i]
        /\ cut[p - 1] < cut[p]
    BY <1>15, <2>2
  <2>8. /\ cut[q - 1] \in Nat /\ cut[q - 1] + 1 \in DOMAIN chain /\ chain[cut[q - 1] + 1] = Order[i + 1]
    BY <1>15, <2>3
  <2>9. cut[p] \in Nat
    BY <1>12, <2>5
  <2>10. cut[p - 1] + 1 < cut[q - 1] + 1
    BY ONLY <2>6, <2>7, <2>8, <2>9
  <2> QED BY <2>7, <2>8, <2>10, Zenon
<1>17. Len(Order) - 1 = 5
  BY <1>7
<1> QED BY <1>16, <1>17, Zenon DEF InPlace, chain

\* A service auditcheck.py accepts has the chain and the calls the rows of
\* its audit log depend on.
THEOREM AuditIsWiredHolds == Spec => []AuditIsWired
<1>1. TypeOK => AuditIsWired
  <2> SUFFICES ASSUME TypeOK,
                      NEW found \in Migrations(svc),
                      AuditErrors(svc, {TextOf(c) : c \in svc.calls}, found) = {},
                      \A i \in DOMAIN svc.setup : svc.setup[i].comment = "no"
               PROVE  /\ InPlace(Chain(svc.setup))
                      /\ \A needle \in Needles : \E c \in svc.calls :
                           \/ c.needle = needle
                           \/ \E i \in DOMAIN c.args : \E j \in DOMAIN c.args[i] : c.args[i][j] = needle
                      /\ \A c \in svc.calls :
                           ~HasLiteral(c) => Len(c.args) = IF c.lines = "many" THEN 2 ELSE 3
    BY DEF AuditIsWired
  <2> DEFINE texts == {TextOf(c) : c \in svc.calls}
  <2>1. svc.setup \in Seq(UseStatements) /\ svc.calls \subseteq Calls /\ \A c \in svc.calls : c.needle \in Needles
    BY DEF TypeOK, ServiceTexts, Calls
  <2>2. MiddlewareErrors(svc) = {} /\ ArityErrors(texts) = {}
    BY DEF AuditErrors
  <2>3. HasStandardAuditOrder(svc.setup)
    BY <2>2 DEF MiddlewareErrors
  <2>4. InPlace(Chain(svc.setup))
    BY <2>1, <2>3, OrderIsTheChains
  <2>5. ASSUME NEW needle \in Needles
        PROVE  /\ \E text \in texts : Sites(text, needle) # {}
               /\ \A text \in texts : \A i \in Sites(text, needle) :
                    ArgCount(SubSeq(text, i + 1, ClosedAt(text, i) - 1)) = 3
    <3> HIDE DEF texts
    <3> DEFINE of(n) == (IF \A text \in texts : Sites(text, n) = {} THEN {"no call site"} ELSE {})
                        \cup {"arity" : text \in {t \in texts : \E i \in Sites(t, n) :
                                ArgCount(SubSeq(t, i + 1, ClosedAt(t, i) - 1)) # 3}}
    <3>1. ArityErrors(texts) = UNION {of(n) : n \in Needles}
      BY DEF ArityErrors
    <3>2. of(needle) = {}
      <4> HIDE DEF of
      <4> QED BY <2>2, <3>1
    <3> QED BY <3>2
  <2>6. ASSUME NEW c \in svc.calls PROVE Counted(TextOf(c), c.needle, Pieces(c))
    BY <2>1, PiecesAreArguments, CallIsCounted, Zenon DEF TextOf
  <2>7. ASSUME NEW needle \in Needles
        PROVE  \E c \in svc.calls :
                 \/ c.needle = needle
                 \/ \E i \in DOMAIN c.args : \E j \in DOMAIN c.args[i] : c.args[i][j] = needle
    <3>1. PICK c \in svc.calls : Sites(TextOf(c), needle) # {}
      BY <2>5
    <3>2. PICK p \in DOMAIN TextOf(c) : TextOf(c)[p] = needle
      BY <3>1 DEF Sites
    <3>3. Counted(TextOf(c), c.needle, Pieces(c))
      BY <2>6
    <3>4. \/ needle = c.needle
          \/ \E i \in DOMAIN Pieces(c) : \E j \in DOMAIN Pieces(c)[i] : Pieces(c)[i][j] = needle
      BY <3>2, <3>3, Zenon DEF Counted
    <3>5. \A i \in DOMAIN Pieces(c) : \A j \in DOMAIN Pieces(c)[i] :
            i \in DOMAIN c.args /\ j \in DOMAIN c.args[i] /\ c.args[i][j] = Pieces(c)[i][j]
      BY <2>1, PiecesAreArguments
    <3>6. CASE \E i \in DOMAIN Pieces(c) : \E j \in DOMAIN Pieces(c)[i] : Pieces(c)[i][j] = needle
      <4>1. \E i \in DOMAIN c.args : \E j \in DOMAIN c.args[i] : c.args[i][j] = needle
        BY ONLY <3>5, <3>6
      <4> QED BY <4>1
    <3> QED BY <3>4, <3>6
  <2>8. ASSUME NEW c \in svc.calls, ~HasLiteral(c)
        PROVE  Len(c.args) = IF c.lines = "many" THEN 2 ELSE 3
    <3> DEFINE text == TextOf(c)
    <3>1. text \in texts /\ c.needle \in Needles
      BY <2>1
    <3>2. /\ Len(Pieces(c)) = 3 => Len(c.args) = IF c.lines = "many" THEN 2 ELSE 3
          /\ \A i \in DOMAIN Pieces(c) : \A j \in DOMAIN Pieces(c)[i] :
               i \in DOMAIN c.args /\ j \in DOMAIN c.args[i] /\ c.args[i][j] = Pieces(c)[i][j]
      BY <2>1, PiecesAreArguments
    <3>3. Plain(Pieces(c))
      BY <2>8, <3>2, Zenon DEF Plain, HasLiteral
    <3>4. 1 \in Sites(text, c.needle) /\ ArgCount(SubSeq(text, 1 + 1, ClosedAt(text, 1) - 1)) = Len(Pieces(c))
      BY <2>6, <3>3, Zenon DEF Counted
    <3> HIDE DEF text, texts
    <3> QED BY <2>5, <3>1, <3>2, <3>4, Zenon
  <2> QED BY <2>4, <2>7, <2>8
<1> QED BY <1>1, TypeInvariant, PTL
-----------------------------------------------------------------------------
\* What CanonicalForm and Nodes make of the token at i.
CanonicalPart(s, i) ==
  IF i \in InCdata(s) THEN <<s[i]>>
  ELSE IF s[i].kind = "space" /\ ~Inner(s, i) THEN <<>>
  ELSE Written(s[i])

NodePart(s, i) ==
  IF i \in InCdata(s) THEN <<[code |-> TRUE, t |-> s[i]]>>
  ELSE IF s[i].kind = "space"
    THEN IF Inner(s, i) THEN <<[code |-> FALSE, t |-> Blank]>> ELSE <<>>
  ELSE IF s[i].kind = "empty"
    THEN <<[code |-> FALSE, t |-> [[s[i] EXCEPT !.attrs = @ \ Volatile] EXCEPT !.kind = "open"]],
           [code |-> FALSE, t |-> Token("close", s[i].val, {})]>>
  ELSE <<[code |-> FALSE, t |-> [s[i] EXCEPT !.attrs = @ \ Volatile]]>>

Start == "cdata start"
End == "cdata end"
Marks == {Start, End}
NodeSet == [code : BOOLEAN, t : Tokens]

\* Node by node the two parts say the same, and the ends of a CDATA section
\* stay what they are.
PartsAgree(t, hidden, cpart, npart) ==
  /\ cpart \in Seq(Tokens) /\ npart \in Seq(NodeSet) /\ Len(npart) = Len(cpart)
  /\ \A k \in 1..Len(cpart) : /\ npart[k] = [code |-> hidden, t |-> cpart[k]]
                              /\ cpart[k].kind \in Marks => t.kind = cpart[k].kind
  /\ t.kind \in Marks => Len(cpart) = 1 /\ cpart[1].kind = t.kind

\* A token that is written as one token is one node.
LEMMA OneNode ==
  ASSUME NEW t, NEW hidden \in BOOLEAN, NEW u \in Tokens, u.kind = t.kind
  PROVE  PartsAgree(t, hidden, <<u>>, <<[code |-> hidden, t |-> u]>>)
<1>1. [code |-> hidden, t |-> u] \in NodeSet
  BY DEF NodeSet
<1> DEFINE node == [code |-> hidden, t |-> u]
<1> HIDE DEF node
<1>2. <<u>> \in Seq(Tokens) /\ <<node>> \in Seq(NodeSet) /\ Len(<<u>>) = 1 /\ Len(<<node>>) = 1
      /\ <<u>>[1] = u /\ <<node>>[1] = node
  BY <1>1 DEF node
<1>3. \A k \in 1..1 : k = 1
  OBVIOUS
<1>4. PartsAgree(t, hidden, <<u>>, <<node>>)
  BY <1>2, <1>3 DEF PartsAgree, node
<1> QED BY <1>4 DEF node

\* _canon, token by token: it writes the node of each.
LEMMA PartsOfAToken ==
  ASSUME NEW s \in Seq(Tokens), NEW i \in DOMAIN s, s[i].kind # "escaped"
  PROVE  PartsAgree(s[i], i \in InCdata(s), CanonicalPart(s, i), NodePart(s, i))
<1> DEFINE t == s[i]
           bare == [t EXCEPT !.attrs = t.attrs \ Volatile]
<1>1. t \in Tokens
  OBVIOUS
<1>2. (i \in InCdata(s)) \in BOOLEAN
  BY DEF InCdata
<1>3. bare \in Tokens /\ bare.kind = t.kind
  BY <1>1 DEF Tokens
<1>4. CASE i \in InCdata(s)
  <2>1. CanonicalPart(s, i) = <<t>> /\ NodePart(s, i) = <<[code |-> TRUE, t |-> t]>>
    BY <1>4 DEF CanonicalPart, NodePart
  <2>2. PartsAgree(t, TRUE, <<t>>, <<[code |-> TRUE, t |-> t]>>)
    BY <1>1, OneNode, Zenon
  <2>3. (i \in InCdata(s)) = TRUE
    BY <1>2, <1>4
  <2> QED BY <2>1, <2>2, <2>3
<1>5. CASE i \notin InCdata(s) /\ t.kind = "space" /\ ~Inner(s, i)
  <2>1. CanonicalPart(s, i) = <<>> /\ NodePart(s, i) = <<>>
    BY <1>5 DEF CanonicalPart, NodePart
  <2>2. <<>> \in Seq(Tokens) /\ <<>> \in Seq(NodeSet) /\ Len(<<>>) = 0 /\ 1..0 = {}
    OBVIOUS
  <2>3. t.kind \notin Marks
    BY <1>5, Zenon DEF Marks, Start, End
  <2> QED BY <2>1, <2>2, <2>3 DEF PartsAgree
<1>8. CASE i \notin InCdata(s) /\ t.kind = "space" /\ Inner(s, i)
  <2>1. CanonicalPart(s, i) = <<Blank>>
    BY <1>8 DEF CanonicalPart, Written
  <2>2. NodePart(s, i) = <<[code |-> FALSE, t |-> Blank]>>
    BY <1>8 DEF NodePart
  <2>3. Blank \in Tokens /\ Blank.kind = t.kind
    <3>1. "space" \in Kinds
      BY DEF Kinds
    <3>2. Blank \in Tokens /\ Blank.kind = "space"
      BY <3>1 DEF Blank, Token, Tokens
    <3> QED BY <1>8, <3>2
  <2>4. PartsAgree(t, FALSE, <<Blank>>, <<[code |-> FALSE, t |-> Blank]>>)
    <3> HIDE DEF t
    <3> QED BY <2>3, OneNode, Zenon
  <2>5. (i \in InCdata(s)) = FALSE
    BY <1>2, <1>8
  <2> QED BY <2>1, <2>2, <2>4, <2>5
<1>6. CASE i \notin InCdata(s) /\ t.kind = "empty"
  <2> DEFINE u == [bare EXCEPT !.kind = "open"]
             v == Token("close", t.val, {})
  <2>1. u \in Tokens /\ v \in Tokens /\ u.kind = "open" /\ v.kind = "close"
    <3>1. "open" \in Kinds /\ "close" \in Kinds /\ t.val \in STRING \cup {"none"}
      BY <1>1 DEF Kinds, Tokens
    <3> QED BY <1>1, <1>3, <3>1 DEF Tokens, Token
  <2> DEFINE nu == [code |-> FALSE, t |-> u]
             nv == [code |-> FALSE, t |-> v]
  <2>2. CanonicalPart(s, i) = <<u, v>>
    BY <1>6 DEF CanonicalPart, Written
  <2>3. NodePart(s, i) = <<nu, nv>>
    BY <1>6 DEF NodePart
  <2>4. nu \in NodeSet /\ nv \in NodeSet
    <3> HIDE DEF u, v
    <3> QED BY <2>1 DEF NodeSet
  <2>5. (i \in InCdata(s)) = FALSE
    BY <1>2, <1>6
  <2>6. t.kind \notin Marks /\ "open" \notin Marks /\ "close" \notin Marks
    BY <1>6, Zenon DEF Marks, Start, End
  <2>7. /\ \A T : \A x, y \in T : <<x, y>> \in Seq(T) /\ Len(<<x, y>>) = 2 /\ <<x, y>>[1] = x /\ <<x, y>>[2] = y
        /\ \A k \in 1..2 : k = 1 \/ k = 2
    OBVIOUS
  <2>8. nu = [code |-> FALSE, t |-> u] /\ nv = [code |-> FALSE, t |-> v]
    OBVIOUS
  <2> HIDE DEF u, v, nu, nv
  <2>9. PartsAgree(t, FALSE, <<u, v>>, <<nu, nv>>)
    <3> DEFINE cpart == <<u, v>>
               npart == <<nu, nv>>
    <3>1. /\ cpart \in Seq(Tokens) /\ npart \in Seq(NodeSet) /\ Len(cpart) = 2 /\ Len(npart) = 2
          /\ cpart[1] = u /\ cpart[2] = v /\ npart[1] = nu /\ npart[2] = nv
      BY <2>1, <2>4, <2>7, Zenon
    <3>2. u.kind \notin Marks /\ v.kind \notin Marks
      BY <2>1, <2>6
    <3> HIDE DEF cpart, npart, t
    <3>3. ASSUME NEW k \in 1..2
          PROVE  /\ npart[k] = [code |-> FALSE, t |-> cpart[k]]
                 /\ cpart[k].kind \in Marks => t.kind = cpart[k].kind
      <4>1. CASE k = 1
        BY <2>8, <3>1, <3>2, <4>1, Zenon
      <4>2. CASE k = 2
        BY <2>8, <3>1, <3>2, <4>2, Zenon
      <4> QED BY <2>7, <4>1, <4>2
    <3>4. PartsAgree(t, FALSE, cpart, npart)
      BY ONLY <2>6, <3>1, <3>3 DEF PartsAgree
    <3> QED BY <3>4 DEF cpart, npart
  <2> QED BY <2>2, <2>3, <2>5, <2>9
<1>7. CASE i \notin InCdata(s) /\ t.kind # "space" /\ t.kind # "empty"
  <2>1. CanonicalPart(s, i) = <<bare>>
    BY <1>7 DEF CanonicalPart, Written
  <2>2. NodePart(s, i) = <<[code |-> FALSE, t |-> bare]>>
    BY <1>7 DEF NodePart
  <2>3. PartsAgree(t, FALSE, <<bare>>, <<[code |-> FALSE, t |-> bare]>>)
    <3> HIDE DEF t, bare
    <3> QED BY <1>3, OneNode, Zenon
  <2>4. (i \in InCdata(s)) = FALSE
    BY <1>2, <1>7
  <2> QED BY <2>1, <2>2, <2>3, <2>4
<1> QED BY <1>4, <1>5, <1>6, <1>7, <1>8

\* Parts of equal lengths lie in equal places.
LEMMA CutsAreEqual ==
  ASSUME NEW n \in Nat, NEW cut, NEW parts, NEW cut2, NEW parts2,
         IsCut(cut, parts, n), IsCut(cut2, parts2, n),
         \A i \in 1..n : Len(parts2[i]) = Len(parts[i])
  PROVE  \A i \in 0..n : cut2[i] = cut[i]
<1> DEFINE S == {i \in 0..n : cut2[i] = cut[i]}
<1>1. 0 \in S
  BY DEF IsCut
<1>2. ASSUME NEW i \in 1..n, i - 1 \in S PROVE i \in S
  BY <1>2 DEF IsCut
<1>3. 0..n \subseteq S
  <2> HIDE DEF S
  <2> QED BY <1>1, <1>2, IntervalInduction
<1> QED BY <1>3

\* The CDATA sections of a text of kinds.
Sections(k, n) ==
  {i \in 1..n : /\ k[i] # End
                /\ \E j \in 1..(i - 1) : k[j] = Start /\ \A h \in j..i : k[h] # End
                /\ \E j \in i..n : k[j] = End}

\* from[m] is where the place m of a text c comes from in a text s: places
\* keep their order, and the ends of a section come from one place each.
Mapped(sk, n, ck, l, from) ==
  /\ from \in [1..l -> 1..n]
  /\ \A m, p \in 1..l : from[m] < from[p] => m < p
  /\ \A j \in 1..n : sk[j] \in Marks => \E p \in 1..l : from[p] = j /\ ck[p] = sk[j]
  /\ \A m \in 1..l : ck[m] \in Marks => sk[from[m]] = ck[m]
  /\ \A m, p \in 1..l : from[m] = from[p] /\ sk[from[m]] \in Marks => m = p

\* What is in a section is in one in the text it comes from, and conversely.
LEMMA SectionsAreKept ==
  ASSUME NEW n \in Nat, NEW l \in Nat, NEW sk, NEW ck, NEW from, Mapped(sk, n, ck, l, from),
         NEW m \in 1..l
  PROVE  from[m] \in Sections(sk, n) <=> m \in Sections(ck, l)
<1>1. \A p \in 1..l : from[p] \in 1..n
  BY DEF Mapped
<1>2. \A p, q \in 1..l : from[p] < from[q] => p < q
  BY DEF Mapped
<1>3. \A j \in 1..n : sk[j] \in Marks => \E p \in 1..l : from[p] = j /\ ck[p] = sk[j]
  BY DEF Mapped
<1>4. \A p \in 1..l : ck[p] \in Marks => sk[from[p]] = ck[p]
  BY DEF Mapped
<1>5. \A p, q \in 1..l : from[p] = from[q] /\ sk[from[p]] \in Marks => p = q
  BY DEF Mapped
<1>6. PICK i \in 1..n : i = from[m]
  BY <1>1
<1>7. Start \in Marks /\ End \in Marks /\ Start # End
  BY Zenon DEF Marks, Start, End
<1>8. \A p \in 1..l : /\ p <= m => from[p] <= i
                      /\ m <= p => i <= from[p]
  BY <1>1, <1>2, <1>6
<1>9. ASSUME i \in Sections(sk, n) PROVE m \in Sections(ck, l)
  <2>1. sk[i] # End
    BY <1>9 DEF Sections
  <2>2. PICK j \in 1..(i - 1) : sk[j] = Start /\ \A k \in j..i : sk[k] # End
    BY <1>9 DEF Sections
  <2>3. PICK e \in i..n : sk[e] = End
    BY <1>9 DEF Sections
  <2>4. ck[m] # End
    BY <1>4, <1>6, <1>7, <2>1
  <2>5. j \in 1..n /\ j < i
    BY <1>6
  <2>6. PICK p \in 1..l : from[p] = j /\ ck[p] = Start
    BY <1>3, <1>7, <2>2, <2>5
  <2>7. p < m
    BY <1>2, <1>6, <2>5, <2>6
  <2>8. ASSUME NEW k \in p..m, ck[k] = End PROVE FALSE
    <3>1. k \in 1..l /\ p <= k /\ k <= m
      BY <1>6
    <3>2. PICK b \in 1..n : from[k] = b
      BY <1>1, <3>1
    <3>3. sk[b] = End
      BY <1>4, <1>7, <2>8, <3>1, <3>2
    <3>4. ~(b < j)
      BY <1>2, <2>5, <2>6, <3>1, <3>2
    <3>5. b <= i
      BY <1>8, <3>1, <3>2
    <3> QED BY <1>6, <2>2, <2>5, <3>3, <3>4, <3>5
  <2>9. e \in 1..n /\ i < e
    BY <1>6, <2>1, <2>3
  <2>10. PICK q \in 1..l : from[q] = e /\ ck[q] = End
    BY <1>3, <1>7, <2>3, <2>9
  <2>11. m < q
    BY <1>2, <1>6, <2>9, <2>10
  <2>12. p \in 1..(m - 1) /\ q \in m..l /\ m \in 1..l
    BY <1>6, <2>7, <2>11
  <2> QED BY <2>4, <2>6, <2>8, <2>10, <2>12 DEF Sections
<1>10. ASSUME m \in Sections(ck, l) PROVE i \in Sections(sk, n)
  <2>1. ck[m] # End
    BY <1>10 DEF Sections
  <2>2. PICK p \in 1..(m - 1) : ck[p] = Start /\ \A k \in p..m : ck[k] # End
    BY <1>10 DEF Sections
  <2>3. PICK q \in m..l : ck[q] = End
    BY <1>10 DEF Sections
  <2>4. sk[i] # End
    <3> SUFFICES ASSUME sk[i] = End PROVE FALSE
      OBVIOUS
    <3>1. PICK r \in 1..l : from[r] = i /\ ck[r] = End
      BY <1>3, <1>6, <1>7
    <3>2. r = m
      BY <1>5, <1>6, <1>7, <3>1
    <3> QED BY <2>1, <3>1, <3>2
  <2>5. p \in 1..l /\ p < m /\ q \in 1..l /\ m <= q
    BY <1>6
  <2>6. PICK j \in 1..n : j = from[p]
    BY <1>1, <2>5
  <2>7. sk[j] = Start
    BY <1>4, <1>7, <2>2, <2>5, <2>6
  <2>8. j < i
    <3>1. j <= i
      BY <1>8, <2>5, <2>6
    <3>2. j # i
      BY <1>5, <1>6, <1>7, <2>5, <2>6, <2>7
    <3> QED BY <1>6, <3>1, <3>2
  <2>9. ASSUME NEW b \in j..i, sk[b] = End PROVE FALSE
    <3>1. b \in 1..n /\ j < b /\ b < i
      BY <1>6, <1>7, <2>4, <2>7, <2>9
    <3>2. PICK k \in 1..l : from[k] = b /\ ck[k] = End
      BY <1>3, <1>7, <2>9, <3>1
    <3>3. p < k /\ k < m
      BY <1>2, <1>6, <2>5, <2>6, <3>1, <3>2
    <3> QED BY <2>2, <2>5, <3>2, <3>3
  <2>10. PICK e \in 1..n : from[q] = e
    BY <1>1, <2>5
  <2>11. sk[e] = End /\ i <= e
    BY <1>4, <1>7, <1>8, <2>3, <2>5, <2>10
  <2>12. j \in 1..(i - 1) /\ e \in i..n /\ i \in 1..n
    BY <1>6, <2>8, <2>11
  <2> QED BY <2>4, <2>7, <2>9, <2>11, <2>12 DEF Sections
<1> QED BY <1>6, <1>9, <1>10

\* RE_CDATA looks at the kinds only.
LEMMA InCdataIsSections ==
  ASSUME NEW s \in Seq(Tokens), NEW k, \A j \in 1..Len(s) : k[j] = s[j].kind
  PROVE  InCdata(s) = Sections(k, Len(s))
<1> DEFINE n == Len(s)
<1>1. DOMAIN s = 1..n /\ n \in Nat
  OBVIOUS
<1> HIDE DEF n
<1>2. \A i \in 1..n : \A j \in 1..(i - 1) : j \in 1..n /\ \A h \in j..i : h \in 1..n
  BY <1>1
<1>3. \A i \in 1..n : \A j \in i..n : j \in 1..n
  BY <1>1
<1>4. \A j \in 1..n : k[j] = s[j].kind
  BY DEF n
<1>5. InCdata(s) =
        {i \in 1..n : /\ s[i].kind # End
                      /\ \E j \in 1..(i - 1) : s[j].kind = Start /\ \A h \in j..i : s[h].kind # End
                      /\ \E j \in i..n : s[j].kind = End}
  BY <1>1, Zenon DEF InCdata, Start, End, n
<1>6. ASSUME NEW i \in 1..n
      PROVE  /\ k[i] = s[i].kind
             /\ (\E j \in 1..(i - 1) : s[j].kind = Start /\ \A h \in j..i : s[h].kind # End)
                <=> \E j \in 1..(i - 1) : k[j] = Start /\ \A h \in j..i : k[h] # End
             /\ (\E j \in i..n : s[j].kind = End) <=> \E j \in i..n : k[j] = End
  BY <1>2, <1>3, <1>4, Zenon
<1>7. Sections(k, n) =
        {i \in 1..n : /\ k[i] # End
                      /\ \E j \in 1..(i - 1) : k[j] = Start /\ \A h \in j..i : k[h] # End
                      /\ \E j \in i..n : k[j] = End}
  BY Zenon DEF Sections
<1> QED BY <1>5, <1>6, <1>7, Zenon DEF n

\* Where the places of a flattened sequence come from.
Origins(from, cut, parts, n) ==
  /\ from \in [1..cut[n] -> 1..n]
  /\ \A m \in 1..cut[n] : m - cut[from[m] - 1] \in 1..Len(parts[from[m]])
  /\ \A i \in 1..n : \A k \in 1..Len(parts[i]) : cut[i - 1] + k \in 1..cut[n] /\ from[cut[i - 1] + k] = i
  /\ \A m, p \in 1..cut[n] : from[m] < from[p] => m < p

\* Every place of a flattened sequence comes from one part, in order.
LEMMA PlacesHaveOrigins ==
  ASSUME NEW n \in Nat, NEW cut, NEW parts, IsCut(cut, parts, n)
  PROVE  \E from : Origins(from, cut, parts, n)
<1> DEFINE from == [m \in 1..cut[n] |-> CHOOSE i \in 1..n : m \in (cut[i - 1] + 1)..cut[i]]
<1>1. /\ cut \in [0..n -> Nat]
      /\ \A i \in 1..n : cut[i] = cut[i - 1] + Len(parts[i]) /\ Len(parts[i]) \in Nat
  BY DEF IsCut
<1>2. \A i \in 1..n : i - 1 \in 0..n /\ i \in 0..n /\ cut[i - 1] \in Nat /\ cut[i] \in Nat
  <2>1. \A i \in 1..n : i - 1 \in 0..n /\ i \in 0..n
    OBVIOUS
  <2> QED BY <1>1, <2>1
<1>3. \A j \in 0..n : \A i \in 0..j : cut[i] \in Nat /\ cut[i] <= cut[j]
  BY CutGrows
<1>4. \A m \in 1..cut[n] : from[m] \in 1..n /\ m \in (cut[from[m] - 1] + 1)..cut[from[m]]
  <2>1. \A m \in 1..cut[n] : \E i \in 1..n : m \in (cut[i - 1] + 1)..cut[i]
    BY PlaceIsInAPart
  <2> QED BY <2>1
<1>5. from \in [1..cut[n] -> 1..n]
  BY <1>4
<1> HIDE DEF from
<1>6. ASSUME NEW m \in 1..cut[n] PROVE m - cut[from[m] - 1] \in 1..Len(parts[from[m]])
  <2>1. PICK i \in 1..n : i = from[m]
    BY <1>4
  <2>2. m \in (cut[i - 1] + 1)..cut[i] /\ cut[i - 1] \in Nat /\ cut[i] = cut[i - 1] + Len(parts[i]) /\ Len(parts[i]) \in Nat
    BY <1>1, <1>2, <1>4, <2>1
  <2>3. m - cut[i - 1] \in 1..Len(parts[i])
    BY <2>2
  <2> QED BY <2>1, <2>3
<1>7. ASSUME NEW i \in 1..n, NEW m, NEW j \in 1..n,
             m \in (cut[i - 1] + 1)..cut[i], NEW p, p \in (cut[j - 1] + 1)..cut[j], i < j
      PROVE  m < p
  <2>1. j - 1 \in 0..n /\ i \in 0..(j - 1)
    BY <1>7
  <2>2. cut[i] <= cut[j - 1]
    BY <1>3, <2>1
  <2>3. cut[i - 1] \in Nat /\ cut[i] \in Nat /\ cut[j - 1] \in Nat /\ cut[j] \in Nat
    BY <1>2
  <2> QED BY <1>7, <2>2, <2>3
<1>8. ASSUME NEW i \in 1..n, NEW k \in 1..Len(parts[i])
      PROVE  cut[i - 1] + k \in 1..cut[n] /\ from[cut[i - 1] + k] = i
  <2> DEFINE m == cut[i - 1] + k
  <2>1. m \in (cut[i - 1] + 1)..cut[i]
    <3>1. cut[i - 1] \in Nat /\ cut[i] = cut[i - 1] + Len(parts[i]) /\ Len(parts[i]) \in Nat
      BY <1>1, <1>2
    <3> QED BY <3>1
  <2>2. m \in 1..cut[n]
    <3>1. cut[i] <= cut[n] /\ cut[i - 1] \in Nat /\ cut[i] \in Nat /\ cut[n] \in Nat
      BY <1>2, <1>3
    <3> HIDE DEF m
    <3> QED BY <2>1, <3>1
  <2> HIDE DEF m
  <2>3. PICK j \in 1..n : j = from[m]
    BY <1>4, <2>2
  <2>4. m \in (cut[j - 1] + 1)..cut[j]
    BY <1>4, <2>2, <2>3
  <2>5. m \in Nat
    BY <1>2, <2>1
  <2>6. ~(i < j) /\ ~(j < i)
    <3>1. i < j => m < m
      BY ONLY <1>7, <2>1, <2>4
    <3>2. j < i => m < m
      BY ONLY <1>7, <2>1, <2>4
    <3> QED BY <2>5, <3>1, <3>2
  <2>7. i = j
    BY <2>6
  <2> QED BY <2>2, <2>3, <2>7 DEF m
<1>9. ASSUME NEW m \in 1..cut[n], NEW p \in 1..cut[n], from[m] < from[p] PROVE m < p
  <2>1. PICK i \in 1..n, j \in 1..n : i = from[m] /\ j = from[p]
    BY <1>4
  <2>2. m \in (cut[i - 1] + 1)..cut[i] /\ p \in (cut[j - 1] + 1)..cut[j] /\ i < j
    BY <1>4, <1>9, <2>1
  <2> QED BY ONLY <1>7, <2>2
<1>10. Origins(from, cut, parts, n)
  BY <1>5, <1>6, <1>8, <1>9 DEF Origins
<1> QED BY <1>10


\* What the canonical form says of the nodes.
NodesOf(c) == [m \in DOMAIN c |-> [code |-> m \in InCdata(c), t |-> c[m]]]

\* pubcheck.py, _canon: the nodes of a page, white space aside, can be told from
\* its canonical form, and which of them are code, as long as no text spells
\* out a tag.
THEOREM CanonicalFormTellsNodes ==
  ASSUME NEW s \in Seq(Tokens), \A i \in DOMAIN s : s[i].kind # "escaped"
  PROVE  Nodes(s) = NodesOf(CanonicalForm(s))
<1> DEFINE n == Len(s)
           cparts == [i \in DOMAIN s |-> CanonicalPart(s, i)]
           nparts == [i \in DOMAIN s |-> NodePart(s, i)]
           c == CanonicalForm(s)
           nodes == Nodes(s)
<1>1. n \in Nat /\ DOMAIN s = 1..n
  OBVIOUS
<1>2. c = FlattenSeq(cparts)
  BY Zenon DEF CanonicalForm, CanonicalPart
<1>3. nodes = FlattenSeq(nparts)
  BY Zenon DEF Nodes, NodePart
<1>4. \A i \in 1..n : PartsAgree(s[i], i \in InCdata(s), cparts[i], nparts[i])
  <2>1. \A i \in DOMAIN s : PartsAgree(s[i], i \in InCdata(s), CanonicalPart(s, i), NodePart(s, i))
    BY PartsOfAToken
  <2>2. \A i \in DOMAIN s : cparts[i] = CanonicalPart(s, i) /\ nparts[i] = NodePart(s, i)
    OBVIOUS
  <2> HIDE DEF cparts, nparts
  <2> QED BY <1>1, <2>1, <2>2, Zenon
<1>5. /\ cparts \in Seq(Seq(Tokens)) /\ nparts \in Seq(Seq(NodeSet))
      /\ Len(cparts) = n /\ Len(nparts) = n
  <2>1. \A i \in 1..n : cparts[i] \in Seq(Tokens) /\ nparts[i] \in Seq(NodeSet)
    <3> HIDE DEF cparts, nparts
    <3> QED BY <1>4, Zenon DEF PartsAgree
  <2>2. cparts = [i \in 1..n |-> cparts[i]] /\ nparts = [i \in 1..n |-> nparts[i]]
    BY <1>1
  <2> HIDE DEF cparts, nparts
  <2>3. cparts \in [1..n -> Seq(Tokens)] /\ nparts \in [1..n -> Seq(NodeSet)]
    BY ONLY <2>1, <2>2
  <2> HIDE DEF n
  <2> QED BY ONLY <1>1, <2>3
<1> HIDE DEF n, cparts, nparts, c, nodes
<1>6. c \in Seq(Tokens) /\ \E cut : IsCut(cut, cparts, n) /\ Placed(c, cut, cparts, n)
  BY ONLY <1>2, <1>5, Flattened
<1>7. nodes \in Seq(NodeSet) /\ \E cut : IsCut(cut, nparts, n) /\ Placed(nodes, cut, nparts, n)
  BY ONLY <1>3, <1>5, Flattened
<1>8. PICK cut : IsCut(cut, cparts, n) /\ Placed(c, cut, cparts, n)
  BY <1>6
<1>9. PICK ncut : IsCut(ncut, nparts, n) /\ Placed(nodes, ncut, nparts, n)
  BY <1>7
<1>10. \A i \in 1..n : Len(nparts[i]) = Len(cparts[i])
  BY <1>4, Zenon DEF PartsAgree
<1>11. \A i \in 0..n : ncut[i] = cut[i]
  BY ONLY <1>1, <1>8, <1>9, <1>10, CutsAreEqual
<1>12. PICK from : Origins(from, cut, cparts, n)
  BY ONLY <1>1, <1>8, PlacesHaveOrigins
<1> DEFINE l == Len(c)
<1>13. l \in Nat /\ DOMAIN c = 1..l /\ DOMAIN nodes = 1..Len(nodes)
  BY <1>6, <1>7
<1>14. l = cut[n] /\ Len(nodes) = l
  <2>1. n \in 0..n
    BY <1>1
  <2> QED BY <1>8, <1>9, <1>11, <2>1, Zenon DEF Placed
<1> HIDE DEF l
\* what is at a place
<1>15. ASSUME NEW m \in 1..l
       PROVE  /\ from[m] \in 1..n
              /\ nodes[m] = [code |-> from[m] \in InCdata(s), t |-> c[m]]
              /\ c[m].kind \in Marks => s[from[m]].kind = c[m].kind
  <2>1. PICK i \in 1..n : i = from[m]
    BY <1>12, <1>14 DEF Origins
  <2>2. m - cut[i - 1] \in 1..Len(cparts[i])
    BY <1>12, <1>14, <2>1 DEF Origins
  <2>3. PICK k \in 1..Len(cparts[i]) : k = m - cut[i - 1]
    BY <2>2
  <2>4. i - 1 \in 0..n /\ cut[i - 1] \in Nat
    <3>1. i - 1 \in 0..n
      BY <1>1
    <3> QED BY <1>8, <3>1 DEF IsCut
  <2>5. cut[i - 1] + k = m
    BY <1>13, <2>3, <2>4
  <2>6. c[m] = cparts[i][k]
    BY <1>8, <2>5, Zenon DEF Placed
  <2>7. nodes[m] = nparts[i][k]
    <3>1. ncut[i - 1] + k = m /\ k \in 1..Len(nparts[i])
      BY <1>10, <1>11, <2>4, <2>5, Zenon
    <3> QED BY <1>9, <3>1, Zenon DEF Placed
  <2>8. /\ nparts[i][k] = [code |-> i \in InCdata(s), t |-> cparts[i][k]]
        /\ cparts[i][k].kind \in Marks => s[i].kind = cparts[i][k].kind
    BY <1>4, Zenon DEF PartsAgree
  <2> QED BY <2>1, <2>6, <2>7, <2>8, Zenon
<1> DEFINE sk == [j \in 1..n |-> s[j].kind]
           ck == [m \in 1..l |-> c[m].kind]
<1>16. (\A j \in 1..n : sk[j] = s[j].kind) /\ (\A m \in 1..l : ck[m] = c[m].kind)
  OBVIOUS
<1> HIDE DEF sk, ck
<1>17. Mapped(sk, n, ck, l, from)
  <2>1. from \in [1..l -> 1..n]
    BY <1>12, <1>14, Zenon DEF Origins
  <2>2. \A m, p \in 1..l : from[m] < from[p] => m < p
    BY <1>12, <1>14, Zenon DEF Origins
  <2>3. ASSUME NEW j \in 1..n, sk[j] \in Marks PROVE \E p \in 1..l : from[p] = j /\ ck[p] = sk[j]
    <3>1. Len(cparts[j]) = 1 /\ cparts[j][1].kind = s[j].kind
      BY <1>4, <1>16, <2>3, Zenon DEF PartsAgree
    <3>2. 1 \in 1..Len(cparts[j])
      BY <3>1
    <3>3. cut[j - 1] + 1 \in 1..l /\ from[cut[j - 1] + 1] = j
      BY <1>12, <1>14, <3>2, Zenon DEF Origins
    <3>4. c[cut[j - 1] + 1] = cparts[j][1]
      BY <1>8, <3>2, Zenon DEF Placed
    <3> QED BY <1>16, <3>1, <3>3, <3>4, Zenon
  <2>4. \A m \in 1..l : ck[m] \in Marks => sk[from[m]] = ck[m]
    BY <1>15, <1>16, Zenon
  <2>5. ASSUME NEW m \in 1..l, NEW p \in 1..l, from[m] = from[p], sk[from[m]] \in Marks PROVE m = p
    <3>1. PICK i \in 1..n : i = from[m]
      BY <1>15
    <3>2. Len(cparts[i]) = 1
      BY <1>4, <1>16, <2>5, <3>1, Zenon DEF PartsAgree
    <3>3. m - cut[i - 1] \in 1..1 /\ p - cut[i - 1] \in 1..1
      BY <1>12, <1>14, <2>5, <3>1, <3>2, Zenon DEF Origins
    <3>4. cut[i - 1] \in Nat
      <4>1. i - 1 \in 0..n
        BY <1>1
      <4> QED BY <1>8, <4>1 DEF IsCut
    <3>5. m \in Nat /\ p \in Nat
      BY <1>13
    <3> QED BY <3>3, <3>4, <3>5
  <2> QED BY <2>1, <2>2, <2>3, <2>4, <2>5, Zenon DEF Mapped
<1>18. InCdata(s) = Sections(sk, n)
  BY <1>16, InCdataIsSections DEF n
<1>19. InCdata(c) = Sections(ck, l)
  BY <1>6, <1>16, InCdataIsSections DEF l
<1>20. ASSUME NEW m \in 1..l PROVE nodes[m] = [code |-> m \in InCdata(c), t |-> c[m]]
  <2>1. from[m] \in Sections(sk, n) <=> m \in Sections(ck, l)
    BY <1>1, <1>13, <1>17, SectionsAreKept
  <2>2. (from[m] \in InCdata(s)) = (m \in InCdata(c))
    <3>1. (from[m] \in InCdata(s)) \in BOOLEAN /\ (m \in InCdata(c)) \in BOOLEAN
      BY <1>18, <1>19 DEF Sections
    <3> QED BY <1>18, <1>19, <2>1, <3>1
  <2> QED BY <1>15, <2>2, Zenon
<1>21. nodes = [m \in 1..l |-> nodes[m]]
  BY <1>7, <1>13, <1>14
<1>22. nodes = [m \in 1..l |-> [code |-> m \in InCdata(c), t |-> c[m]]]
  BY <1>20, <1>21, Zenon
<1>23. NodesOf(c) = [m \in 1..l |-> [code |-> m \in InCdata(c), t |-> c[m]]]
  BY <1>13, Zenon DEF NodesOf
<1> QED BY <1>22, <1>23, Zenon DEF c, nodes

\* pubcheck.py, the round trip: when it reports nothing, what is stored has the
\* nodes of what was sent; white space at the ends of a text may be lost.
THEOREM SameButForSpaceHolds == Spec => []SameButForSpace
<1>1. TypeOK => SameButForSpace
  <2> SUFFICES ASSUME TypeOK, NEW s \in stored,
                      RoundTripErrors(sent, s) = {},
                      \A i \in DOMAIN sent : sent[i].kind # "escaped",
                      \A i \in DOMAIN s : s[i].kind # "escaped"
               PROVE  Nodes(sent) = Nodes(s)
    BY DEF SameButForSpace
  <2>1. sent \in Seq(Tokens) /\ s \in Seq(Tokens)
    BY DEF TypeOK
  <2>2. CanonicalForm(sent) = CanonicalForm(s)
    BY DEF RoundTripErrors
  <2>3. Nodes(sent) = NodesOf(CanonicalForm(sent))
    BY <2>1, CanonicalFormTellsNodes
  <2>4. Nodes(s) = NodesOf(CanonicalForm(s))
    BY <2>1, CanonicalFormTellsNodes
  <2> QED BY <2>2, <2>3, <2>4
<1> QED BY <1>1, TypeInvariant, PTL
-----------------------------------------------------------------------------
\* The first place of its kind, as a regular expression finds it.
LEMMA LeastIsThere ==
  ASSUME NEW S \in SUBSET Nat, S # {}
  PROVE  \E m \in S : \A x \in S : m <= x
<1>1. PICK m \in S : \A x \in S : ~(<<x, m>> \in OpToRel(<, Nat))
  BY NatLessThanWellFounded, WFMin
<1>2. ASSUME NEW x \in S PROVE m <= x
  <2>1. x < m => <<x, m>> \in OpToRel(<, Nat)
    BY DEF OpToRel
  <2>2. x \in Nat /\ m \in Nat /\ ~(x < m)
    BY <1>1, <2>1
  <2> QED BY ONLY <2>2
<1> QED BY <1>2

\* The end at e is the first one after the start at j.
Ends(k, n, j, e) ==
  /\ j \in 1..n /\ e \in 1..n /\ j < e /\ k[j] = Start /\ k[e] = End
  /\ \A h \in j..(e - 1) : k[h] # End

\* Every start is seen and has an end, every end closes a section: there are
\* as many of the one as of the other.
LEMMA SectionsAreClosed ==
  ASSUME NEW n \in Nat, NEW k,
         \A i \in 1..n : k[i] = Start => i \notin Sections(k, n) /\ \E j \in i..n : k[j] = End,
         \A i \in 1..n : k[i] = End => i > 1 /\ (i - 1 \in Sections(k, n) \/ k[i - 1] = Start)
  PROVE  Cardinality({i \in 1..n : k[i] = Start}) = Cardinality({i \in 1..n : k[i] = End})
<1> DEFINE starts == {i \in 1..n : k[i] = Start}
           ends == {i \in 1..n : k[i] = End}
<1>1. Start # End
  BY Zenon DEF Start, End
<1>2. ASSUME NEW j \in starts PROVE \E e \in ends : Ends(k, n, j, e)
  <2> DEFINE later == {e \in j..n : k[e] = End}
  <2>1. later \in SUBSET Nat /\ later # {}
    OBVIOUS
  <2>2. PICK e \in later : \A x \in later : e <= x
    <3> HIDE DEF later
    <3> QED BY <2>1, LeastIsThere
  <2>3. e \in 1..n /\ j < e /\ k[e] = End /\ k[j] = Start
    BY <1>1
  <2>4. ASSUME NEW h \in j..(e - 1), k[h] = End PROVE FALSE
    BY <2>2, <2>3, <2>4
  <2> QED BY <2>3, <2>4 DEF Ends
<1>3. ASSUME NEW e \in ends PROVE \E j \in starts : Ends(k, n, j, e)
  <2>1. e > 1 /\ e \in 1..n /\ k[e] = End
    OBVIOUS
  <2>2. CASE k[e - 1] = Start
    <3>1. e - 1 \in 1..n /\ e - 1 < e /\ \A h \in (e - 1)..(e - 1) : h = e - 1
      BY <2>1
    <3> QED BY <1>1, <2>1, <2>2, <3>1 DEF Ends
  <2>3. CASE e - 1 \in Sections(k, n)
    <3>1. PICK j \in 1..((e - 1) - 1) : k[j] = Start /\ \A h \in j..(e - 1) : k[h] # End
      BY <2>3 DEF Sections
    <3>2. j \in 1..n /\ j < e
      BY <2>1
    <3> QED BY <2>1, <3>1, <3>2 DEF Ends
  <2> QED BY <2>1, <2>2, <2>3
<1>4. ASSUME NEW j, NEW h, NEW e, Ends(k, n, j, e), Ends(k, n, h, e), j < h PROVE FALSE
  <2>1. h \in Sections(k, n)
    <3>1. /\ j \in 1..(h - 1) /\ h \in 1..n /\ e \in h..n /\ k[e] = End /\ k[j] = Start /\ k[h] = Start
          /\ \A x \in j..h : x \in j..(e - 1)
      BY <1>4 DEF Ends
    <3>2. \A x \in j..h : k[x] # End
      BY <1>4, <3>1 DEF Ends
    <3> QED BY <1>1, <3>1, <3>2 DEF Sections
  <2>2. h \in 1..n /\ k[h] = Start
    BY <1>4 DEF Ends
  <2> QED BY <2>1, <2>2
<1>5. ASSUME NEW j, NEW d, NEW e, Ends(k, n, j, d), Ends(k, n, j, e), d < e PROVE FALSE
  <2>1. d \in j..(e - 1) /\ k[d] = End
    BY <1>5 DEF Ends
  <2> QED BY <1>5, <2>1 DEF Ends
<1>6. /\ \A j, h, e : Ends(k, n, j, e) /\ Ends(k, n, h, e) => j \in 1..n /\ h \in 1..n /\ ~(j < h) /\ ~(h < j)
      /\ \A j, d, e : Ends(k, n, j, d) /\ Ends(k, n, j, e) => d \in 1..n /\ e \in 1..n /\ ~(d < e) /\ ~(e < d)
  <2>1. \A j, e : Ends(k, n, j, e) => j \in 1..n /\ e \in 1..n
    BY DEF Ends
  <2> QED BY ONLY <1>4, <1>5, <2>1, Zenon
<1>7. \A x, y \in 1..n : ~(x < y) /\ ~(y < x) => x = y
  OBVIOUS
<1>8. /\ \A j, h, e : Ends(k, n, j, e) /\ Ends(k, n, h, e) => j = h
      /\ \A j, d, e : Ends(k, n, j, d) /\ Ends(k, n, j, e) => d = e
  BY ONLY <1>6, <1>7, Zenon
<1>9. IsFiniteSet(starts) /\ IsFiniteSet(ends)
  <2>1. IsFiniteSet(1..n) /\ starts \in SUBSET (1..n) /\ ends \in SUBSET (1..n)
    BY FS_Interval
  <2> QED BY <2>1, FS_Subset
<1> HIDE DEF starts, ends
<1> DEFINE f == [j \in starts |-> CHOOSE e \in ends : Ends(k, n, j, e)]
           g == [e \in ends |-> CHOOSE j \in starts : Ends(k, n, j, e)]
<1>10. \A j \in starts : f[j] \in ends /\ Ends(k, n, j, f[j])
  BY <1>2
<1>11. \A e \in ends : g[e] \in starts /\ Ends(k, n, g[e], e)
  BY <1>3
<1>12. f \in [starts -> ends] /\ g \in [ends -> starts]
  BY <1>10, <1>11
<1> HIDE DEF f, g
<1>13. \A i, j \in starts : f[i] = f[j] => i = j
  BY ONLY <1>8, <1>10, Zenon
<1>14. \A d, e \in ends : g[d] = g[e] => d = e
  BY ONLY <1>8, <1>11, Zenon
<1>15. f \in Injection(starts, ends) /\ g \in Injection(ends, starts)
  BY <1>12, <1>13, <1>14 DEF Injection, IsInjective
<1>16. /\ Cardinality(starts) <= Cardinality(ends) /\ Cardinality(ends) <= Cardinality(starts)
       /\ Cardinality(starts) \in Nat /\ Cardinality(ends) \in Nat
  BY <1>9, <1>15, FS_Injection, FS_CardinalityType
<1>17. Cardinality(starts) = Cardinality(ends)
  BY <1>16
<1> QED BY <1>17 DEF starts, ends

\* What WellFormed says of a CDATA section.
LEMMA CdataIsClosed ==
  ASSUME NEW s \in Seq(Tokens), WellFormed(s), PlainCode(s)
  PROVE  Cardinality({i \in DOMAIN s : s[i].kind = Start}) = Cardinality({i \in DOMAIN s : s[i].kind = End})
<1> DEFINE n == Len(s)
           k == [i \in 1..n |-> s[i].kind]
<1>1. DOMAIN s = 1..n /\ n \in Nat /\ \A i \in 1..n : k[i] = s[i].kind
  OBVIOUS
<1> HIDE DEF n, k
<1>2. InCdata(s) = Sections(k, n)
  BY <1>1, InCdataIsSections DEF n
<1>3. \A i \in DOMAIN s \ InCdata(s) :
        /\ s[i].kind = Start => \E j \in i..n : s[j].kind = End
        /\ s[i].kind = End => i > 1 /\ (i - 1 \in InCdata(s) \/ s[i - 1].kind = Start)
  <2>1. \A i \in DOMAIN s \ InCdata(s) :
          CASE s[i].kind \in {"bare &", "bare <"} -> FALSE
            [] s[i].kind = "cdata start" -> \E j \in i..n : s[j].kind = "cdata end"
            [] s[i].kind = "cdata end" -> i > 1 /\ (i - 1 \in InCdata(s) \/ s[i - 1].kind = "cdata start")
            [] OTHER -> TRUE
    BY Zenon DEF WellFormed, n
  <2> QED BY <2>1, Zenon DEF Start, End
<1>4. \A i \in 1..n : k[i] = Start \/ k[i] = End => i \notin InCdata(s)
  <2>1. \A i \in InCdata(s) : s[i].kind # Start /\ s[i].kind # End
    BY Zenon DEF PlainCode, Start, End
  <2> QED BY <1>1, <2>1
<1>5. ASSUME NEW i \in 1..n, k[i] = Start PROVE i \notin Sections(k, n) /\ \E j \in i..n : k[j] = End
  <2>1. PICK j \in i..n : s[j].kind = End
    BY <1>1, <1>3, <1>4, <1>5
  <2>2. j \in 1..n
    BY <1>1
  <2> QED BY <1>1, <1>2, <1>4, <1>5, <2>1, <2>2
<1>6. ASSUME NEW i \in 1..n, k[i] = End PROVE i > 1 /\ (i - 1 \in Sections(k, n) \/ k[i - 1] = Start)
  <2>1. i > 1 /\ (i - 1 \in InCdata(s) \/ s[i - 1].kind = Start)
    BY <1>1, <1>3, <1>4, <1>6
  <2>2. i - 1 \in 1..n
    BY <1>1, <2>1
  <2> QED BY <1>1, <1>2, <2>1, <2>2
<1>7. Cardinality({i \in 1..n : k[i] = Start}) = Cardinality({i \in 1..n : k[i] = End})
  BY <1>1, <1>5, <1>6, SectionsAreClosed
<1>8. /\ {i \in DOMAIN s : s[i].kind = Start} = {i \in 1..n : k[i] = Start}
      /\ {i \in DOMAIN s : s[i].kind = End} = {i \in 1..n : k[i] = End}
  BY <1>1
<1> QED BY <1>7, <1>8

\* How often a tag is on the stack.
OnStack(st, tag) == Cardinality({h \in 1..Len(st) : st[h] \in {tag}})

Spoilt(st) == st # <<>> /\ st[1] = "broken"

\* An opening tag is on the stack once more.
LEMMA PushCounts ==
  ASSUME NEW T, NEW st \in Seq(T), NEW v \in T, NEW tag
  PROVE  /\ OnStack(st, tag) \in Nat
         /\ OnStack(Append(st, v), tag) = OnStack(st, tag) + (IF v = tag THEN 1 ELSE 0)
<1> DEFINE l == Len(st)
           more == Append(st, v)
<1>1. l \in Nat /\ Len(more) = l + 1 /\ more[l + 1] = v /\ \A h \in 1..l : more[h] = st[h]
  OBVIOUS
<1> HIDE DEF l, more
<1>2. l + 1 \in Nat \ {0} /\ (l + 1) - 1 = l
  BY <1>1
<1>3. /\ Cardinality({h \in 1..l : more[h] \in {tag}}) \in Nat
      /\ Cardinality({h \in 1..(l + 1) : more[h] \in {tag}})
           = Cardinality({h \in 1..l : more[h] \in {tag}}) + (IF more[l + 1] \in {tag} THEN 1 ELSE 0)
  <2>1. \A i \in Nat \ {0} :
          /\ Cardinality({h \in 1..(i - 1) : more[h] \in {tag}}) \in Nat
          /\ Cardinality({h \in 1..i : more[h] \in {tag}})
               = Cardinality({h \in 1..(i - 1) : more[h] \in {tag}}) + (IF more[i] \in {tag} THEN 1 ELSE 0)
    BY ONLY CountStep, Zenon
  <2> QED BY ONLY <1>2, <2>1, Zenon
<1>4. {h \in 1..l : more[h] \in {tag}} = {h \in 1..l : st[h] \in {tag}}
  BY <1>1
<1> QED BY <1>1, <1>3, <1>4 DEF OnStack, l, more

WithoutLast(st) == SubSeq(st, 1, Len(st) - 1)

\* The last one opened is on it once less.
LEMMA PopCounts ==
  ASSUME NEW T, NEW st \in Seq(T), st # <<>>, NEW tag
  PROVE  /\ WithoutLast(st) \in Seq(T) /\ Len(WithoutLast(st)) = Len(st) - 1
         /\ \A h \in 1..(Len(st) - 1) : WithoutLast(st)[h] = st[h]
         /\ OnStack(st, tag) = OnStack(WithoutLast(st), tag) + (IF st[Len(st)] = tag THEN 1 ELSE 0)
<1> DEFINE less == WithoutLast(st)
           v == st[Len(st)]
<1>1. less \in Seq(T) /\ v \in T /\ st = Append(less, v)
  BY DEF WithoutLast
<1>3. Len(less) = Len(st) - 1 /\ \A h \in 1..(Len(st) - 1) : less[h] = st[h]
  <2> HIDE DEF less, v
  <2>1. Len(less) \in Nat /\ Len(Append(less, v)) = Len(less) + 1
        /\ \A h \in 1..Len(less) : Append(less, v)[h] = less[h]
    BY ONLY <1>1
  <2> QED BY <1>1, <2>1
<1> HIDE DEF less, v
<1>2. OnStack(Append(less, v), tag) = OnStack(less, tag) + (IF v = tag THEN 1 ELSE 0)
  <2>1. less \in Seq(T) /\ v \in T
    BY <1>1
  <2> QED BY ONLY <2>1, PushCounts, Zenon
<1> QED BY <1>1, <1>2, <1>3, Zenon DEF less, v

Vals == STRING \cup {"none", "broken"}

\* The tags of one name that nest: opening, closing, other.
TagText(s, tag) ==
  [i \in 1..Len(s) |-> IF s[i].val # tag THEN "-"
                       ELSE IF s[i].kind = "open" THEN "o"
                       ELSE IF s[i].kind = "close" THEN "c" ELSE "-"]

OpenTags(s, tag, i) == Depth(TagText(s, tag), 1, i, {"o"}, {"c"})

\* The stack tells the depth of every tag, unless the nesting is spoilt; then
\* it stays so.
Tells(st, depth, tag) == Spoilt(st) \/ depth = OnStack(st, tag)

\* What an opening and a closing tag make of the stack.
Push(st, v) == Append(st, v)
Pop(st, v) == IF st # <<>> /\ st[Len(st)] = v THEN SubSeq(st, 1, Len(st) - 1) ELSE <<"broken">>

\* An opening tag adds to the depth and to the stack of minidom.
LEMMA PushTells ==
  ASSUME NEW T, NEW st \in Seq(T), NEW v \in T, NEW tag, NEW depth, Tells(st, depth, tag)
  PROVE  /\ Push(st, v) \in Seq(T)
         /\ Tells(Push(st, v), depth + (IF v = tag THEN 1 ELSE 0), tag)
<1>1. Push(st, v) \in Seq(T)
  BY DEF Push
<1>2. CASE Spoilt(st)
  <2>1. Push(st, v) # <<>> /\ Push(st, v)[1] = "broken"
    <3>1. st # <<>> /\ st[1] = "broken"
      BY <1>2 DEF Spoilt
    <3>2. Len(st) \in Nat /\ Len(st) # 0
      BY <3>1
    <3> QED BY <3>1, <3>2 DEF Push
  <2> QED BY <1>1, <2>1 DEF Spoilt, Tells
<1>3. CASE depth = OnStack(st, tag)
  <2>1. OnStack(Append(st, v), tag) = OnStack(st, tag) + (IF v = tag THEN 1 ELSE 0)
    BY PushCounts, Zenon
  <2> QED BY <1>1, <1>3, <2>1, Zenon DEF Tells, Push
<1> QED BY <1>2, <1>3 DEF Tells

\* A closing tag takes from both, or spoils the nesting.
LEMMA PopTells ==
  ASSUME NEW T, NEW st \in Seq(T), "broken" \in T, NEW v \in T, v # "broken", NEW tag, NEW depth,
         Tells(st, depth, tag)
  PROVE  /\ Pop(st, v) \in Seq(T)
         /\ Tells(Pop(st, v), depth - (IF v = tag THEN 1 ELSE 0), tag)
<1>1. CASE ~(st # <<>> /\ st[Len(st)] = v)
  <2>1. Pop(st, v) = <<"broken">>
    BY <1>1 DEF Pop
  <2>2. <<"broken">> \in Seq(T) /\ Spoilt(<<"broken">>)
    BY DEF Spoilt
  <2> QED BY <2>1, <2>2 DEF Tells
<1>2. CASE st # <<>> /\ st[Len(st)] = v
  <2> DEFINE less == WithoutLast(st)
  <2>1. Pop(st, v) = less
    BY <1>2 DEF Pop, WithoutLast
  <2>2. /\ less \in Seq(T) /\ Len(less) = Len(st) - 1
        /\ \A h \in 1..(Len(st) - 1) : less[h] = st[h]
        /\ OnStack(st, tag) = OnStack(less, tag) + (IF st[Len(st)] = tag THEN 1 ELSE 0)
    BY <1>2, PopCounts, Zenon
  <2> HIDE DEF less
  <2>3. CASE Spoilt(st)
    <3>1. st[1] = "broken" /\ Len(st) \in Nat /\ Len(st) # 0 /\ Len(st) # 1
      BY <1>2, <2>3 DEF Spoilt
    <3>2. 1 \in 1..(Len(st) - 1) /\ Len(less) # 0
      BY <2>2, <3>1
    <3>3. less[1] = "broken" /\ less # <<>>
      BY <2>2, <3>1, <3>2
    <3> QED BY <2>1, <2>2, <3>3 DEF Tells, Spoilt
  <2>4. CASE depth = OnStack(st, tag)
    <3>1. OnStack(less, tag) \in Nat
      BY <2>2, PushCounts, Zenon
    <3>2. v = st[Len(st)]
      BY <1>2
    <3>3. \A x \in Nat : \A y : x = (x + (IF y THEN 1 ELSE 0)) - (IF y THEN 1 ELSE 0)
      OBVIOUS
    <3>4. OnStack(less, tag) = depth - (IF v = tag THEN 1 ELSE 0)
      BY <2>2, <2>4, <3>1, <3>2, <3>3
    <3> QED BY <2>1, <2>2, <3>4, Zenon DEF Tells
  <2> QED BY <2>1, <2>2, <2>3, <2>4 DEF Tells
<1> QED BY <1>1, <1>2

\* minidom nests, the expressions count: a page that parses has as many
\* opening as closing tags of each name, its empty tags aside.
THEOREM NestedIsBalanced ==
  ASSUME NEW s \in Seq(Tokens), WellFormed(s), PlainCode(s), NEW tag
  PROVE  OpenTags(s, tag, Len(s)) = 0
<1> DEFINE n == Len(s)
           hidden == InCdata(s)
           after(st, i) ==
             CASE i \in hidden -> st
               [] i \notin hidden /\ s[i].kind = "open" -> Append(st, s[i].val)
               [] i \notin hidden /\ s[i].kind = "close" ->
                    IF st # <<>> /\ st[Len(st)] = s[i].val THEN SubSeq(st, 1, Len(st) - 1)
                                                           ELSE <<"broken">>
               [] OTHER -> st
           Def(h) == h = [i \in 0..Len(s) |-> IF i = 0 THEN <<>> ELSE after(h[i - 1], i)]
           stack == CHOOSE h : Def(h)
           T == Seq(Vals)
           step == [i \in 1..n |-> [st \in T |-> after(st, i)]]
<1>0. "broken" \in Vals
  BY DEF Vals
<1>1. n \in Nat /\ DOMAIN s = 1..n /\ \A i \in 1..n : s[i] \in Tokens
  OBVIOUS
<1>2. stack[n] = <<>>
  BY Zenon DEF WellFormed
<1>3. ASSUME NEW i \in 1..n
      PROVE  /\ s[i].val # "broken"
             /\ s[i].val \in Vals
             /\ i \in hidden => s[i].kind \in {"text", "space"}
  BY <1>1 DEF PlainCode, Tokens, Vals
<1>4. ASSUME NEW i \in 1..n, NEW st
      PROVE  \/ s[i].kind = "open" /\ after(st, i) = Push(st, s[i].val)
             \/ s[i].kind = "close" /\ after(st, i) = Pop(st, s[i].val)
             \/ s[i].kind \notin {"open", "close"} /\ after(st, i) = st
  <2>1. CASE i \in hidden
    <3>1. after(st, i) = st
      BY <2>1
    <3>2. s[i].kind \notin {"open", "close"}
      BY <1>3, <2>1
    <3> QED BY <3>1, <3>2
  <2>2. CASE i \notin hidden
    <3> HIDE DEF hidden
    <3>1. CASE s[i].kind = "open"
      BY <2>2, <3>1 DEF Push
    <3>2. CASE s[i].kind = "close"
      BY <2>2, <3>2 DEF Pop
    <3>3. CASE s[i].kind # "open" /\ s[i].kind # "close"
      <4>1. after(st, i) = st
        BY <2>2, <3>3
      <4> QED BY <1>3, <3>3, <4>1
    <3> QED BY <3>1, <3>2, <3>3
  <2> QED BY <2>1, <2>2
<1> HIDE DEF after, hidden
<1>5. ASSUME NEW i \in 1..n, NEW st \in T PROVE after(st, i) \in T
  <2>1. Tells(st, OnStack(st, ""), "")
    BY DEF Tells
  <2>2. Push(st, s[i].val) \in Seq(Vals)
    BY <1>3, <2>1, PushTells, Zenon
  <2>3. Pop(st, s[i].val) \in Seq(Vals)
    BY <1>0, <1>3, <2>1, PopTells, Zenon
  <2> QED BY <1>4, <2>2, <2>3, Zenon
<1>6. \E h : Def(h)
  <2>1. step \in [1..n -> [T -> T]] /\ <<>> \in T
    <3> HIDE DEF T
    <3>1. step \in [1..n -> [T -> T]]
      BY <1>5
    <3> QED BY <3>1 DEF T
  <2>2. PICK g \in [0..n -> T] : Iterates(g, n, <<>>, step)
    <3> HIDE DEF step, T, n
    <3> QED BY <1>1, <2>1, Recursion
  <2>3. ASSUME NEW i \in 1..n PROVE g[i] = after(g[i - 1], i)
    <3>1. i - 1 \in 0..n
      OBVIOUS
    <3>2. g[i - 1] \in T /\ g[i] = step[i][g[i - 1]]
      BY <2>2, <3>1 DEF Iterates
    <3> HIDE DEF T
    <3> QED BY <3>2
  <2>4. ASSUME NEW i \in 0..Len(s) PROVE g[i] = IF i = 0 THEN <<>> ELSE after(g[i - 1], i)
    <3>1. CASE i = 0
      BY <2>2, <3>1 DEF Iterates
    <3>2. CASE i # 0
      <4>1. i \in 1..n
        BY <3>2
      <4> QED BY <2>3, <3>2, <4>1, Zenon
    <3> QED BY <3>1, <3>2
  <2>5. g = [i \in 0..Len(s) |-> g[i]]
    BY <2>2
  <2>6. Def(g)
    BY <2>4, <2>5, Zenon
  <2> HIDE DEF Def
  <2> QED BY <2>6
<1>7. Def(stack)
  <2> HIDE DEF Def
  <2> QED BY <1>6, Zenon
<1> HIDE DEF stack
<1>8. stack[0] = <<>> /\ \A i \in 1..n : stack[i] = after(stack[i - 1], i)
  <2>1. 0 \in 0..Len(s) /\ \A i \in 1..n : i \in 0..Len(s) /\ i # 0
    BY <1>1
  <2> QED BY <1>7, <2>1, Zenon
<1> HIDE DEF Def
<1> DEFINE text == TagText(s, tag)
           depth(i) == OpenTags(s, tag, i)
<1>9. StepsBy(text, {"o"}, {"c"})
  BY DepthStep
<1>10. /\ depth(0) = 0
       /\ \A i \in Nat : depth(i) \in Int
       /\ \A i \in 1..n : depth(i) = depth(i - 1) + (IF text[i] \in {"o"} THEN 1 ELSE 0)
                                                  - (IF text[i] \in {"c"} THEN 1 ELSE 0)
  <2>1. \A i \in 1..n : i \in Nat \ {0}
    OBVIOUS
  <2> HIDE DEF text
  <2> QED BY <1>9, <2>1, Zenon DEF StepsBy, OpenTags, text
<1>11. \A i \in 1..n : text[i] = IF s[i].val # tag THEN "-"
                                 ELSE IF s[i].kind = "open" THEN "o"
                                 ELSE IF s[i].kind = "close" THEN "c" ELSE "-"
  BY DEF TagText
<1> HIDE DEF text, depth
<1> DEFINE S == {i \in 0..n : stack[i] \in T /\ Tells(stack[i], depth(i), tag)}
<1>12. 0 \in S
  <2>1. OnStack(<<>>, tag) = 0
    <3>1. {h \in 1..Len(<<>>) : <<>>[h] \in {tag}} = {}
      OBVIOUS
    <3> QED BY <3>1, FS_EmptySet DEF OnStack
  <2>2. Tells(stack[0], depth(0), tag)
    BY <1>8, <1>10, <2>1, Zenon DEF Tells
  <2>3. <<>> \in Seq(Vals) /\ 0 \in 0..n
    BY <1>1
  <2> QED BY <1>8, <2>2, <2>3
<1>13. ASSUME NEW i \in 1..n, i - 1 \in S PROVE i \in S
  <2> DEFINE st == stack[i - 1]
             d == depth(i - 1)
  <2>1. st \in T /\ Tells(st, d, tag) /\ d \in Int /\ i \in 0..n /\ stack[i] = after(st, i)
    <3>1. i - 1 \in Nat /\ i \in 0..n
      OBVIOUS
    <3> QED BY <1>8, <1>10, <1>13, <3>1
  <2>2. /\ depth(i) = d + (IF text[i] \in {"o"} THEN 1 ELSE 0) - (IF text[i] \in {"c"} THEN 1 ELSE 0)
        /\ depth(i) \in Int
    BY <1>10
  <2> HIDE DEF st, d
  <2>3. CASE s[i].kind = "open" /\ after(st, i) = Push(st, s[i].val)
    <3>1. depth(i) = d + (IF s[i].val = tag THEN 1 ELSE 0)
      <4>1. text[i] = IF s[i].val = tag THEN "o" ELSE "-"
        BY <1>11, <2>3
      <4> QED BY <2>1, <2>2, <4>1
    <3>2. Push(st, s[i].val) \in Seq(Vals) /\ Tells(Push(st, s[i].val), d + (IF s[i].val = tag THEN 1 ELSE 0), tag)
      BY <1>3, <2>1, PushTells, Zenon
    <3> QED BY <2>1, <2>3, <3>1, <3>2
  <2>4. CASE s[i].kind = "close" /\ after(st, i) = Pop(st, s[i].val)
    <3>1. depth(i) = d - (IF s[i].val = tag THEN 1 ELSE 0)
      <4>1. text[i] = IF s[i].val = tag THEN "c" ELSE "-"
        BY <1>11, <2>4
      <4> QED BY <2>1, <2>2, <4>1
    <3>2. Pop(st, s[i].val) \in Seq(Vals) /\ Tells(Pop(st, s[i].val), d - (IF s[i].val = tag THEN 1 ELSE 0), tag)
      BY <1>0, <1>3, <2>1, PopTells, Zenon
    <3> QED BY <2>1, <2>4, <3>1, <3>2
  <2>5. CASE s[i].kind \notin {"open", "close"} /\ after(st, i) = st
    <3>1. depth(i) = d
      <4>1. text[i] = "-"
        BY <1>11, <2>5
      <4> QED BY <2>1, <2>2, <4>1
    <3> QED BY <2>1, <2>5, <3>1
  <2> QED BY <1>4, <2>3, <2>4, <2>5, Zenon
<1>14. n \in S
  <2>1. 0..n \subseteq S
    <3> HIDE DEF S
    <3> QED BY <1>1, <1>12, <1>13, IntervalInduction
  <2> HIDE DEF S
  <2> QED BY <1>1, <2>1
<1>15. Tells(<<>>, depth(n), tag)
  BY <1>2, <1>14
<1>16. OnStack(<<>>, tag) = 0 /\ ~Spoilt(<<>>)
  <2>1. {h \in 1..Len(<<>>) : <<>>[h] \in {tag}} = {}
    OBVIOUS
  <2> QED BY <2>1, FS_EmptySet DEF OnStack, Spoilt
<1> QED BY <1>15, <1>16 DEF Tells, depth

\* pubcheck.py, C4 and C5: the two counts are equal for a tag unless it is
\* written as empty.
LEMMA BalanceHolds ==
  ASSUME NEW s \in Seq(Tokens), WellFormed(s), PlainCode(s), NEW tag
  PROVE  Balanced(s, tag) <=> ~HasEmpty(s, {tag})
<1> DEFINE n == Len(s)
           text == TagText(s, tag)
           opens == {i \in 1..n : text[i] \in {"o"}}
           closes == {i \in 1..n : text[i] \in {"c"}}
           empties == {i \in 1..n : s[i].kind = "empty" /\ s[i].val \in {tag}}
<1>1. n \in Nat /\ DOMAIN s = 1..n
  OBVIOUS
<1>2. Cardinality(opens) - Cardinality(closes) = 0
  <2>1. OpenTags(s, tag, n) = 0
    BY NestedIsBalanced
  <2>2. OpenTags(s, tag, n) = Cardinality(opens) - Cardinality(closes)
    BY Zenon DEF OpenTags, Depth
  <2> QED BY <2>1, <2>2
<1>3. /\ IsFiniteSet(opens) /\ IsFiniteSet(closes) /\ IsFiniteSet(empties)
      /\ Cardinality(opens) \in Nat /\ Cardinality(closes) \in Nat /\ Cardinality(empties) \in Nat
  <2>1. IsFiniteSet(1..n) /\ opens \in SUBSET (1..n) /\ closes \in SUBSET (1..n) /\ empties \in SUBSET (1..n)
    BY <1>1, FS_Interval
  <2> HIDE DEF opens, closes, empties
  <2> QED BY <2>1, FS_Subset, FS_CardinalityType
<1>4. \A i \in 1..n : text[i] = IF s[i].val # tag THEN "-"
                                ELSE IF s[i].kind = "open" THEN "o"
                                ELSE IF s[i].kind = "close" THEN "c" ELSE "-"
  BY DEF TagText
<1>5. /\ {i \in DOMAIN s : s[i].kind \in Opening /\ s[i].val \in {tag}} = opens \cup empties
      /\ opens \cap empties = {}
  <2> HIDE DEF text
  <2> QED BY <1>1, <1>4 DEF Opening
<1>6. {i \in DOMAIN s : s[i].kind \in {"close"} /\ s[i].val \in {tag}} = closes
  <2> HIDE DEF text
  <2> QED BY <1>1, <1>4
<1>7. HasEmpty(s, {tag}) <=> empties # {}
  BY <1>1 DEF HasEmpty
<1> HIDE DEF opens, closes, empties
<1>8. Cardinality(opens \cup empties) = Cardinality(opens) + Cardinality(empties)
  <2>1. /\ Cardinality(opens \cup empties)
             = Cardinality(opens) + Cardinality(empties) - Cardinality(opens \cap empties)
        /\ Cardinality(opens \cap empties) = 0
    BY <1>3, <1>5, FS_Union, FS_EmptySet
  <2> QED BY <1>3, <2>1
<1>9. Cardinality(empties) = 0 <=> empties = {}
  BY <1>3, FS_EmptySet
<1>10. Cardinality(opens \cup empties) = Cardinality(closes) <=> empties = {}
  BY <1>2, <1>3, <1>8, <1>9
<1>11. Balanced(s, tag) <=> Cardinality(opens \cup empties) = Cardinality(closes)
  BY <1>5, <1>6, Zenon DEF Balanced, Count
<1> QED BY <1>7, <1>10, <1>11

\* A row that starts with a cell is not an empty one, wherever it ends.
LEMMA NoRowIsEmpty ==
  ASSUME NEW s \in Seq(Tokens),
         ~HasEmpty(s, {"tr"}),
         \A i \in DOMAIN s : s[i].kind = "open" /\ s[i].val = "tr" =>
           i < Len(s) /\ s[i + 1].kind \in Opening /\ s[i + 1].val \in {"td", "th"}
  PROVE  ~HasEmptyRow(s)
<1> SUFFICES ASSUME HasEmptyRow(s) PROVE FALSE
  OBVIOUS
<1>1. \E i \in DOMAIN s :
        /\ s[i].kind \in Opening /\ s[i].val = "tr" /\ {j \in DOMAIN s : RowEnd(s, i, j)} # {}
        /\ \A j \in {e \in DOMAIN s : RowEnd(s, i, e)} :
             \A k \in i..j : s[k].kind \notin Opening \/ s[k].val \notin Cells
  BY Zenon DEF HasEmptyRow
<1>2. PICK i \in DOMAIN s :
        /\ s[i].kind \in Opening /\ s[i].val = "tr" /\ {j \in DOMAIN s : RowEnd(s, i, j)} # {}
        /\ \A j \in {e \in DOMAIN s : RowEnd(s, i, e)} :
             \A k \in i..j : s[k].kind \notin Opening \/ s[k].val \notin Cells
  BY <1>1
<1>3. PICK j \in DOMAIN s : RowEnd(s, i, j)
  BY <1>2
<1>4. s[i + 1].kind \in Opening /\ s[i + 1].val \in Cells
  <2>1. s[i].kind = "open"
    BY <1>2 DEF Opening, HasEmpty
  <2> QED BY <1>2, <2>1 DEF Cells
<1>5. i + 1 \in i..j
  <2>1. i \in Nat /\ j \in Nat /\ i < j
    BY <1>3 DEF RowEnd
  <2> QED BY ONLY <2>1
<1> QED BY <1>2, <1>3, <1>4, <1>5, Zenon

\* pubcheck.py, C2, C4 and C5: they count in the raw text what C1 parses, and of
\* a page that parses fault nothing but the empty tags they take for open ones.
THEOREM OnlyEmptyTagsTripHolds == Spec => []OnlyEmptyTagsTrip
<1> DEFINE found == PageErrors("title", <<"none">>, 0, sent)
<1>1. TypeOK => OnlyEmptyTagsTrip
  <2> SUFFICES ASSUME TypeOK, WellFormed(sent), PlainCode(sent),
                      \A i \in DOMAIN sent : sent[i].kind = "open" /\ sent[i].val = "tr" =>
                        i < Len(sent) /\ sent[i + 1].kind \in Opening /\ sent[i + 1].val \in {"td", "th"}
               PROVE  /\ "C2" \notin found
                      /\ "C4" \in found <=> HasEmpty(sent, {"table", "tr"})
                      /\ "C5" \in found <=> HasEmpty(sent, {"ul", "ol", "li"})
    BY Zenon DEF OnlyEmptyTagsTrip
  <2>1. sent \in Seq(Tokens)
    BY DEF TypeOK
  <2>2. \A tag : Balanced(sent, tag) <=> ~HasEmpty(sent, {tag})
    BY <2>1, BalanceHolds
  <2>3. ~HasEmpty(sent, {"tr"}) => ~HasEmptyRow(sent)
    BY <2>1, NoRowIsEmpty
  <2>4. Count(sent, {"cdata start"}, {"none"}) = Count(sent, {"cdata end"}, {"none"})
    <3>1. \A i \in DOMAIN sent : sent[i].kind = Start \/ sent[i].kind = End => sent[i].val = "none"
      <4>1. \A i \in DOMAIN sent : sent[i] \in Tokens
        BY <2>1
      <4> QED BY <4>1, Zenon DEF Tokens, Start, End
    <3>2. /\ {i \in DOMAIN sent : sent[i].kind \in {Start} /\ sent[i].val \in {"none"}}
               = {i \in DOMAIN sent : sent[i].kind = Start}
          /\ {i \in DOMAIN sent : sent[i].kind \in {End} /\ sent[i].val \in {"none"}}
               = {i \in DOMAIN sent : sent[i].kind = End}
      BY <3>1
    <3>3. Cardinality({i \in DOMAIN sent : sent[i].kind = Start}) = Cardinality({i \in DOMAIN sent : sent[i].kind = End})
      BY <2>1, CdataIsClosed
    <3>4. Count(sent, {Start}, {"none"}) = Count(sent, {End}, {"none"})
      BY <3>2, <3>3, Zenon DEF Count
    <3> QED BY <3>4, Zenon DEF Start, End
  <2>5. /\ "C2" \in found <=> Count(sent, {"cdata start"}, {"none"}) # Count(sent, {"cdata end"}, {"none"})
        /\ "C4" \in found <=> ~Balanced(sent, "table") \/ ~Balanced(sent, "tr") \/ HasEmptyRow(sent)
        /\ "C5" \in found <=> \E tag \in {"ul", "ol", "li"} : ~Balanced(sent, tag)
    BY Zenon DEF PageErrors
  <2>6. /\ HasEmpty(sent, {"table", "tr"}) <=> HasEmpty(sent, {"table"}) \/ HasEmpty(sent, {"tr"})
        /\ HasEmpty(sent, {"ul", "ol", "li"}) <=> \E tag \in {"ul", "ol", "li"} : HasEmpty(sent, {tag})
    BY DEF HasEmpty
  <2> HIDE DEF found
  <2> QED BY <2>2, <2>3, <2>4, <2>5, <2>6, Zenon
<1> QED BY <1>1, TypeInvariant, PTL
=============================================================================
