---------------------------- MODULE ApiDocsProofs ----------------------------
(***************************************************************************)
(* What the tripwires of the API documents say together, for any documents *)
(* and any edits. A behaviour only matters for the types of what people    *)
(* write; the rest is about the expressions, and most of it about paths.   *)
(***************************************************************************)
EXTENDS ApiDocs, SequenceTheorems, FiniteSetTheorems, WellFoundedInduction, TLAPS

\* Of what normalised paths are made: a literal's word, or a parameter.
Words == STRING \cup {"{}"}
Segments == Seq(Words)

\* norm_path gives a sequence of words, one for each segment.
LEMMA NormType ==
  ASSUME NEW p \in Path
  PROVE  Norm(p) \in Segments /\ Len(Norm(p)) = Len(p)
<1>1. DOMAIN p = 1..Len(p) /\ Len(p) \in Nat
  BY DEF Path
<1>2. \A i \in 1..Len(p) : (IF p[i].kind = "param" THEN "{}" ELSE p[i].val) \in Words
  <2>1. ASSUME NEW i \in 1..Len(p) PROVE (IF p[i].kind = "param" THEN "{}" ELSE p[i].val) \in Words
    <3>1. p[i] \in Segment
      BY DEF Path
    <3> QED BY <3>1 DEF Segment, Words
  <2> QED BY <2>1
<1>3. Norm(p) \in [1..Len(p) -> Words]
  <2>1. Norm(p) = [i \in 1..Len(p) |-> IF p[i].kind = "param" THEN "{}" ELSE p[i].val]
    BY <1>1 DEF Norm
  <2> QED BY <1>2, <2>1
<1> QED BY <1>1, <1>3 DEF Segments

\* A path ends with another one when that is what its last segments are.
LEMMA EndsWithAt ==
  ASSUME NEW p \in Segments, NEW q \in Segments
  PROVE  EndsWith(p, q) <=> /\ q # <<>> /\ Len(q) <= Len(p)
                            /\ \A i \in 1..Len(q) : q[i] = p[Len(p) - Len(q) + i]
<1> SUFFICES ASSUME Len(q) <= Len(p), q # <<>>
             PROVE  SubSeq(p, Len(p) - Len(q) + 1, Len(p)) = q
                      <=> \A i \in 1..Len(q) : q[i] = p[Len(p) - Len(q) + i]
  BY DEF EndsWith
<1> DEFINE last == SubSeq(p, Len(p) - Len(q) + 1, Len(p))
<1>1. Len(p) \in Nat /\ Len(q) \in Nat /\ Len(q) # 0
  BY DEF Segments
<1>2. last \in Segments /\ Len(last) = Len(q)
      /\ \A i \in 1..Len(q) : last[i] = p[Len(p) - Len(q) + i]
  BY <1>1 DEF Segments
<1>3. last = q <=> \A i \in 1..Len(q) : last[i] = q[i]
  BY <1>1, <1>2, SeqEqual DEF Segments
<1> QED BY <1>2, <1>3

\* A suffix of a suffix is a suffix.
LEMMA SuffixOfSuffix ==
  ASSUME NEW p \in Segments, NEW q \in Segments, NEW r \in Segments,
         EndsWith(p, q), EndsWith(q, r)
  PROVE  EndsWith(p, r)
<1>1. /\ q # <<>> /\ Len(q) <= Len(p)
      /\ \A i \in 1..Len(q) : q[i] = p[Len(p) - Len(q) + i]
  BY EndsWithAt
<1>2. /\ r # <<>> /\ Len(r) <= Len(q)
      /\ \A i \in 1..Len(r) : r[i] = q[Len(q) - Len(r) + i]
  BY EndsWithAt
<1>3. Len(p) \in Nat /\ Len(q) \in Nat /\ Len(r) \in Nat
  BY DEF Segments
<1>4. ASSUME NEW i \in 1..Len(r) PROVE r[i] = p[Len(p) - Len(r) + i]
  <2>1. Len(q) - Len(r) + i \in 1..Len(q)
    BY <1>2, <1>3
  <2>2. q[Len(q) - Len(r) + i] = p[Len(p) - Len(q) + (Len(q) - Len(r) + i)]
    BY <1>1, <2>1
  <2>3. Len(p) - Len(q) + (Len(q) - Len(r) + i) = Len(p) - Len(r) + i
    BY <1>3
  <2> QED BY <1>2, <2>2, <2>3
<1>5. Len(r) <= Len(p)
  BY <1>1, <1>2, <1>3
<1> QED BY <1>2, <1>4, <1>5, EndsWithAt

\* Of two ends of one path the shorter is an end of the longer.
LEMMA TwoSuffixes ==
  ASSUME NEW p \in Segments, NEW q \in Segments, NEW r \in Segments,
         EndsWith(p, q), EndsWith(p, r), Len(r) <= Len(q)
  PROVE  EndsWith(q, r)
<1>1. /\ Len(q) <= Len(p)
      /\ \A i \in 1..Len(q) : q[i] = p[Len(p) - Len(q) + i]
  BY EndsWithAt
<1>2. /\ r # <<>>
      /\ \A i \in 1..Len(r) : r[i] = p[Len(p) - Len(r) + i]
  BY EndsWithAt
<1>3. Len(p) \in Nat /\ Len(q) \in Nat /\ Len(r) \in Nat
  BY DEF Segments
<1>4. ASSUME NEW i \in 1..Len(r) PROVE r[i] = q[Len(q) - Len(r) + i]
  <2>1. Len(q) - Len(r) + i \in 1..Len(q)
    BY <1>3
  <2>2. q[Len(q) - Len(r) + i] = p[Len(p) - Len(q) + (Len(q) - Len(r) + i)]
    BY <1>1, <2>1
  <2>3. Len(p) - Len(q) + (Len(q) - Len(r) + i) = Len(p) - Len(r) + i
    BY <1>3
  <2> QED BY <1>2, <2>2, <2>3
<1> QED BY <1>2, <1>4, EndsWithAt

\* A path ends with itself.
LEMMA EndsWithItself ==
  ASSUME NEW p \in Segments, p # <<>>
  PROVE  EndsWith(p, p)
<1>1. Len(p) \in Nat /\ \A i \in 1..Len(p) : p[i] = p[Len(p) - Len(p) + i]
  BY DEF Segments
<1> QED BY <1>1, EndsWithAt

\* A path with its prefix ends with the path.
LEMMA FullEndsWithRel ==
  ASSUME NEW base \in Path, NEW p \in Path, p # <<>>
  PROVE  /\ base \o p \in Path
         /\ EndsWith(Norm(base \o p), Norm(p))
<1> DEFINE full == base \o p
<1>1. full \in Path /\ Len(full) = Len(base) + Len(p)
  BY DEF Path
<1>2. Len(base) \in Nat /\ Len(p) \in Nat \ {0} /\ DOMAIN p = 1..Len(p) /\ DOMAIN full = 1..Len(full)
  BY <1>1 DEF Path
<1>3. ASSUME NEW i \in 1..Len(p) PROVE Norm(p)[i] = Norm(full)[Len(base) + i]
  <2>1. full[Len(base) + i] = p[i] /\ Len(base) + i \in DOMAIN full /\ i \in DOMAIN p
    BY <1>1, <1>2 DEF Path
  <2> QED BY <2>1 DEF Norm
<1>4. /\ Norm(p) \in Segments /\ Len(Norm(p)) = Len(p)
      /\ Norm(full) \in Segments /\ Len(Norm(full)) = Len(base) + Len(p)
  BY <1>1, NormType
<1> HIDE DEF full
<1>5. Norm(p) # <<>> /\ Len(Norm(p)) <= Len(Norm(full))
      /\ Len(Norm(full)) - Len(Norm(p)) = Len(base)
  BY <1>2, <1>4
<1>6. EndsWith(Norm(full), Norm(p))
  BY <1>3, <1>4, <1>5, EndsWithAt
<1> QED BY <1>1, <1>6 DEF full
-----------------------------------------------------------------------------
\* Induction over the naturals, of a set and not of a predicate.
LEMMA SetInduction ==
  ASSUME NEW S, 0 \in S, \A n \in Nat : n \in S => n + 1 \in S
  PROVE  Nat \subseteq S
<1> SUFFICES ASSUME Nat \ S # {} PROVE FALSE
  OBVIOUS
<1>1. PICK m \in Nat \ S : \A n \in Nat \ S : ~(<<n, m>> \in OpToRel(<, Nat))
  BY NatLessThanWellFounded, WFMin
<1>2. m - 1 \in Nat /\ m - 1 < m /\ (m - 1) + 1 = m
  OBVIOUS
<1>3. <<m - 1, m>> \in OpToRel(<, Nat)
  BY <1>2 DEF OpToRel
<1> QED BY <1>1, <1>2, <1>3

\* A collection is what its recursion says: there are finitely many files,
\* and what is derived of some of them is defined by what is of fewer.
Step(s, g, done) ==
  IF done = {} THEN {} ELSE Extended(s, Last(done), g[done \ {Last(done)}])

Over(s) == CHOOSE g : g = [done \in SUBSET Files |-> Step(s, g, done)]

\* The file a build takes last is one of those it takes.
LEMMA LastIsIn ==
  ASSUME NEW done, done # {}
  PROVE  Last(done) \in done
BY DEF Last

\* The build of a collection, file by file, is what its recursion says.
LEMMA OverIsDefined ==
  ASSUME NEW s
  PROVE  /\ Collection(s) = Over(s)[Files]
         /\ Over(s) = [done \in SUBSET Files |-> Step(s, Over(s), done)]
<1> DEFINE UpTo(n) == {done \in SUBSET Files : Cardinality(done) <= n}
           Good == {n \in Nat : \E g : g = [done \in UpTo(n) |-> Step(s, g, done)]}
<1>1. IsFiniteSet(Files)
  BY ApiDocsAssumption DEF ApiDocsAssumption
<1>2. \A done \in SUBSET Files : IsFiniteSet(done) /\ Cardinality(done) \in Nat
                               /\ Cardinality(done) <= Cardinality(Files)
  BY <1>1, FS_Subset, FS_CardinalityType
<1>3. ASSUME NEW n \in Nat, NEW done \in UpTo(n + 1), done # {}
      PROVE  done \ {Last(done)} \in UpTo(n)
  <2>1. Cardinality(done \ {Last(done)}) = Cardinality(done) - 1
    BY <1>2, <1>3, LastIsIn, FS_RemoveElement
  <2> QED BY <1>2, <2>1
<1>4. 0 \in Good
  <2>1. \A done \in UpTo(0) : done = {}
    BY <1>2, FS_EmptySet
  <2> DEFINE g == [done \in UpTo(0) |-> {}]
  <2>2. g = [done \in UpTo(0) |-> Step(s, g, done)]
    BY <2>1 DEF Step
  <2> QED BY <2>2
<1>5. ASSUME NEW n \in Nat, n \in Good PROVE n + 1 \in Good
  <2>1. PICK g : g = [done \in UpTo(n) |-> Step(s, g, done)]
    BY <1>5
  <2> DEFINE h == [done \in UpTo(n + 1) |-> Step(s, g, done)]
  <2>2. ASSUME NEW done \in UpTo(n + 1) PROVE Step(s, h, done) = Step(s, g, done)
    <3>1. CASE done = {}
      BY <3>1 DEF Step
    <3>2. CASE done # {}
      <4>1. done \ {Last(done)} \in UpTo(n) /\ done \ {Last(done)} \in UpTo(n + 1)
        BY <1>2, <1>3, <3>2
      <4>2. h[done \ {Last(done)}] = g[done \ {Last(done)}]
        BY <2>1, <4>1
      <4> QED BY <4>2 DEF Step
    <3> QED BY <3>1, <3>2
  <2>3. h = [done \in UpTo(n + 1) |-> Step(s, h, done)]
    BY <2>2
  <2> HIDE DEF h
  <2>4. \E k : k = [done \in UpTo(n + 1) |-> Step(s, k, done)]
    BY <2>3
  <2> QED BY <2>4
<1>6. Cardinality(Files) \in Good
  <2> HIDE DEF Good
  <2> QED BY <1>1, <1>4, <1>5, SetInduction, FS_CardinalityType
<1>7. UpTo(Cardinality(Files)) = SUBSET Files
  BY <1>2
<1>8. \E g : g = [done \in SUBSET Files |-> Step(s, g, done)]
  BY <1>6, <1>7
<1>9. Over(s) = [done \in SUBSET Files |-> Step(s, Over(s), done)]
  BY <1>8, Zenon DEF Over
<1>10. Collection(s) = Over(s)[Files]
  BY DEF Collection, Over, Step
<1> QED BY <1>9, <1>10

\* There is a free number: fewer requests than numbers to choose from.
LEMMA FreeSeqIsFree ==
  ASSUME NEW others, IsFiniteSet(others)
  PROVE  FreeSeq(others) \in Nat \ {0} /\ \A r \in others : r.seq # FreeSeq(others)
<1> DEFINE size == Cardinality(others)
           numbers == 1..(size + 1)
<1>1. size \in Nat
  BY FS_CardinalityType
<1>2. IsFiniteSet(numbers) /\ Cardinality(numbers) = size + 1
  BY <1>1, FS_Interval
<1>3. ASSUME \A n \in numbers : \E r \in others : r.seq = n PROVE FALSE
  <2> DEFINE taken == [n \in numbers |-> CHOOSE r \in others : r.seq = n]
  <2>1. \A n \in numbers : taken[n] \in others /\ taken[n].seq = n
    BY <1>3
  <2>2. taken \in [numbers -> others]
    BY <2>1
  <2>3. size < size + 1
    BY <1>1
  <2>4. \E x, y \in numbers : x # y /\ taken[x] = taken[y]
    <3> HIDE DEF taken, numbers
    <3> QED BY <1>2, <2>2, <2>3, FS_PigeonHole
  <2> QED BY <2>1, <2>4
<1>4. \E n \in numbers : \A r \in others : r.seq # n
  BY <1>3
<1>5. FreeSeq(others) \in numbers /\ \A r \in others : r.seq # FreeSeq(others)
  BY <1>4 DEF FreeSeq
<1> QED BY <1>1, <1>5

SpecIsTyped(s) ==
  /\ DOMAIN s = Files
  /\ \A f \in Files : s[f] \subseteq Doc /\ \A d1, d2 \in s[f] : d1 = d2

\* What is derived of the files done so far: a request for each of them that
\* has a document, each with a number of its own.
IsDerived(r, s, done) ==
  \E f \in done : \E doc \in s[f] : \E n \in Nat \ {0} : r = Derived(f, doc, n)

DerivedOf(s, done, rs) ==
  /\ IsFiniteSet(rs)
  /\ \A r \in rs : IsDerived(r, s, done)
  /\ \A r1, r2 \in rs : r1.seq = r2.seq => r1 = r2
  /\ \A f \in done : s[f] # {} => \E r \in rs : r.file = f

\* The request written for one more file is derived from it, the others stay.
LEMMA ExtendedIsDerived ==
  ASSUME NEW s, SpecIsTyped(s), NEW done \in SUBSET Files, NEW f \in done, NEW others,
         DerivedOf(s, done \ {f}, others)
  PROVE  DerivedOf(s, done, Extended(s, f, others))
<1>1. CASE s[f] = {}
  BY <1>1 DEF Extended, DerivedOf, IsDerived
<1>2. CASE s[f] # {}
  <2> DEFINE doc == CHOOSE d \in s[f] : TRUE
             new == Derived(f, doc, FreeSeq(others))
             all == others \cup {new}
  <2>1. doc \in s[f] /\ Extended(s, f, others) = all
    BY <1>2 DEF Extended, DeriveInto
  <2>2. IsFiniteSet(others) /\ FreeSeq(others) \in Nat \ {0} /\ \A r \in others : r.seq # FreeSeq(others)
    BY FreeSeqIsFree DEF DerivedOf
  <2>3. new.seq = FreeSeq(others) /\ new.file = f
    BY DEF Derived
  <2>4. IsFiniteSet(all)
    BY <2>2, FS_AddElement
  <2>5. IsDerived(new, s, done)
    BY <2>1, <2>2 DEF IsDerived
  <2> HIDE DEF new, doc
  <2>6. \A r \in all : IsDerived(r, s, done)
    BY <2>5 DEF DerivedOf, IsDerived
  <2>7. \A r1, r2 \in all : r1.seq = r2.seq => r1 = r2
    BY <2>2, <2>3 DEF DerivedOf
  <2>8. \A g \in done : s[g] # {} => \E r \in all : r.file = g
    BY <2>3 DEF DerivedOf
  <2> QED BY <2>1, <2>4, <2>6, <2>7, <2>8 DEF DerivedOf
<1> QED BY <1>1, <1>2

\* A built collection holds a request for each file, derived from it.
LEMMA CollectionIsDerived ==
  ASSUME NEW s, SpecIsTyped(s)
  PROVE  DerivedOf(s, Files, Collection(s))
<1> DEFINE Good == {n \in Nat : \A done \in SUBSET Files :
                      Cardinality(done) = n => DerivedOf(s, done, Over(s)[done])}
<1>1. IsFiniteSet(Files)
  BY ApiDocsAssumption DEF ApiDocsAssumption
<1>2. \A done \in SUBSET Files : IsFiniteSet(done)
  BY <1>1, FS_Subset
<1>3. 0 \in Good
  <2> SUFFICES ASSUME NEW done \in SUBSET Files, Cardinality(done) = 0
               PROVE  DerivedOf(s, done, Over(s)[done])
    OBVIOUS
  <2>1. done = {}
    BY <1>2, FS_EmptySet
  <2>2. Over(s)[done] = {}
    BY <2>1, OverIsDefined DEF Step
  <2> QED BY <2>1, <2>2, FS_EmptySet DEF DerivedOf
<1>4. ASSUME NEW n \in Nat, n \in Good PROVE n + 1 \in Good
  <2> SUFFICES ASSUME NEW done \in SUBSET Files, Cardinality(done) = n + 1
               PROVE  DerivedOf(s, done, Over(s)[done])
    OBVIOUS
  <2> DEFINE rest == done \ {Last(done)}
  <2>1. done # {} /\ Last(done) \in done
    BY <1>2, FS_EmptySet, LastIsIn
  <2>2. rest \in SUBSET Files /\ Cardinality(rest) = n
    <3>1. IsFiniteSet(done)
      BY <1>2
    <3>2. Cardinality(rest) = Cardinality(done) - 1
      BY <2>1, <3>1, FS_RemoveElement
    <3> QED BY <3>2
  <2>3. DerivedOf(s, rest, Over(s)[rest])
    BY <1>4, <2>2
  <2>4. Over(s)[done] = Extended(s, Last(done), Over(s)[rest])
    BY <2>1, OverIsDefined DEF Step
  <2> QED BY <2>1, <2>3, <2>4, ExtendedIsDerived
<1>5. Cardinality(Files) \in Good
  <2> HIDE DEF Good
  <2> QED BY <1>1, <1>3, <1>4, SetInduction, FS_CardinalityType
<1> QED BY <1>5, OverIsDefined

\* What is derived is a request.
LEMMA DerivedIsRequest ==
  ASSUME NEW f, NEW doc \in Doc, NEW seq
  PROVE  IsRequest(Derived(f, doc, seq))
BY DEF Doc, IsRequest, Derived

\* Whatever somebody does to a document of the api-spec, it stays one.
LEMMA DocEditsAreTyped ==
  ASSUME NEW doc \in Doc, NEW new \in DocEdits(doc)
  PROVE  new \in Doc
<1>1. CASE \E m \in Methods : new = [doc EXCEPT !.method = m]
  BY <1>1 DEF Doc
<1>2. CASE \E p \in UrlPaths : new = [doc EXCEPT !.path = p]
  BY <1>2 DEF Doc
<1>3. CASE \E ps \in ParamSets : new = [doc EXCEPT !.pathParams = ps]
  BY <1>3 DEF Doc
<1>4. CASE \E b \in Bodies : new = [doc EXCEPT !.body = b]
  BY <1>4 DEF Doc
<1>5. CASE \E rs \in ResponseLists : new = [doc EXCEPT !.responses = rs]
  BY <1>5 DEF Doc
<1>6. CASE \E es \in ErrorSets : new = [doc EXCEPT !.errors = es]
  BY <1>6 DEF Doc
<1>7. CASE \E ns \in NoteSets : new = [doc EXCEPT !.notes = ns]
  BY <1>7 DEF Doc
<1>8. CASE \/ \E t \in Descriptions : new = [doc EXCEPT !.description = t]
           \/ \E t \in Descriptions : new = [doc EXCEPT !.endpoint = t]
  BY <1>8 DEF Doc
<1>9. CASE new = [doc EXCEPT !.top = "list"]
  BY <1>9 DEF Doc
<1>10. CASE new = [doc EXCEPT !.lacks = {"domain"}] \/ new = [doc EXCEPT !.lacks = {"method"}]
  BY <1>10 DEF Doc
<1> QED BY <1>1, <1>2, <1>3, <1>4, <1>5, <1>6, <1>7, <1>8, <1>9, <1>10 DEF DocEdits

\* Whatever somebody does to a request, it stays one.
LEMMA RequestEditsAreTyped ==
  ASSUME NEW req, IsRequest(req), NEW new \in RequestEdits(req)
  PROVE  IsRequest(new)
<1>1. DOMAIN new = DOMAIN req
  BY DEF RequestEdits
<1>2. new.url \in UrlPaths
  BY DEF RequestEdits, IsRequest
<1> QED BY <1>1, <1>2 DEF IsRequest

\* What is edited keeps its type: people write what the constants list, and
\* the skill takes its requests from the documents.
LEMMA TypeInvariant == Spec => []TypeOK
<1>1. Init => TypeOK
  <2> SUFFICES ASSUME Init PROVE TypeOK
    OBVIOUS
  <2>1. /\ code \in Codes /\ meta \in Metas /\ DOMAIN spec = Files
        /\ \A f \in Files : spec[f] \subseteq Doc /\ \A d1, d2 \in spec[f] : d1 = d2
    BY ApiDocsAssumption DEF ApiDocsAssumption, Init
  <2>2. \A req \in requests : IsRequest(req)
    <3>1. DerivedOf(spec, Files, requests)
      BY <2>1, CollectionIsDerived DEF SpecIsTyped, Init
    <3> QED BY <2>1, <3>1, DerivedIsRequest DEF DerivedOf, IsDerived
  <2> QED BY <2>1, <2>2 DEF TypeOK, Init
<1>2. TypeOK /\ [Next]_vars => TypeOK'
  <2> SUFFICES ASSUME TypeOK, [Next]_vars PROVE TypeOK'
    OBVIOUS
  <2>1. CASE EditDoc
    <3>1. PICK f \in Files : \E doc \in spec[f] : \E new \in (DocEdits(doc) \ {doc}) :
                  spec' = [spec EXCEPT ![f] = {new}]
      BY <2>1 DEF EditDoc
    <3>2. PICK doc \in spec[f] : \E new \in (DocEdits(doc) \ {doc}) : spec' = [spec EXCEPT ![f] = {new}]
      BY <3>1
    <3>3. PICK new \in DocEdits(doc) : spec' = [spec EXCEPT ![f] = {new}]
      BY <3>2
    <3>4. new \in Doc
      <4>1. doc \in Doc
        BY DEF TypeOK
      <4> QED BY <4>1, <3>3, DocEditsAreTyped
    <3> QED BY <2>1, <3>3, <3>4 DEF TypeOK, EditDoc
  <2>2. CASE RemoveDoc
    BY <2>2 DEF TypeOK, RemoveDoc
  <2>3. CASE EditMeta
    BY <2>3 DEF TypeOK, EditMeta
  <2>4. CASE EditCode
    BY <2>4 DEF TypeOK, EditCode
  <2>5. CASE EditRequest
    <3>1. PICK req \in requests : \E new \in (RequestEdits(req) \ {req}) :
                  requests' = (requests \ {req}) \cup {new}
      BY <2>5 DEF EditRequest
    <3>2. PICK new \in RequestEdits(req) : requests' = (requests \ {req}) \cup {new}
      BY <3>1
    <3>3. IsRequest(new)
      BY <3>2, RequestEditsAreTyped DEF TypeOK
    <3> QED BY <2>5, <3>2, <3>3 DEF TypeOK, EditRequest
  <2>6. CASE RemoveRequest
    BY <2>6 DEF TypeOK, RemoveRequest
  <2>7. CASE EditEnv
    BY <2>7 DEF TypeOK, EditEnv
  <2>8. CASE WriteIndex
    BY <2>8 DEF TypeOK, WriteIndex
  <2>9. CASE Derive
    <3>1. PICK f \in Files : \E doc \in spec[f] :
               requests' = DeriveInto(f, doc, {r \in requests : r.file # f})
      BY <2>9 DEF Derive
    <3>2. PICK doc \in spec[f] : requests' = DeriveInto(f, doc, {r \in requests : r.file # f})
      BY <3>1
    <3>3. doc \in Doc
      BY DEF TypeOK
    <3> QED BY <2>9, <3>2, <3>3, DerivedIsRequest DEF TypeOK, Derive, DeriveInto
  <2>10. CASE UNCHANGED vars
    BY <2>10 DEF TypeOK, vars
  <2> QED BY <2>1, <2>2, <2>3, <2>4, <2>5, <2>6, <2>7, <2>8, <2>9, <2>10 DEF Next
<1> QED BY <1>1, <1>2, PTL DEF Spec
-----------------------------------------------------------------------------
\* What is known of an endpoint of the spec.
IsOp(op) ==
  /\ op.file \in Files /\ op.doc \in spec[op.file] /\ op.doc \in Doc
  /\ op.doc.top = "mapping" /\ op.doc.lacks \cap {"method", "path"} = {}
  /\ op.method = op.doc.method /\ op.rel = Norm(op.doc.path)
  /\ op.full = Norm(meta.base \o op.doc.path)
  /\ op.rel \in Segments /\ op.full \in Segments
  /\ op.rel # <<>> => EndsWith(op.full, op.rel)

\* What colcheck.py and speccheck.py read of the api-spec are operations.
LEMMA OpsAreOps ==
  ASSUME TypeOK, NEW op \in Ops
  PROVE  IsOp(op)
<1>1. PICK f \in Files : \E d \in spec[f] :
        /\ op = [file |-> f, method |-> d.method, doc |-> d,
                 rel |-> Norm(d.path), full |-> Norm(meta.base \o d.path)]
        /\ d.top = "mapping" /\ d.lacks \cap {"method", "path"} = {}
  BY DEF Ops, SpecOps, TypeOK
<1>2. PICK doc \in spec[f] :
        /\ op = [file |-> f, method |-> doc.method, doc |-> doc,
                 rel |-> Norm(doc.path), full |-> Norm(meta.base \o doc.path)]
        /\ doc.top = "mapping" /\ doc.lacks \cap {"method", "path"} = {}
  BY <1>1
<1>3. doc \in Doc /\ doc.path \in Path /\ meta.base \in Path
  BY ApiDocsAssumption DEF ApiDocsAssumption, TypeOK, Doc
<1>4. meta.base \o doc.path \in Path
  BY <1>3 DEF Path
<1>5. /\ Norm(doc.path) \in Segments /\ Norm(meta.base \o doc.path) \in Segments
      /\ Len(Norm(doc.path)) = Len(doc.path)
  BY <1>3, <1>4, NormType
<1>6. Norm(doc.path) # <<>> => EndsWith(Norm(meta.base \o doc.path), Norm(doc.path))
  <2>1. doc.path = <<>> => Norm(doc.path) = <<>>
    BY <1>5 DEF Segments
  <2> QED BY <1>3, <2>1, FullEndsWithRel
<1> QED BY <1>2, <1>3, <1>5, <1>6 DEF IsOp

\* Every document with a method and a path is an endpoint.
LEMMA DocsAreOps ==
  ASSUME TypeOK, NEW f \in Files, NEW doc \in spec[f],
         doc.top = "mapping", doc.lacks \cap {"method", "path"} = {}
  PROVE  \E op \in Ops : op.file = f /\ op.doc = doc
<1> DEFINE op == [file |-> f, method |-> doc.method, doc |-> doc,
                  rel |-> Norm(doc.path), full |-> Norm(meta.base \o doc.path)]
           opsOf(g) == {[file |-> g, method |-> d.method, doc |-> d,
                         rel |-> Norm(d.path), full |-> Norm(meta.base \o d.path)] :
                          d \in {x \in spec[g] : x.top = "mapping" /\ x.lacks \cap {"method", "path"} = {}}}
<1>1. op \in opsOf(f)
  OBVIOUS
<1>2. Ops = UNION {opsOf(g) : g \in Files}
  BY DEF Ops, SpecOps, TypeOK
<1>3. op \in Ops
  <2> HIDE DEF op, opsOf
  <2> QED BY <1>1, <1>2
<1>4. op.file = f /\ op.doc = doc
  OBVIOUS
<1> QED BY <1>3, <1>4

\* A request's path ends with that of an endpoint it matches, but for the root.
LEMMA MatchedEnd ==
  ASSUME NEW op, IsOp(op), NEW method, NEW path \in Segments, OpMatches(op, method, path)
  PROVE  /\ op.method = method
         /\ op.rel # <<>> => EndsWith(path, op.rel)
         /\ op.rel = <<>> => path \in {<<>>, op.full}
<1>1. op.method = method /\ (path \in {op.rel, op.full} \/ EndsWith(path, op.rel))
  BY DEF OpMatches
<1>2. op.rel # <<>> => EndsWith(path, op.rel)
  BY <1>1, EndsWithItself DEF IsOp
<1>3. ~EndsWith(path, <<>>)
  BY DEF EndsWith
<1> QED BY <1>1, <1>2, <1>3

\* Of two paths with no end in common none is an end of a third.
LEMMA EndsApart ==
  ASSUME NEW op1, IsOp(op1), NEW op2, IsOp(op2), NEW path \in Segments,
         EndsWith(path, op1.rel), EndsWith(path, op2.rel), Len(op2.rel) <= Len(op1.rel)
  PROVE  EndsWith(op1.full, op2.rel)
<1>1. EndsWith(op1.rel, op2.rel) /\ op1.rel # <<>>
  BY TwoSuffixes, EndsWithAt DEF IsOp
<1> QED BY <1>1, SuffixOfSuffix DEF IsOp

\* Endpoints that one request fits overlap.
LEMMA CandidatesOverlap ==
  ASSUME TypeOK, NEW op1 \in Ops, NEW op2 \in Ops,
         NEW method, NEW path \in Segments,
         OpMatches(op1, method, path), OpMatches(op2, method, path)
  PROVE  Overlap(op1, op2)
<1> SUFFICES ASSUME ~Overlap(op1, op2) PROVE FALSE
  OBVIOUS
<1>1. IsOp(op1) /\ IsOp(op2)
  BY OpsAreOps
<1>2. /\ op1.method = method /\ op2.method = method
      /\ op1.rel # <<>> => EndsWith(path, op1.rel)
      /\ op1.rel = <<>> => path \in {<<>>, op1.full}
      /\ op2.rel # <<>> => EndsWith(path, op2.rel)
      /\ op2.rel = <<>> => path \in {<<>>, op2.full}
  BY <1>1, MatchedEnd
<1>3. op1.rel # op2.rel /\ ~EndsWith(op1.full, op2.rel) /\ ~EndsWith(op2.full, op1.rel)
  BY <1>2 DEF Overlap
<1>4. \A q \in Segments : ~EndsWith(<<>>, q)
  <2> SUFFICES ASSUME NEW q \in Segments, q # <<>>, Len(q) <= Len(<<>>) PROVE FALSE
    BY DEF EndsWith
  <2>1. Len(q) \in Nat /\ Len(<<>>) = 0 /\ Len(q) # 0
    BY DEF Segments
  <2> QED BY <2>1
<1>5. op1.rel \in Segments /\ op2.rel \in Segments
  BY <1>1 DEF IsOp
<1>6. CASE op1.rel = <<>>
  BY <1>2, <1>3, <1>4, <1>5, <1>6
<1>7. CASE op2.rel = <<>>
  BY <1>2, <1>3, <1>4, <1>5, <1>7
<1>8. CASE op1.rel # <<>> /\ op2.rel # <<>>
  <2>1. Len(op1.rel) \in Nat /\ Len(op2.rel) \in Nat
    BY <1>5 DEF Segments
  <2>2. CASE Len(op2.rel) <= Len(op1.rel)
    BY <1>1, <1>2, <1>3, <1>8, <2>2, EndsApart
  <2>3. CASE Len(op1.rel) <= Len(op2.rel)
    BY <1>1, <1>2, <1>3, <1>8, <2>3, EndsApart
  <2> QED BY <2>1, <2>2, <2>3
<1> QED BY <1>6, <1>7, <1>8
-----------------------------------------------------------------------------
\* A collection that passes is complete, and each of its requests was read and
\* found in order.
LEMMA AcceptedIsChecked ==
  ASSUME CollectionAccepted
  PROVE  /\ \A op \in Ops : \E req \in requests : op \in Candidates(Ops, req)
         /\ \A req \in requests : Candidates(Ops, req) # {}
         /\ \A req \in requests : Addressed(req) /\ RequestErrors(Ops, env, req) = {}
<1>1. ColErrors(meta, spec, env, requests) = {}
  BY DEF CollectionAccepted, ColPasses
<1>2. /\ CoverageErrors(Ops, requests) = {}
      /\ \A req \in requests : RequestErrors(Ops, env, req) = {}
  BY <1>1 DEF ColErrors, Ops
<1>3. \A req \in requests : Addressed(req)
  <2> SUFFICES ASSUME NEW req \in requests PROVE Addressed(req)
    OBVIOUS
  <2>1. Readable(req) /\ req.lacks = {}
    BY <1>2 DEF RequestErrors
  <2> QED BY <2>1 DEF Addressed
<1>4. /\ \A op \in Ops : \E req \in requests : op \in Candidates(Ops, req)
      /\ \A req \in requests : Addressed(req) => Candidates(Ops, req) # {}
  BY <1>2 DEF CoverageErrors
<1> QED BY <1>2, <1>3, <1>4

\* What the checks of a request say when it has a source.
LEMMA SourceIsCompared ==
  ASSUME NEW req, NEW op \in Source(Ops, req),
         Addressed(req), RequestErrors(Ops, env, req) = {}
  PROVE  Agrees(req, op.doc)
<1>4. req.body # "broken" /\ BodyErrors(req, op.doc) = {} /\ DocsErrors(req, op.doc) = {}
  <2>1. /\ req.body # "broken"
        /\ UNION {BodyErrors(req, o.doc) \cup DocsErrors(req, o.doc) : o \in Source(Ops, req)} = {}
    BY DEF RequestErrors, Addressed
  <2>2. BodyErrors(req, op.doc) \cup DocsErrors(req, op.doc)
          \in {BodyErrors(req, o.doc) \cup DocsErrors(req, o.doc) : o \in Source(Ops, req)}
    OBVIOUS
  <2> QED BY <2>1, <2>2
<1>5. ExampleOf(op.doc) = {"broken"} \/ ExampleOf(op.doc) = {req.body} \ {"none", "other"}
  BY <1>4 DEF BodyErrors
<1>6. Renders(op.doc) => req.docs = RenderEndpoint(op.doc)
  BY <1>4 DEF DocsErrors, RenderEndpoint
<1> QED BY <1>5, <1>6 DEF Agrees

\* colcheck.py: an accepted collection has a request that fits every endpoint,
\* and every request has the JSON body and the documentation of one, or fits
\* two that overlap.
THEOREM CollectionIsFaithfulHolds == Spec => []CollectionIsFaithful
<1>1. TypeOK => CollectionIsFaithful
  <2> SUFFICES ASSUME TypeOK, CollectionAccepted
               PROVE  /\ \A op \in Ops : \E req \in requests : OpMatches(op, req.method, Norm(req.url))
                      /\ \A req \in requests : \E op \in Candidates(Ops, req) :
                           \/ Agrees(req, op.doc)
                           \/ \E other \in Candidates(Ops, req) \ {op} : Overlap(op, other)
    BY DEF CollectionIsFaithful
  <2>1. \A op \in Ops : \E req \in requests : OpMatches(op, req.method, Norm(req.url))
    BY AcceptedIsChecked DEF Candidates
  <2>2. ASSUME NEW req \in requests
        PROVE  \E op \in Candidates(Ops, req) :
                 \/ Agrees(req, op.doc)
                 \/ \E other \in Candidates(Ops, req) \ {op} : Overlap(op, other)
    <3>1. PICK op \in Candidates(Ops, req) : TRUE
      BY AcceptedIsChecked
    <3>2. CASE Candidates(Ops, req) = {op}
      <4>1. op \in Source(Ops, req)
        BY <3>2, FS_Singleton DEF Source
      <4> QED BY <3>1, <4>1, AcceptedIsChecked, SourceIsCompared
    <3>3. CASE Candidates(Ops, req) # {op}
      <4>1. PICK other \in Candidates(Ops, req) : other # op
        BY <3>1, <3>3
      <4>2. Norm(req.url) \in Segments
        BY ApiDocsAssumption, NormType DEF ApiDocsAssumption, TypeOK, IsRequest
      <4>3. Overlap(op, other)
        BY <4>2, CandidatesOverlap DEF Candidates
      <4> QED BY <3>1, <4>1, <4>3
    <3> QED BY <3>2, <3>3
  <2> QED BY <2>1, <2>2
<1> QED BY <1>1, TypeInvariant, PTL
-----------------------------------------------------------------------------
\* In an accepted spec nothing is wrong with any document.
LEMMA DocsAreInOrder ==
  ASSUME TypeOK, SpecAccepted, NEW f \in Files, NEW doc \in spec[f]
  PROVE  EndpointErrors(doc) = {} /\ doc.top = "mapping" /\ doc.lacks = {}
<1>1. EndpointErrors(doc) = {}
  BY DEF SpecAccepted, SpecErrors, TypeOK
<1> QED BY <1>1 DEF EndpointErrors

\* apispeccheck.py --check and colcheck.py: an index in step with the spec and
\* a collection that passes list the same endpoints.
THEOREM IndexListsCollectionHolds == Spec => []IndexListsCollection
<1>1. TypeOK => IndexListsCollection
  <2> SUFFICES ASSUME TypeOK, NEW page \in index, CheckPasses(meta, spec, index), CollectionAccepted
               PROVE  /\ \A row \in page.rows : \E req \in requests : Lists(page, row, req)
                      /\ \A req \in requests : \E row \in page.rows : Lists(page, row, req)
    BY DEF IndexListsCollection
  <2>1. page.rows = IndexRows(spec) /\ page.base = meta.base /\ SpecAccepted
    BY DEF CheckPasses, RenderIndex, SpecAccepted
  <2>2. ASSUME NEW op \in Ops, NEW req \in requests, op \in Candidates(Ops, req),
               NEW row, row.method = op.doc.method, row.path = op.doc.path
        PROVE  Lists(page, row, req)
    BY <2>1, <2>2, OpsAreOps DEF Candidates, OpMatches, IsOp, Lists
  <2>3. ASSUME NEW row \in page.rows PROVE \E req \in requests : Lists(page, row, req)
    <3>1. PICK f \in Files : \E doc \in spec[f] : row = [file |-> f, method |-> doc.method, path |-> doc.path]
      BY <2>1 DEF IndexRows, TypeOK
    <3>2. PICK doc \in spec[f] : row = [file |-> f, method |-> doc.method, path |-> doc.path]
      BY <3>1
    <3>3. PICK op \in Ops : op.doc = doc
      BY <2>1, DocsAreInOrder, DocsAreOps
    <3>4. PICK req \in requests : op \in Candidates(Ops, req)
      BY AcceptedIsChecked
    <3> QED BY <2>2, <3>2, <3>3, <3>4
  <2>4. ASSUME NEW req \in requests PROVE \E row \in page.rows : Lists(page, row, req)
    <3>1. PICK op \in Ops : op \in Candidates(Ops, req)
      BY AcceptedIsChecked DEF Candidates
    <3> DEFINE row == [file |-> op.file, method |-> op.doc.method, path |-> op.doc.path]
    <3>2. op.file \in Files /\ op.doc \in spec[op.file] /\ op.doc.top = "mapping"
      BY OpsAreOps DEF IsOp
    <3>3. row \in page.rows
      BY <2>1, <3>2 DEF IndexRows, TypeOK
    <3>4. Lists(page, row, req)
      BY <2>2, <3>1
    <3> QED BY <3>3, <3>4
  <2> QED BY <2>3, <2>4
<1> QED BY <1>1, TypeInvariant, PTL
-----------------------------------------------------------------------------
\* What is filtered shows no card key and no path below docs/.
Cut(text) == text \cap {"key", "docs"} = {}

\* So does the row a field is written as.
LEMMA RowIsCut ==
  ASSUME NEW f, f.object \notin Fragments
  PROVE  Cut(FieldRow(f).remark)
<1>1. FieldRow(f).remark \in {{f.object}, AudienceText(f.remark)}
  BY DEF FieldRow
<1> QED BY <1>1 DEF Cut, AudienceText, Fragments

\* No object has the name of a fragment, in any table of a document.
LEMMA ObjectsAreNames ==
  ASSUME NEW doc \in Doc
  PROVE  /\ \A f \in doc.pathParams : f.object \notin Fragments
         /\ \A b \in doc.body : \A f \in b.fields : f.object \notin Fragments
         /\ \A i \in DOMAIN doc.responses : \A f \in ResponseRows(doc.responses[i]) :
              f.object \notin Fragments
<1>1. /\ doc.pathParams \in ParamSets /\ doc.body \in Bodies /\ doc.responses \in ResponseLists
  BY DEF Doc
<1>2. ASSUME NEW f \in doc.pathParams PROVE f.object \notin Fragments
  BY <1>1, ApiDocsAssumption DEF ApiDocsAssumption
<1>3. ASSUME NEW b \in doc.body, NEW f \in b.fields PROVE f.object \notin Fragments
  <2>1. b \in UNION Bodies
    BY <1>1
  <2> QED BY <2>1, ApiDocsAssumption DEF ApiDocsAssumption
<1>4. ASSUME NEW i \in DOMAIN doc.responses, NEW f \in ResponseRows(doc.responses[i])
      PROVE  f.object \notin Fragments
  <2>1. f \in UNION {ResponseRows(doc.responses[j]) : j \in DOMAIN doc.responses}
    OBVIOUS
  <2>2. f \in UNION {UNION {ResponseRows(rs[j]) : j \in DOMAIN rs} : rs \in ResponseLists}
    BY <1>1, <2>1
  <2> QED BY <2>2, ApiDocsAssumption DEF ApiDocsAssumption
<1> QED BY <1>2, <1>3, <1>4

\* Every text of a rendered page but its title is filtered, and of its notes
\* only those without evidence are left.
LEMMA PageIsCut ==
  ASSUME NEW doc \in Doc, NEW page \in RenderEndpoint(doc)
  PROVE  /\ Cut(Shown(page))
         /\ (UNION page.notes) \cap {"docs", "code", "url", "gone"} = {}
<1>1. /\ page.description = AudienceText(doc.description)
      /\ page.pathParams = FieldTable(doc.pathParams)
      /\ page.body = {[fields |-> FieldTable(b.fields), example |-> b.example] : b \in doc.body}
      /\ page.errors = ErrorTable(doc.errors)
      /\ page.notes = AudienceNotes(doc.notes)
      /\ page.responses = [i \in DOMAIN doc.responses |->
                              [fields |-> FieldTable(doc.responses[i].fields),
                               objects |-> [o \in DOMAIN doc.responses[i].objects |->
                                              FieldTable(doc.responses[i].objects[o])]]]
  BY DEF RenderEndpoint
<1>2. \A text : Cut(AudienceText(text))
  BY DEF Cut, AudienceText
<1>3. Cut(page.description)
  BY <1>1, <1>2
<1>4. ASSUME NEW n \in page.notes PROVE Cut(n) /\ n \cap {"docs", "code", "url", "gone"} = {}
  <2>1. PICK m \in doc.notes : m \cap {"docs", "code", "url", "gone"} = {} /\ n = AudienceText(m)
    BY <1>1 DEF AudienceNotes
  <2> QED BY <1>2, <2>1 DEF AudienceText
<1>5. ASSUME NEW e \in page.errors PROVE Cut(e.message)
  <2>1. PICK d \in doc.errors : e = [d EXCEPT !.message = AudienceText(d.message)]
    BY <1>1 DEF ErrorTable
  <2>2. "message" \in DOMAIN d
    BY ApiDocsAssumption DEF ApiDocsAssumption, Doc
  <2>3. e.message = AudienceText(d.message)
    BY <2>1, <2>2
  <2> QED BY <1>2, <2>3
<1>6. ASSUME NEW rows, \A f \in rows : f.object \notin Fragments, NEW row \in FieldTable(rows)
      PROVE  Cut(row.remark)
  BY <1>6, RowIsCut DEF FieldTable
<1>7. ASSUME NEW row \in page.pathParams PROVE Cut(row.remark)
  BY <1>1, <1>6, ObjectsAreNames
<1>8. ASSUME NEW row \in UNION {b.fields : b \in page.body} PROVE Cut(row.remark)
  <2>1. PICK b \in doc.body : row \in FieldTable(b.fields)
    BY <1>1
  <2> QED BY <1>6, <2>1, ObjectsAreNames
<1>9. ASSUME NEW row \in UNION {ResponseRows(page.responses[i]) : i \in DOMAIN page.responses}
      PROVE  Cut(row.remark)
  <2>1. PICK i \in DOMAIN doc.responses : row \in ResponseRows(page.responses[i])
    BY <1>1
  <2> DEFINE r == doc.responses[i]
  <2>2. page.responses[i] = [fields |-> FieldTable(r.fields),
                            objects |-> [o \in DOMAIN r.objects |-> FieldTable(r.objects[o])]]
    BY <1>1
  <2>3. PICK rows \in {r.fields} \cup {r.objects[o] : o \in DOMAIN r.objects} : row \in FieldTable(rows)
    BY <2>1, <2>2 DEF ResponseRows
  <2>4. \A f \in rows : f \in ResponseRows(r)
    BY DEF ResponseRows
  <2> QED BY <1>6, <2>3, <2>4, ObjectsAreNames
<1> QED BY <1>3, <1>4, <1>5, <1>7, <1>8, <1>9 DEF Shown, Cut

\* yaml2md.py and colcheck.py: what a request that has a source shows below
\* its title was cut, and was not written back into it.
THEOREM CollectionIsForCallersHolds == Spec => []CollectionIsForCallers
<1>1. TypeOK => CollectionIsForCallers
  <2> SUFFICES ASSUME TypeOK, CollectionAccepted,
                      NEW req \in requests, NEW op \in Source(Ops, req), Renders(op.doc),
                      NEW page \in req.docs
               PROVE  /\ Shown(page) \cap {"key", "docs"} = {}
                      /\ (UNION page.notes) \cap {"docs", "code", "url", "gone"} = {}
    BY DEF CollectionIsForCallers
  <2>1. req.docs = RenderEndpoint(op.doc)
    BY AcceptedIsChecked, SourceIsCompared DEF Agrees
  <2>2. op.doc \in Doc
    BY OpsAreOps DEF IsOp, Source, Candidates
  <2> QED BY <2>1, <2>2, PageIsCut DEF Cut
<1> QED BY <1>1, TypeInvariant, PTL
-----------------------------------------------------------------------------
\* A derived request has the endpoint it was derived of for its source.
LEMMA DerivedMatches ==
  ASSUME TypeOK, NEW op \in Ops, NEW n
  PROVE  op \in Candidates(Ops, Derived(op.file, op.doc, n))
<1>1. op.method = op.doc.method /\ op.rel = Norm(op.doc.path)
  BY OpsAreOps DEF IsOp
<1> QED BY <1>1 DEF Candidates, OpMatches, Derived

\* The body of a derived request is the one its document gives.
LEMMA DerivedBody ==
  ASSUME NEW doc \in Doc, EndpointErrors(doc) = {}, NEW f, NEW n
  PROVE  LET req == Derived(f, doc, n)
         IN  req.body # "broken" /\ BodyErrors(req, doc) = {}
<1> DEFINE req == Derived(f, doc, n)
<1>1. req.body = IF ExampleOf(doc) = {} THEN "none" ELSE CHOOSE e \in ExampleOf(doc) : TRUE
  BY DEF Derived
<1>2. \A e \in ExampleOf(doc) : e # "none" /\ e # "broken" /\ e # "other"
  <2>1. \A b \in doc.body : b.example # "other"
    BY ApiDocsAssumption DEF ApiDocsAssumption, Doc
  <2> QED BY <2>1 DEF ExampleOf, EndpointErrors, BodyWrong
<1>3. \A e1, e2 \in ExampleOf(doc) : e1 = e2
  <2>1. \A b1, b2 \in doc.body : b1 = b2
    BY ApiDocsAssumption DEF ApiDocsAssumption, Doc
  <2> QED BY <2>1 DEF ExampleOf
<1>4. CASE ExampleOf(doc) = {}
  BY <1>1, <1>4 DEF BodyErrors
<1>5. CASE ExampleOf(doc) # {}
  <2>1. req.body \in ExampleOf(doc)
    BY <1>1, <1>5
  <2>2. ExampleOf(doc) = {req.body} /\ req.body \notin {"none", "other"} /\ req.body # "broken"
    BY <1>2, <1>3, <2>1
  <2> QED BY <2>2 DEF BodyErrors
<1> QED BY <1>4, <1>5

\* colcheck.py finds nothing wrong with a derived request.
LEMMA DerivedIsInOrder ==
  ASSUME TypeOK, SpecAccepted, Unambiguous, NEW op \in Ops, NEW n,
         {p.name : p \in op.doc.pathParams} = ParamsOf(op.doc.path)
  PROVE  LET req == Derived(op.file, op.doc, n)
         IN  Addressed(req) /\ RequestErrors(Ops, {{"baseUrl"}}, req) = {}
<1> DEFINE doc == op.doc
           req == Derived(op.file, doc, n)
<1>1. doc \in Doc /\ EndpointErrors(doc) = {}
  BY OpsAreOps, DocsAreInOrder DEF IsOp
<1>2. /\ req.top = "mapping" /\ req.lacks = {} /\ req.url = doc.path /\ req.vars = {"baseUrl"}
      /\ req.params = {p.name : p \in doc.pathParams} /\ req.docs = RenderEndpoint(doc)
  BY DEF Derived
<1>3. Source(Ops, req) = {op}
  <2>1. Norm(req.url) \in Segments
    BY <1>1, <1>2, ApiDocsAssumption, NormType DEF ApiDocsAssumption, Doc
  <2>2. op \in Candidates(Ops, req)
    BY DerivedMatches
  <2>3. \A other \in Candidates(Ops, req) : other = op
    BY <2>1, <2>2, CandidatesOverlap DEF Candidates, Unambiguous
  <2>4. Candidates(Ops, req) = {op}
    BY <2>2, <2>3
  <2> QED BY <2>4, FS_Singleton DEF Source
<1>4. req.body # "broken" /\ BodyErrors(req, doc) = {}
  BY <1>1, DerivedBody
<1>5. DocsErrors(req, doc) = {}
  BY <1>2 DEF DocsErrors
<1> HIDE DEF req
<1>6. UNION {BodyErrors(req, o.doc) \cup DocsErrors(req, o.doc) : o \in Source(Ops, req)} = {}
  BY <1>3, <1>4, <1>5
<1>7. RequestErrors(Ops, {{"baseUrl"}}, req) = {}
  BY <1>2, <1>4, <1>6 DEF RequestErrors, Readable
<1>8. Addressed(req)
  BY <1>2 DEF Addressed, Readable
<1> QED BY <1>7, <1>8 DEF req

\* The open-collection skill and colcheck.py: what is derived from an accepted
\* spec passes, over any number of files.
THEOREM DerivedIsGreenHolds == Spec => []DerivedIsGreen
<1>1. TypeOK => DerivedIsGreen
  <2> SUFFICES ASSUME TypeOK, SpecAccepted, Unambiguous,
                      \A op \in Ops : {p.name : p \in op.doc.pathParams} = ParamsOf(op.doc.path)
               PROVE  ColErrors(meta, spec, {{"baseUrl"}}, Collection(spec)) = {}
    BY DEF DerivedIsGreen
  <2> DEFINE rs == Collection(spec)
  <2>1. DerivedOf(spec, Files, rs)
    BY CollectionIsDerived DEF TypeOK, SpecIsTyped
  <2>2. ASSUME NEW r \in rs
        PROVE  \E op \in Ops : \E n \in Nat : r = Derived(op.file, op.doc, n)
    <3>1. PICK f \in Files : \E doc \in spec[f] : \E n \in Nat \ {0} : r = Derived(f, doc, n)
      BY <2>1 DEF DerivedOf, IsDerived
    <3>2. PICK doc \in spec[f] : \E n \in Nat \ {0} : r = Derived(f, doc, n)
      BY <3>1
    <3>3. PICK op \in Ops : op.file = f /\ op.doc = doc
      BY DocsAreInOrder, DocsAreOps
    <3> QED BY <3>2, <3>3
  <2>3. \A r \in rs : Addressed(r) /\ RequestErrors(Ops, {{"baseUrl"}}, r) = {} /\ Candidates(Ops, r) # {}
    BY <2>2, DerivedIsInOrder, DerivedMatches
  <2>4. SeqErrors(rs) = {}
    BY <2>1 DEF DerivedOf, SeqErrors
  <2>5. ASSUME NEW op \in Ops PROVE \E r \in rs : op \in Candidates(Ops, r)
    <3>1. op.file \in Files /\ op.doc \in spec[op.file]
      BY OpsAreOps DEF IsOp
    <3>2. PICK r \in rs : r.file = op.file
      BY <2>1, <3>1 DEF DerivedOf
    <3>3. PICK other \in Ops : \E n \in Nat : r = Derived(other.file, other.doc, n)
      BY <2>2
    <3>4. PICK n \in Nat : r = Derived(other.file, other.doc, n)
      BY <3>3
    <3>5. other.file = op.file /\ other.doc \in spec[other.file]
      BY <3>2, <3>4, OpsAreOps DEF Derived, IsOp
    <3>6. r = Derived(op.file, op.doc, n)
      BY <3>1, <3>4, <3>5 DEF TypeOK
    <3> QED BY <3>6, DerivedMatches
  <2> HIDE DEF rs
  <2>6. CoverageErrors(Ops, rs) = {}
    BY <2>3, <2>5 DEF CoverageErrors
  <2>7. ColErrors(meta, spec, {{"baseUrl"}}, rs) = {}
    BY <2>3, <2>4, <2>6 DEF ColErrors, Ops
  <2> QED BY <2>7 DEF rs
<1> QED BY <1>1, TypeInvariant, PTL
-----------------------------------------------------------------------------
\* What two sets of names have in common is never more than one of them.
LEMMA OverlapIsLess ==
  ASSUME NEW want, IsFiniteSet(want), NEW names
  PROVE  /\ Cardinality(want \cap names) \in Nat /\ Cardinality(want) \in Nat
         /\ Cardinality(want \cap names) <= Cardinality(want)
         /\ Cardinality(want \cap names) = Cardinality(want) <=> want \subseteq names
<1>1. want \cap names \subseteq want /\ IsFiniteSet(want \cap names)
  BY FS_Subset
<1>2. /\ Cardinality(want \cap names) \in Nat /\ Cardinality(want) \in Nat
      /\ Cardinality(want \cap names) <= Cardinality(want)
  BY <1>1, FS_CardinalityType, FS_Subset
<1>3. ASSUME Cardinality(want \cap names) = Cardinality(want) PROVE want \subseteq names
  <2>1. want \cap names = want
    BY <1>1, <1>3, FS_Subset
  <2> QED BY <2>1
<1>4. ASSUME want \subseteq names PROVE want \cap names = want
  BY <1>4
<1> QED BY <1>2, <1>3, <1>4

\* speccheck.py, match_for_drift: what map_names_to_struct refuses, because two structs fit
\* equally well or the struct is too large, the fallback refuses, too.
THEOREM FallbackRefusesToo ==
  ASSUME NEW want, IsFiniteSet(want), NEW sets,
         \A n \in DOMAIN sets : IsFiniteSet(sets[n]),
         Tier1(want, sets).why \in {"ambiguous", "loose"}
  PROVE  Tier2(want, sets) = {}
<1> DEFINE hits == {n \in DOMAIN sets : want \subseteq sets[n]}
           overlap(n) == Cardinality(want \cap sets[n])
           most == {n \in DOMAIN sets : \A m \in DOMAIN sets : overlap(m) <= overlap(n)}
           best == Smallest(hits, sets)
           large(n) == Cardinality(sets[n]) - Cardinality(want) > Larger(2, Cardinality(want))
<1>1. hits # {} /\ (Cardinality(best) > 1 \/ \E n \in best : large(n))
  BY DEF Tier1
<1>2. \A n \in DOMAIN sets : /\ overlap(n) \in Nat /\ overlap(n) <= Cardinality(want)
                             /\ overlap(n) = Cardinality(want) <=> want \subseteq sets[n]
  BY OverlapIsLess
<1>3. Cardinality(want) \in Nat /\ \A n \in DOMAIN sets : Cardinality(sets[n]) \in Nat
  BY FS_CardinalityType
<1>4. most = hits
  <2>1. PICK h \in hits : TRUE
    BY <1>1
  <2>2. overlap(h) = Cardinality(want) /\ h \in DOMAIN sets
    BY <1>2, <2>1
  <2>3. \A n \in most : overlap(n) = Cardinality(want)
    <3> SUFFICES ASSUME NEW n \in most PROVE overlap(n) = Cardinality(want)
      OBVIOUS
    <3>1. n \in DOMAIN sets /\ overlap(h) <= overlap(n)
      BY <2>2
    <3> HIDE DEF overlap
    <3> QED BY <1>2, <1>3, <2>2, <3>1
  <2>4. most \subseteq hits
    BY <1>2, <2>3
  <2>5. hits \subseteq most
    <3> SUFFICES ASSUME NEW n \in hits, NEW m \in DOMAIN sets PROVE overlap(m) <= overlap(n)
      OBVIOUS
    <3>1. overlap(n) = Cardinality(want) /\ overlap(m) <= Cardinality(want)
      BY <1>2
    <3> QED BY <3>1
  <2> QED BY <2>4, <2>5
<1>5. Tier2(want, sets) =
        IF Cardinality(best) = 1
           /\ \A n \in best : /\ overlap(n) >= Larger(2, (Cardinality(want) + 1) \div 2)
                              /\ overlap(n) >= Cardinality(sets[n]) - 2
          THEN best ELSE {}
  BY <1>4 DEF Tier2
<1>6. CASE Cardinality(best) > 1
  <2>1. Cardinality(best) # 1
    BY <1>6
  <2> HIDE DEF best, overlap
  <2> QED BY <1>5, <2>1
<1>7. CASE \E n \in best : large(n)
  <2>1. PICK n \in best : large(n)
    BY <1>7
  <2>2. n \in hits
    BY DEF Smallest
  <2>3. overlap(n) = Cardinality(want)
    BY <1>2, <2>2
  <2>4. n \in DOMAIN sets
    BY <2>2
  <2>5. ~(overlap(n) >= Cardinality(sets[n]) - 2)
    <3> HIDE DEF overlap
    <3> QED BY <1>3, <2>1, <2>3, <2>4 DEF Larger
  <2> HIDE DEF best, overlap
  <2> QED BY <1>5, <2>5
<1> QED BY <1>1, <1>6, <1>7

\* What is made of finitely many things is finite.
LEMMA FiniteImage ==
  ASSUME NEW T, IsFiniteSet(T), NEW g, DOMAIN g = T
  PROVE  IsFiniteSet({g[x] : x \in T})
<1> DEFINE image == {g[x] : x \in T}
<1>1. [x \in T |-> g[x]] \in Surjection(T, image)
  BY DEF Surjection
<1> QED BY <1>1, FS_Surjection

\* The structs a group may be paired with are finitely many, with finitely
\* many names each.
LEMMA NamesAreFinite ==
  ASSUME TypeOK
  PROVE  /\ IsFiniteSet(DOMAIN NameSets(code))
         /\ \A n \in DOMAIN NameSets(code) :
              /\ NameSets(code)[n] = JsonNames(Serializable(code.structs, n))
              /\ IsFiniteSet(NameSets(code)[n]) /\ NameSets(code)[n] # {}
<1> DEFINE structs == code.structs
           sets == NameSets(code)
           fieldsOf(n) == Serializable(structs, n)
<1>1. IsFiniteSet(DOMAIN structs) /\ \A n \in DOMAIN structs : IsFiniteSet(structs[n].fields)
  BY ApiDocsAssumption DEF ApiDocsAssumption, TypeOK
<1>2. ASSUME NEW n PROVE IsFiniteSet(fieldsOf(n))
  <2> DEFINE from == Embedded(structs, n)
             parts == {structs[m].fields : m \in from}
  <2>1. from \in SUBSET DOMAIN structs
    BY DEF Embedded
  <2>2. IsFiniteSet(from)
    BY <1>1, <2>1, FS_Subset
  <2>3. IsFiniteSet(parts)
    <3> DEFINE g == [m \in from |-> structs[m].fields]
    <3> HIDE DEF from
    <3>1. parts = {g[m] : m \in from} /\ DOMAIN g = from
      OBVIOUS
    <3> HIDE DEF g
    <3> QED BY <2>2, <3>1, FiniteImage
  <2>4. \A T \in parts : IsFiniteSet(T)
    BY <1>1, <2>1
  <2>5. IsFiniteSet(UNION parts)
    <3> HIDE DEF parts
    <3> QED BY <2>3, <2>4, FS_UNION
  <2>6. fieldsOf(n) \in SUBSET UNION parts
    BY DEF Serializable
  <2> HIDE DEF parts, fieldsOf
  <2> QED BY <2>5, <2>6, FS_Subset
<1>3. ASSUME NEW n PROVE IsFiniteSet(JsonNames(fieldsOf(n)))
  <2> HIDE DEF fieldsOf
  <2>1. IsFiniteSet(fieldsOf(n))
    BY <1>2
  <2> DEFINE g == [f \in fieldsOf(n) |-> f.json]
  <2>2. JsonNames(fieldsOf(n)) = {g[f] : f \in fieldsOf(n)} /\ DOMAIN g = fieldsOf(n)
    BY DEF JsonNames
  <2> HIDE DEF g
  <2> QED BY <2>1, <2>2, FiniteImage
<1>4. /\ DOMAIN sets = {n \in DOMAIN structs \ code.dups : fieldsOf(n) # {}}
      /\ \A n \in DOMAIN sets : sets[n] = JsonNames(fieldsOf(n))
  BY DEF NameSets
<1>5. IsFiniteSet(DOMAIN sets)
  <2>1. DOMAIN sets \in SUBSET DOMAIN structs
    BY <1>4
  <2> QED BY <1>1, <2>1, FS_Subset
<1>6. \A n \in DOMAIN sets : sets[n] # {}
  BY <1>4 DEF JsonNames
<1> QED BY <1>3, <1>4, <1>5, <1>6

\* A set of names is paired with a struct that has just these, or with none.
LEMMA ExactMatch ==
  ASSUME NEW sets, IsFiniteSet(DOMAIN sets), \A m \in DOMAIN sets : IsFiniteSet(sets[m]),
         NEW n \in DOMAIN sets, sets[n] # {}
  PROVE  MatchForDrift(sets[n], sets) \subseteq {n}
<1> DEFINE want == sets[n]
           hits == {m \in DOMAIN sets : want \subseteq sets[m]}
           best == Smallest(hits, sets)
<1>1. n \in hits /\ hits \subseteq DOMAIN sets /\ IsFiniteSet(want)
  OBVIOUS
<1>2. \A m \in hits : /\ Cardinality(want) \in Nat /\ Cardinality(sets[m]) \in Nat
                      /\ Cardinality(want) <= Cardinality(sets[m])
  <2> SUFFICES ASSUME NEW m \in hits
               PROVE  /\ Cardinality(want) \in Nat /\ Cardinality(sets[m]) \in Nat
                      /\ Cardinality(want) <= Cardinality(sets[m])
    OBVIOUS
  <2>1. IsFiniteSet(sets[m]) /\ want \in SUBSET sets[m]
    OBVIOUS
  <2> HIDE DEF want
  <2> QED BY <1>1, <2>1, FS_Subset, FS_CardinalityType
<1>3. n \in best
  BY <1>1, <1>2 DEF Smallest
<1>4. \A m \in best : Cardinality(sets[m]) = Cardinality(want)
  <2> SUFFICES ASSUME NEW m \in best PROVE Cardinality(sets[m]) = Cardinality(want)
    OBVIOUS
  <2>1. m \in hits /\ Cardinality(sets[m]) <= Cardinality(want)
    BY <1>1 DEF Smallest
  <2> QED BY <1>2, <2>1
<1>5. IsFiniteSet(best)
  <2>1. best \in SUBSET DOMAIN sets
    BY DEF Smallest
  <2> QED BY <2>1, FS_Subset
<1>6. CASE best = {n}
  <2>1. Tier1(want, sets) = [struct |-> best, why |-> "found"]
    <3>1. Cardinality(best) = 1 /\ hits # {} /\ want # {}
      BY <1>1, <1>6, FS_Singleton
    <3>2. \A m \in best : ~(Cardinality(sets[m]) - Cardinality(want) > Larger(2, Cardinality(want)))
      BY <1>1, <1>2, <1>4 DEF Larger
    <3> QED BY <3>1, <3>2 DEF Tier1
  <2> QED BY <1>6, <2>1 DEF MatchForDrift
<1>7. CASE best # {n}
  <2>1. Cardinality(best) > 1
    <3>1. Cardinality(best) \in Nat /\ Cardinality(best) # 0
      BY <1>3, <1>5, FS_CardinalityType, FS_EmptySet
    <3>2. Cardinality(best) # 1
      <4> HIDE DEF best
      <4>1. \A x : best # {x}
        BY <1>3, <1>7
      <4> QED BY <1>5, <4>1, FS_Singleton
    <3> QED BY <3>1, <3>2
  <2>2. Tier1(want, sets) = [struct |-> {}, why |-> "ambiguous"]
    BY <1>1, <2>1 DEF Tier1
  <2>3. Tier2(want, sets) = {}
    BY <2>2, FallbackRefusesToo
  <2> QED BY <2>2, <2>3 DEF MatchForDrift
<1> QED BY <1>6, <1>7

\* A set of names is paired with the only struct that has just these.
LEMMA ExactMatchFound ==
  ASSUME NEW sets, IsFiniteSet(DOMAIN sets), \A m \in DOMAIN sets : IsFiniteSet(sets[m]),
         NEW n \in DOMAIN sets, sets[n] # {},
         \A m \in DOMAIN sets \ {n} : sets[m] # sets[n]
  PROVE  MatchForDrift(sets[n], sets) = {n}
<1> DEFINE want == sets[n]
           hits == {m \in DOMAIN sets : want \subseteq sets[m]}
           best == Smallest(hits, sets)
<1>1. n \in hits /\ hits \subseteq DOMAIN sets /\ IsFiniteSet(want)
  OBVIOUS
<1>2. ASSUME NEW m \in hits
      PROVE  /\ Cardinality(want) \in Nat /\ Cardinality(sets[m]) \in Nat
             /\ Cardinality(want) <= Cardinality(sets[m])
             /\ Cardinality(want) = Cardinality(sets[m]) => want = sets[m]
  <2>1. IsFiniteSet(sets[m]) /\ want \in SUBSET sets[m]
    OBVIOUS
  <2> HIDE DEF want
  <2> QED BY <1>1, <2>1, FS_Subset, FS_CardinalityType
<1>3. n \in best
  BY <1>1, <1>2 DEF Smallest
<1>4. ASSUME NEW m \in best PROVE m = n
  <2>1. m \in hits /\ Cardinality(sets[m]) <= Cardinality(want)
    BY <1>1 DEF Smallest
  <2>2. want = sets[m]
    BY <1>2, <2>1
  <2> QED BY <2>1, <2>2
<1>5. best = {n} /\ Cardinality(best) = 1
  <2> HIDE DEF best
  <2>1. best = {n}
    BY <1>3, <1>4
  <2> QED BY <2>1, FS_Singleton
<1>6. \A m \in best : ~(Cardinality(sets[m]) - Cardinality(want) > Larger(2, Cardinality(want)))
  BY <1>1, <1>2, <1>5 DEF Larger
<1>7. Tier1(want, sets) = [struct |-> best, why |-> "found"]
  BY <1>1, <1>5, <1>6 DEF Tier1
<1> QED BY <1>5, <1>7 DEF MatchForDrift

\* speccheck.py: a group that was written from a struct is no drift, whatever
\* other structs there are.
THEOREM WrittenFromCodeIsQuietHolds == Spec => []WrittenFromCodeIsQuiet
<1>1. TypeOK => WrittenFromCodeIsQuiet
  <2> SUFFICES ASSUME TypeOK,
                      NEW doc \in Endpoints(spec), NEW group \in Groups(doc), NEW n \in DOMAIN NameSets(code),
                      WrittenFrom(group, Serializable(code.structs, n))
               PROVE  GroupDrift(code, group) = {}
    BY DEF WrittenFromCodeIsQuiet
  <2> DEFINE fields == Serializable(code.structs, n)
  <2>1. RowNames(group.rows) = NameSets(code)[n] /\ RowNames(group.rows) = JsonNames(fields)
    BY NamesAreFinite DEF WrittenFrom
  <2>2. MatchForDrift(RowNames(group.rows), NameSets(code)) \subseteq {n}
    BY <2>1, NamesAreFinite, ExactMatch
  <2>3. CompareGroup(group.rows, fields, group.request) = {}
    BY <2>1 DEF WrittenFrom, CompareGroup
  <2> QED BY <2>2, <2>3 DEF GroupDrift
<1> QED BY <1>1, TypeInvariant, PTL
\* Each row of a group of an accepted document is marked M or O.
LEMMA RowsAreMarked ==
  ASSUME NEW doc \in Doc, EndpointErrors(doc) = {},
         NEW group \in Groups(doc), NEW row \in group.rows
  PROVE  row.mandatory \in {"M", "O"}
<1>1. /\ \A b \in doc.body : ~BodyWrong(b)
      /\ \A i \in DOMAIN doc.responses : ~ResponseWrong(doc.responses[i])
  BY DEF EndpointErrors
<1>2. \A f, objects : ~FieldWrong(f, objects) => f.mandatory \in {"M", "O"}
  BY DEF FieldWrong
<1>3. CASE \E b \in doc.body : b.hasFields = "yes" /\ group = [rows |-> Rows(b.fields), request |-> TRUE]
  <2>1. PICK b \in doc.body : b.hasFields = "yes" /\ row \in b.fields
    BY <1>3 DEF Rows
  <2>2. ~FieldWrong(row, {})
    BY <1>1, <2>1 DEF BodyWrong
  <2> QED BY <1>2, <2>2
<1>4. CASE \E o \in ObjectNames(doc) : group = [rows |-> ObjectRows(doc, o), request |-> FALSE]
  <2>1. PICK o \in ObjectNames(doc) : row \in ObjectRows(doc, o)
    BY <1>4
  <2> DEFINE has(i) == /\ o \in DOMAIN doc.responses[i].objects
                       /\ \A j \in 1..(i - 1) : o \notin DOMAIN doc.responses[j].objects
             first == CHOOSE i \in DOMAIN doc.responses : has(i)
  <2>2. row \in doc.responses[first].objects[o]
    BY <2>1 DEF ObjectRows, Rows
  <2>3. \E i \in DOMAIN doc.responses : has(i)
    <3> DEFINE with == {i \in DOMAIN doc.responses : o \in DOMAIN doc.responses[i].objects}
    <3>1. DOMAIN doc.responses = 1..Len(doc.responses) /\ Len(doc.responses) \in Nat
      BY ApiDocsAssumption DEF ApiDocsAssumption, Doc
    <3>2. with # {} /\ with \subseteq Nat
      BY <2>1, <3>1 DEF ObjectNames
    <3>3. PICK i \in with : \A j \in with : ~(<<j, i>> \in OpToRel(<, Nat))
      BY <3>2, NatLessThanWellFounded, WFMin
    <3>4. ASSUME NEW j \in 1..(i - 1) PROVE o \notin DOMAIN doc.responses[j].objects
      <4>1. j \in DOMAIN doc.responses /\ j \in Nat /\ i \in Nat /\ j < i
        BY <3>1, <3>2
      <4>2. <<j, i>> \in OpToRel(<, Nat)
        BY <4>1 DEF OpToRel
      <4> QED BY <3>3, <4>1, <4>2
    <3> QED BY <3>4
  <2>4. has(first) /\ first \in DOMAIN doc.responses
    BY <2>3
  <2>5. row \in ResponseRows(doc.responses[first])
    <3> HIDE DEF first
    <3> QED BY <2>2, <2>4 DEF ResponseRows
  <2>6. ~FieldWrong(row, DOMAIN doc.responses[first].objects)
    <3> HIDE DEF first
    <3> QED BY <1>1, <2>4, <2>5 DEF ResponseWrong
  <2> QED BY <1>2, <2>6
<1> QED BY <1>3, <1>4 DEF Groups


\* apispeccheck.py and speccheck.py: what no struct has a twin of cannot drift
\* unseen.
THEOREM NamesakeIsInStepHolds == Spec => []NamesakeIsInStep
<1>1. TypeOK => NamesakeIsInStep
  <2> SUFFICES ASSUME TypeOK, SpecAccepted, SpecVerdict(meta, spec, code) = "pass",
                      NEW doc \in Endpoints(spec)
               PROVE  /\ \E r \in GoSet(code), e \in SpecSet({doc}) : PathMatch(e, r)
                      /\ \A group \in Groups(doc) : \A n \in DOMAIN NameSets(code) :
                           /\ RowNames(group.rows) = NameSets(code)[n]
                           /\ \A m \in DOMAIN NameSets(code) \ {n} : NameSets(code)[m] # NameSets(code)[n]
                           => WrittenFrom(group, Serializable(code.structs, n))
    BY DEF NamesakeIsInStep
  <2>1. /\ RouteDrift(meta, spec, code) = {}
        /\ \A d \in Implemented(spec, code) : \A g \in Groups(d) : GroupDrift(code, g) = {}
    BY DEF SpecVerdict
  <2> DEFINE end == [method |-> doc.method, path |-> Norm(doc.path)]
  <2>2. end \in SpecSet({doc}) /\ end \in SpecSet(Endpoints(spec))
    BY DEF SpecSet
  <2>3. \E r \in GoSet(code) : PathMatch(end, r)
    <3>1. PICK r \in GoSet(code) : PathMatch(r, end)
      BY <2>1, <2>2 DEF RouteDrift
    <3> QED BY <3>1 DEF PathMatch
  <2>4. \E r \in GoSet(code), e \in SpecSet({doc}) : PathMatch(e, r)
    <3> HIDE DEF end
    <3> QED BY <2>2, <2>3
  <2>5. doc \in Implemented(spec, code)
    BY <2>4 DEF Implemented
  <2>6. doc \in Doc /\ EndpointErrors(doc) = {}
    <3>1. PICK f \in Files : doc \in spec[f]
      BY DEF Endpoints, TypeOK
    <3> QED BY <3>1, DocsAreInOrder DEF TypeOK
  <2>7. ASSUME NEW group \in Groups(doc), NEW n \in DOMAIN NameSets(code),
               RowNames(group.rows) = NameSets(code)[n],
               \A m \in DOMAIN NameSets(code) \ {n} : NameSets(code)[m] # NameSets(code)[n]
        PROVE  WrittenFrom(group, Serializable(code.structs, n))
    <3> DEFINE fields == Serializable(code.structs, n)
    <3>1. MatchForDrift(RowNames(group.rows), NameSets(code)) = {n}
      BY <2>7, NamesAreFinite, ExactMatchFound
    <3>2. CompareGroup(group.rows, fields, group.request) = {}
      <4>1. GroupDrift(code, group) = {}
        BY <2>1, <2>5
      <4> QED BY <3>1, <4>1 DEF GroupDrift
    <3>3. \A row \in group.rows : row.mandatory \in {"M", "O"}
      BY <2>6, RowsAreMarked
    <3>4. RowNames(group.rows) = JsonNames(fields)
      BY <2>7, NamesAreFinite
    <3> HIDE DEF fields
    <3>5. ASSUME NEW row \in group.rows, NEW f \in fields, f.json = row.name
          PROVE  /\ row.mandatory = ComputeMo(f, group.request)
                 /\ TypeCompatible(GoToSpecType(f.type), row.type)
      <4>1. <<"drift", row.name>> \notin CompareGroup(group.rows, fields, group.request)
        BY <3>2
      <4> QED BY <3>3, <3>5, <4>1 DEF CompareGroup
    <3>6. WrittenFrom(group, fields)
      BY <3>4, <3>5 DEF WrittenFrom
    <3> QED BY <3>6 DEF fields
  <2> QED BY <2>4, <2>7
<1> QED BY <1>1, TypeInvariant, PTL
=============================================================================
