------------------------------ MODULE SpecCheck ------------------------------
(***************************************************************************)
(* skills/openapi-doc/assets/speccheck.py: has the api-spec drifted from   *)
(* the Go code? code holds the routes that are registered, the structs     *)
(* (each the set of its fields and of the structs it embeds) and the names *)
(* that are defined twice. No struct has a JSON name twice; PyYAML is      *)
(* installed and there is Go code.                                         *)
(***************************************************************************)
EXTENDS ApiSpecCheck, Integers

Larger(a, b) == IF a >= b THEN a ELSE b
-----------------------------------------------------------------------------
\* resolve_serializable visits every struct once.
Embedded(structs, name) ==
  LET step(names) == names \cup UNION {structs[n].embeds : n \in names \cap DOMAIN structs}
      upTo[i \in 0..Cardinality(DOMAIN structs)] ==
        IF i = 0 THEN {name} ELSE step(upTo[i - 1])
  IN  upTo[Cardinality(DOMAIN structs)] \cap DOMAIN structs

Serializable(structs, name) ==
  {f \in UNION {structs[n].fields : n \in Embedded(structs, name)} :
     f.json # "-" /\ f.exported = "yes"}

JsonNames(fields) == {f.json : f \in fields}

\* The structs a group may be paired with, each with its JSON names.
NameSets(code) ==
  LET usable == {n \in DOMAIN code.structs \ code.dups : Serializable(code.structs, n) # {}}
  IN  [n \in usable |-> JsonNames(Serializable(code.structs, n))]

ComputeMo(f, isRequest) ==
  IF isRequest /\ f.required = "yes" THEN "M"
  ELSE IF f.pointer = "yes" \/ (isRequest /\ (f.omitempty = "yes" \/ f.type = "bool"))
    THEN "O" ELSE "M"

GoToSpecType(gotype) ==
  CASE gotype = "slice" -> "Array" [] gotype = "map" -> "Object" [] gotype = "bool" -> "Boolean"
    [] gotype = "string" -> "String" [] gotype = "int" -> "Number" [] OTHER -> "none"

TypeCompatible(goType, specType) ==
  \/ "none" \in {goType, specType}
  \/ goType = specType
  \/ goType = "Number" /\ specType = "Integer"
-----------------------------------------------------------------------------
\* map_names_to_struct: a struct in a set, or {} with a reason.
Smallest(names, sets) == {n \in names : \A m \in names : Cardinality(sets[n]) <= Cardinality(sets[m])}

\* Mutant: one of two structs that fit equally well is taken.
Tier1Guess(want, sets) ==
  LET hits == {n \in DOMAIN sets : want \subseteq sets[n]}
  IN  IF want = {} \/ hits = {} THEN [struct |-> {}, why |-> "unmatched"]
      ELSE [struct |-> {CHOOSE n \in Smallest(hits, sets) : TRUE}, why |-> "found"]

Tier1(want, sets) ==
  LET hits == {n \in DOMAIN sets : want \subseteq sets[n]}
      best == Smallest(hits, sets)
  IN  IF want = {} \/ hits = {} THEN [struct |-> {}, why |-> "unmatched"]
      ELSE IF Cardinality(best) > 1 THEN [struct |-> {}, why |-> "ambiguous"]
      ELSE IF \E n \in best : Cardinality(sets[n]) - Cardinality(want)
                                > Larger(2, Cardinality(want))
        THEN [struct |-> {}, why |-> "loose"]
      ELSE [struct |-> best, why |-> "found"]

\* The fallback: the best overlap, of a struct that is tight around it.
Tier2(want, sets) ==
  LET overlap(n) == Cardinality(want \cap sets[n])
      most == {n \in DOMAIN sets : \A m \in DOMAIN sets : overlap(m) <= overlap(n)}
      best == Smallest(most, sets)
      good(n) == /\ overlap(n) >= Larger(2, (Cardinality(want) + 1) \div 2)
                 /\ overlap(n) >= Cardinality(sets[n]) - 2
  IN  IF Cardinality(best) = 1 /\ \A n \in best : good(n) THEN best ELSE {}

MatchForDrift(want, sets) ==
  LET first == Tier1(want, sets)
  IN  IF first.struct # {} \/ want = {} THEN first.struct ELSE Tier2(want, sets)

\* sorted(...)[0] of no struct at all raises.
Raises(want, sets) == want # {} /\ DOMAIN sets = {}
-----------------------------------------------------------------------------
\* _field_rows drops rows without a name.
Rows(fields) == {f \in fields : "name" \notin f.lacks}

RowNames(rows) == {f.name : f \in rows}

\* Mutant: only the names are compared.
CompareNames(rows, fields, isRequest) ==
  {<<"undocumented", j>> : j \in JsonNames(fields) \ RowNames(rows)}
  \cup {<<"stale", n>> : n \in RowNames(rows) \ JsonNames(fields)}

CompareGroup(rows, fields, isRequest) ==
  {<<"undocumented", j>> : j \in JsonNames(fields) \ RowNames(rows)}
  \cup {<<"stale", n>> : n \in RowNames(rows) \ JsonNames(fields)}
  \cup {<<"drift", r.name>> : r \in {x \in rows : \E f \in fields :
          /\ f.json = x.name
          /\ \/ x.mandatory \in {"M", "O"} /\ x.mandatory # ComputeMo(f, isRequest)
             \/ ~TypeCompatible(GoToSpecType(f.type), x.type)}}

\* Of two responses with an object of one name the first one counts.
ObjectNames(doc) == UNION {DOMAIN doc.responses[i].objects : i \in DOMAIN doc.responses}

ObjectRows(doc, o) ==
  LET first == CHOOSE i \in DOMAIN doc.responses :
                 /\ o \in DOMAIN doc.responses[i].objects
                 /\ \A j \in 1..(i - 1) : o \notin DOMAIN doc.responses[j].objects
  IN  Rows(doc.responses[first].objects[o])

Groups(doc) ==
  {[rows |-> Rows(b.fields), request |-> TRUE] : b \in {x \in doc.body : x.hasFields = "yes"}}
  \cup {[rows |-> ObjectRows(doc, o), request |-> FALSE] : o \in ObjectNames(doc)}

GroupDrift(code, group) ==
  UNION {CompareGroup(group.rows, Serializable(code.structs, n), group.request) :
           n \in MatchForDrift(RowNames(group.rows), NameSets(code))}
-----------------------------------------------------------------------------
Endpoints(spec) ==
  {doc \in UNION {spec[f] : f \in DOMAIN spec} :
     doc.top = "mapping" /\ doc.lacks \cap {"method", "path"} = {}}

GoSet(code) == {[method |-> r.method, path |-> Norm(r.path)] : r \in code.routes}

SpecSet(docs) == {[method |-> d.method, path |-> Norm(d.path)] : d \in docs}

\* Either side may carry a prefix the other leaves out.
PathMatch(a, b) == a.method = b.method /\ \/ a.path = b.path
                                          \/ EndsWith(a.path, b.path)
                                          \/ EndsWith(b.path, a.path)

RouteDrift(meta, spec, code) ==
  {r \in GoSet(code) : \A e \in SpecSet(Endpoints(spec)) \cup SpecSet(meta.extra) : ~PathMatch(r, e)}
  \cup {e \in SpecSet(Endpoints(spec)) : \A r \in GoSet(code) : ~PathMatch(r, e)}

Implemented(spec, code) ==
  {doc \in Endpoints(spec) : \E r \in GoSet(code), e \in SpecSet({doc}) : PathMatch(e, r)}

\* main: "pass", "drift", or "raises" (which exits with 1 as drift does).
SpecVerdict(meta, spec, code) ==
  LET groups == UNION {Groups(doc) : doc \in Implemented(spec, code)}
  IN  IF \E g \in groups : Raises(RowNames(g.rows), NameSets(code)) THEN "raises"
      ELSE IF RouteDrift(meta, spec, code) = {} /\ \A g \in groups : GroupDrift(code, g) = {}
        THEN "pass" ELSE "drift"
=============================================================================
