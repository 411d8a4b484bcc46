----------------------------- MODULE ApiSpecCheck -----------------------------
(***************************************************************************)
(* skills/api-spec/assets/apispeccheck.py: is the api-spec (docs/api, a    *)
(* YAML file for an endpoint) well formed, and is index.md in step? A spec *)
(* maps every file to a set of at most one document. Optional parts are    *)
(* sets of at most one element too, "none" where they are words. A free    *)
(* text is the set of the fragments in it.                                 *)
(***************************************************************************)
EXTENDS Paths, FiniteSets

\* "wire" is for the callers of the API. The rest is for its makers: a card
\* key of the pack (GI-12, AC-001, [PAY-1]), another ticket (PAY-123); as
\* evidence a path below docs/knowledge, docs/tasks or docs/api ("docs",
\* with a bare path below the first two), one elsewhere in the repository
\* ("code", docs/adr too), a URL, a path that does not exist; and any other
\* path that is just mentioned.
Fragments == {"wire", "key", "ticket", "docs", "code", "url", "gone", "path"}

AllowedMethods == {"GET", "POST"}

\* RESPONSE_STATUSES, two of them
ResponseStatus == [c \in {"002", "006"} |-> IF c = "002" THEN "400" ELSE "504"]
-----------------------------------------------------------------------------
EvidenceHolds(text) == text \cap {"url", "gone"} = {}

FieldWrong(f, objects) ==
  \/ f.lacks # {}
  \/ "mandatory" \notin f.lacks /\ f.mandatory \notin {"M", "O"}
  \/ f.object # "none" /\ f.object \notin objects
  \/ ~EvidenceHolds(f.remark)

ErrorWrong(e) ==
  \/ e.status = "none"
  \/ e.message = {}
  \/ e.responseCode = "number"
  \/ /\ e.code = "lib"
     /\ \/ e.responseCode = "none"
        \/ /\ e.responseCode \notin {"none", "number"}
           /\ e.responseCode \in DOMAIN ResponseStatus
                => e.status # ResponseStatus[e.responseCode]

ResponseRows(r) == r.fields \cup UNION {r.objects[o] : o \in DOMAIN r.objects}

ResponseWrong(r) ==
  \/ r.status = "none"
  \/ \E f \in ResponseRows(r) : FieldWrong(f, DOMAIN r.objects)
  \/ r.example = "broken"

\* Mutant: the example is not parsed.
BodyUnparsed(b) == b.hasFields = "yes" /\ \E f \in b.fields : FieldWrong(f, {})

BodyWrong(b) ==
  \/ b.hasFields = "yes" /\ \E f \in b.fields : FieldWrong(f, {})
  \/ b.example = "broken"

EndpointErrors(doc) ==
  IF doc.top # "mapping" THEN {"top level"}
  ELSE doc.lacks
       \cup (IF doc.method \in AllowedMethods \/ "method" \in doc.lacks
               THEN {} ELSE {"not a method"})
       \cup (IF ParamsOf(doc.path) \subseteq {p.name : p \in doc.pathParams}
               THEN {} ELSE {"placeholder"})
       \cup (IF \E p \in doc.pathParams : FieldWrong(p, {}) THEN {"path_params"} ELSE {})
       \cup (IF \E b \in doc.body : BodyWrong(b) THEN {"request_body"} ELSE {})
       \cup (IF \E i \in DOMAIN doc.responses : ResponseWrong(doc.responses[i]) THEN {"response"} ELSE {})
       \cup (IF \E e \in doc.errors : ErrorWrong(e) THEN {"errors"} ELSE {})

MetaErrors(meta) ==
  meta.lacks \cup (IF \E e \in meta.errors : ErrorWrong(e) THEN {"common_errors"} ELSE {})

SpecErrors(meta, spec) ==
  MetaErrors(meta) \cup UNION {EndpointErrors(doc) : doc \in UNION {spec[f] : f \in DOMAIN spec}}
-----------------------------------------------------------------------------
IndexRows(spec) ==
  UNION {{[file |-> f, method |-> doc.method, path |-> doc.path] :
            doc \in {d \in spec[f] : d.top = "mapping"}} : f \in DOMAIN spec}

RenderIndex(meta, spec) ==
  [base |-> meta.base, rows |-> IndexRows(spec), extra |-> meta.extra, errors |-> meta.errors]

\* Mutant: --check does not look at index.md.
ChecksSpecOnly(meta, spec, index) == SpecErrors(meta, spec) = {}

\* main with --check
CheckPasses(meta, spec, index) ==
  SpecErrors(meta, spec) = {} /\ index = {RenderIndex(meta, spec)}

\* main without it: the index.md it leaves.
IndexAfter(meta, spec, index) ==
  IF SpecErrors(meta, spec) = {} THEN {RenderIndex(meta, spec)} ELSE index
=============================================================================
