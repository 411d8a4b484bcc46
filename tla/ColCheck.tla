------------------------------- MODULE ColCheck -------------------------------
(***************************************************************************)
(* skills/open-collection/assets/colcheck.py: is the request collection    *)
(* faithful to the api-spec? A collection is a set of request files; PyYAML*)
(* is installed. env is the set of the variables some environment defines, *)
(* in a set, {} when there is no environments/.                            *)
(***************************************************************************)
EXTENDS Render

\* Endpoints without a method or a path are passed over.
SpecOps(meta, spec) ==
  UNION {{[file |-> f, method |-> doc.method, doc |-> doc,
           rel |-> Norm(doc.path), full |-> Norm(meta.base \o doc.path)] :
            doc \in {d \in spec[f] : d.top = "mapping" /\ d.lacks \cap {"method", "path"} = {}}} :
           f \in DOMAIN spec}

OpMatches(op, method, path) ==
  /\ op.method = method
  /\ path \in {op.rel, op.full} \/ EndsWith(path, op.rel)

Candidates(ops, req) == {op \in ops : OpMatches(op, req.method, Norm(req.url))}

\* Mutant: only a request that has the path of the spec has a source.
SourceExact(ops, req) == {op \in ops : op.method = req.method /\ op.rel = Norm(req.url)}

\* match_spec_op: the only candidate. Of several none is taken, and then
\* nothing is compared.
Source(ops, req) ==
  IF Cardinality(Candidates(ops, req)) = 1 THEN Candidates(ops, req) ELSE {}

Readable(req) == req.top = "mapping"
Addressed(req) == Readable(req) /\ req.lacks \cap {"method", "url"} = {}

CoverageErrors(ops, requests) ==
  (IF \A op \in ops : \E req \in requests : Addressed(req) /\ op \in Candidates(ops, req)
     THEN {} ELSE {"no request file"})
  \cup (IF \A req \in requests : Addressed(req) => Candidates(ops, req) # {}
          THEN {} ELSE {"orphan"})
-----------------------------------------------------------------------------
ExampleOf(doc) == {b.example : b \in doc.body} \ {"none"}

\* K3: an example that is no JSON is a note. A body is "none", "other" when its
\* type is not json, or the JSON it holds.
BodyErrors(req, doc) ==
  LET has == req.body \notin {"none", "other"}
      expected == ExampleOf(doc)
  IN  IF expected = {"broken"} THEN {}
      ELSE (IF expected # {} /\ ~has THEN {"no http.body"} ELSE {})
           \cup (IF expected = {} /\ has THEN {"extra http.body"} ELSE {})
           \cup (IF expected # {} /\ has /\ req.body # "broken" /\ expected # {req.body}
                   THEN {"http.body differs"} ELSE {})

\* K7: a page that cannot be rendered is a note.
DocsErrors(req, doc) ==
  IF RenderEndpoint(doc) = {} \/ req.docs = RenderEndpoint(doc) THEN {} ELSE {"docs"}

RequestErrors(ops, env, req) ==
  IF ~Readable(req) THEN {"did not parse"}
  ELSE req.lacks
       \cup (IF "url" \in req.lacks \/ ParamsOf(req.url) = req.params THEN {} ELSE {"params"})
       \cup (IF "url" \in req.lacks /\ req.params # {} THEN {"params"} ELSE {})
       \cup (IF req.body = "broken" THEN {"invalid JSON"} ELSE {})
       \cup (IF Addressed(req)
               THEN UNION {BodyErrors(req, op.doc) \cup DocsErrors(req, op.doc) :
                             op \in Source(ops, req)} ELSE {})
       \cup (IF \A names \in env : req.vars \ {"process.env.KEY"} \subseteq names
               THEN {} ELSE {"variable"})

SeqErrors(requests) ==
  IF \E r1, r2 \in requests : /\ r1 # r2 /\ Readable(r1) /\ Readable(r2)
                              /\ r1.folder = r2.folder /\ r1.seq = r2.seq /\ r1.seq # 0
    THEN {"seq"} ELSE {}

ColErrors(meta, spec, env, requests) ==
  LET ops == SpecOps(meta, spec)
  IN  CoverageErrors(ops, requests) \cup SeqErrors(requests)
      \cup UNION {RequestErrors(ops, env, req) : req \in requests}

\* Without a request and without an opencollection.yml nothing is checked.
ColPasses(meta, spec, env, requests, manifest) ==
  \/ requests = {} /\ manifest = "no"
  \/ ColErrors(meta, spec, env, requests) = {}
=============================================================================
