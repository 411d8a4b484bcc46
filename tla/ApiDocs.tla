------------------------------- MODULE ApiDocs -------------------------------
(***************************************************************************)
(* The API documents of a service and the tripwires between them: the Go   *)
(* code, the api-spec that is drift-checked against it (SpecCheck) and in  *)
(* itself (ApiSpecCheck), its index, and the request collection with the   *)
(* rendered documentation (Render, ColCheck). People edit each of them, a  *)
(* field at a time; what a tool writes it writes whole. A tripwire may be  *)
(* run at any moment, so what it says is an expression of the state.       *)
(***************************************************************************)
EXTENDS SpecCheck, ColCheck

CONSTANTS Files,         \* of the api-spec, a request has the name of one
          Methods, UrlPaths, ParamSets, Bodies, ResponseLists,
          ErrorSets, NoteSets, Descriptions, \* what an author may write
          Metas, Codes,
          Begin,         \* what there is at first: code, meta and spec
          MaxEdits       \* bound

\* A document of the api-spec, and what must be known of a request.
Doc == [top : {"mapping", "list"}, lacks : SUBSET {"endpoint", "domain", "method", "path"},
        endpoint : Descriptions, method : Methods, path : UrlPaths, pathParams : ParamSets, body : Bodies,
        responses : ResponseLists, errors : ErrorSets, notes : NoteSets,
        description : Descriptions]

IsRequest(req) ==
  /\ DOMAIN req = {"file", "folder", "top", "lacks", "method", "url", "params", "body",
                   "docs", "vars", "seq"}
  /\ req.url \in UrlPaths

\* A file has one document at most and an endpoint one body, there are
\* finitely many of everything, and no object has the name of a fragment.
ASSUME ApiDocsAssumption ==
  /\ \A b \in Begin : /\ b.code \in Codes /\ b.meta \in Metas
                      /\ DOMAIN b.spec = Files
                      /\ \A f \in Files : b.spec[f] \subseteq Doc /\ \A d1, d2 \in b.spec[f] : d1 = d2
  /\ UrlPaths \subseteq Path /\ IsFiniteSet(Files) /\ MaxEdits \in Nat
  /\ \A bodies \in Bodies : /\ \A b1, b2 \in bodies : b1 = b2
                              /\ \A b \in bodies : b.example # "other"
  /\ \A rs \in ResponseLists : Len(rs) \in Nat /\ DOMAIN rs = 1..Len(rs)
  /\ \A f \in (UNION ParamSets) \cup (UNION {b.fields : b \in UNION Bodies})
            \cup (UNION {UNION {ResponseRows(rs[i]) : i \in DOMAIN rs} : rs \in ResponseLists}) :
       f.object \notin Fragments
  /\ ErrorSets \subseteq SUBSET [code : STRING, responseCode : STRING, status : STRING,
                                message : SUBSET Fragments]
  /\ \A m \in Metas : m.base \in Path
  /\ \A c \in Codes : /\ \A r \in c.routes : r.path \in Path
                      /\ IsFiniteSet(DOMAIN c.structs)
                      /\ \A n \in DOMAIN c.structs : IsFiniteSet(c.structs[n].fields)

VARIABLES code, meta, spec,
          index,    \* index.md: a set of at most one
          requests, env,
          manifest, \* is there an opencollection.yml?
          edits

vars == <<code, meta, spec, index, requests, env, manifest, edits>>

-----------------------------------------------------------------------------
\* The request the skill maps an endpoint to.
Derived(f, doc, seq) ==
  [file |-> f, folder |-> "group", top |-> "mapping", lacks |-> {},
   method |-> doc.method, url |-> doc.path, params |-> {p.name : p \in doc.pathParams},
   body |-> IF ExampleOf(doc) = {} THEN "none" ELSE CHOOSE e \in ExampleOf(doc) : TRUE,
   docs |-> RenderEndpoint(doc), vars |-> {"baseUrl"}, seq |-> seq]

FreeSeq(others) ==
  CHOOSE n \in 1..(Cardinality(others) + 1) :
    \A r \in others : r.seq # n

DeriveInto(f, doc, others) == others \cup {Derived(f, doc, FreeSeq(others))}

Extended(s, f, others) ==
  IF s[f] = {} THEN others ELSE DeriveInto(f, CHOOSE d \in s[f] : TRUE, others)

Last(done) == CHOOSE x \in done : TRUE

Collection(s) ==
  LET over[done \in SUBSET Files] ==
        IF done = {} THEN {} ELSE Extended(s, Last(done), over[done \ {Last(done)}])
  IN  over[Files]

Init == /\ \E b \in Begin : code = b.code /\ meta = b.meta /\ spec = b.spec
        /\ index = {RenderIndex(meta, spec)}
        /\ requests = Collection(spec)
        /\ env = {{"baseUrl"}} /\ manifest = "yes"
        /\ edits = 0
-----------------------------------------------------------------------------
DocEdits(doc) ==
  {[doc EXCEPT !.method = m] : m \in Methods}
  \cup {[doc EXCEPT !.endpoint = t] : t \in Descriptions}
  \cup {[doc EXCEPT !.path = p] : p \in UrlPaths}
  \cup {[doc EXCEPT !.pathParams = ps] : ps \in ParamSets}
  \cup {[doc EXCEPT !.body = b] : b \in Bodies}
  \cup {[doc EXCEPT !.responses = rs] : rs \in ResponseLists}
  \cup {[doc EXCEPT !.errors = es] : es \in ErrorSets}
  \cup {[doc EXCEPT !.notes = ns] : ns \in NoteSets}
  \cup {[doc EXCEPT !.description = t] : t \in Descriptions}
  \cup {[doc EXCEPT !.top = "list"], [doc EXCEPT !.lacks = {"domain"}],
        [doc EXCEPT !.lacks = {"method"}]}

RequestEdits(req) ==
  {[req EXCEPT !.method = m] : m \in Methods}
  \cup {[req EXCEPT !.url = p] : p \in UrlPaths}
  \cup {[req EXCEPT !.params = {}], [req EXCEPT !.docs = {}], [req EXCEPT !.seq = 1],
        [req EXCEPT !.vars = @ \cup {"token"}], [req EXCEPT !.vars = {"process.env.KEY"}],
        [req EXCEPT !.top = "broken"], [req EXCEPT !.lacks = {"name"}],
        [req EXCEPT !.lacks = {"url"}]}
  \cup {[req EXCEPT !.body = b] : b \in {"none", "other", "b", "broken"}}

Edit == edits < MaxEdits /\ edits' = edits + 1

EditDoc == /\ Edit
           /\ \E f \in Files : \E doc \in spec[f] :
                \E new \in (DocEdits(doc) \ {doc}) :
                  spec' = [spec EXCEPT ![f] = {new}]
           /\ UNCHANGED <<code, meta, index, requests, env, manifest>>

RemoveDoc == /\ Edit
             /\ \E f \in {x \in Files : spec[x] # {}} : spec' = [spec EXCEPT ![f] = {}]
             /\ UNCHANGED <<code, meta, index, requests, env, manifest>>

EditMeta == /\ Edit /\ meta' \in Metas \ {meta}
            /\ UNCHANGED <<code, spec, index, requests, env, manifest>>

EditCode == /\ Edit /\ code' \in Codes \ {code}
            /\ UNCHANGED <<meta, spec, index, requests, env, manifest>>

EditRequest == /\ Edit
               /\ \E req \in requests : \E new \in (RequestEdits(req) \ {req}) :
                    requests' = (requests \ {req}) \cup {new}
               /\ UNCHANGED <<code, meta, spec, index, env, manifest>>

RemoveRequest == /\ Edit
                 /\ \E req \in requests : requests' = requests \ {req}
                 /\ manifest' \in {manifest, "no"}
                 /\ UNCHANGED <<code, meta, spec, index, env>>

EditEnv == /\ Edit /\ env' \in ({{}, {{"baseUrl"}}, {{"baseUrl", "token"}}} \ {env})
           /\ UNCHANGED <<code, meta, spec, index, requests, manifest>>

\* apispeccheck.py without --check
WriteIndex == /\ index' = IndexAfter(meta, spec, index)
              /\ UNCHANGED <<code, meta, spec, requests, env, manifest, edits>>

Derive == /\ \E f \in Files : \E doc \in spec[f] :
               requests' = DeriveInto(f, doc, {r \in requests : r.file # f})
          /\ UNCHANGED <<code, meta, spec, index, env, manifest, edits>>

Next == \/ EditDoc \/ RemoveDoc \/ EditMeta \/ EditCode \/ EditRequest
        \/ RemoveRequest \/ EditEnv \/ WriteIndex \/ Derive

Spec == Init /\ [][Next]_vars

TypeOK ==
  /\ code \in Codes /\ meta \in Metas
  /\ DOMAIN spec = Files
  /\ \A f \in Files : spec[f] \subseteq Doc /\ \A d1, d2 \in spec[f] : d1 = d2
  /\ \A req \in requests : IsRequest(req)
  /\ manifest \in {"yes", "no"}
-----------------------------------------------------------------------------
Ops == SpecOps(meta, spec)

\* The path of one endpoint, with its prefix, ends with that of the other:
\* /admin/users and /users.
Overlap(op1, op2) ==
  /\ op1.method = op2.method
  /\ op1.rel = op2.rel \/ EndsWith(op1.full, op2.rel) \/ EndsWith(op2.full, op1.rel)

Unambiguous == \A op1, op2 \in Ops : op1 # op2 => ~Overlap(op1, op2)

SpecAccepted == SpecErrors(meta, spec) = {}
CollectionAccepted ==
  (requests # {} \/ manifest = "yes") /\ ColPasses(meta, spec, env, requests, manifest)

Agrees(req, doc) ==
  /\ ExampleOf(doc) = {"broken"} \/ ExampleOf(doc) = {req.body} \ {"none", "other"}
  /\ Renders(doc) => req.docs = RenderEndpoint(doc)

\* A collection that passes has a request that fits every endpoint, and the
\* JSON body and the documentation of every request are those of its endpoint
\* (unless the spec itself is broken there). Only a request that fits two
\* endpoints gets by, and it does so only where the path of one ends with
\* that of the other: colcheck.py compares a request with one candidate.
CollectionIsFaithful ==
  CollectionAccepted =>
    /\ \A op \in Ops : \E req \in requests : OpMatches(op, req.method, Norm(req.url))
    /\ \A req \in requests : \E op \in Candidates(Ops, req) :
         \/ Agrees(req, op.doc)
         \/ \E other \in Candidates(Ops, req) \ {op} : Overlap(op, other)

\* What the open-collection skill derives from an accepted spec passes its
\* own tripwire, if path_params names the placeholders and nothing else.
DerivedIsGreen ==
  /\ SpecAccepted /\ Unambiguous
  /\ \A op \in Ops : {p.name : p \in op.doc.pathParams} = ParamsOf(op.doc.path)
  => ColErrors(meta, spec, {{"baseUrl"}}, Collection(spec)) = {}

\* The root path is written "/", and no other path ends with it.
Lists(page, row, req) ==
  /\ row.method = req.method
  /\ \/ EndsWith(Norm(req.url), Norm(row.path))
     \/ Norm(req.url) \in {Norm(row.path), Norm(page.base \o row.path)}

\* When index and collection both pass, whoever reads index.md finds the
\* endpoints the collection has requests for, and no others.
IndexListsCollection ==
  \A page \in index :
    CheckPasses(meta, spec, index) /\ CollectionAccepted =>
      /\ \A row \in page.rows : \E req \in requests : Lists(page, row, req)
      /\ \A req \in requests : \E row \in page.rows : Lists(page, row, req)

\* The collection is for callers: below its title, the documentation of a
\* request that has a source shows no card key of the pack and no path of
\* docs/knowledge or docs/tasks, and its notes no evidence of any kind, as
\* yaml2md.py cuts them and colcheck.py compares the page byte by byte.
\* Other tickets and paths, in texts and titles, are shown.
CollectionIsForCallers ==
  CollectionAccepted =>
    \A req \in requests : \A op \in Source(Ops, req) : Renders(op.doc) =>
      \A page \in req.docs :
        /\ Shown(page) \cap {"key", "docs"} = {}
        /\ (UNION page.notes) \cap {"docs", "code", "url", "gone"} = {}

\* A group that was written from a struct, each row with the type and the
\* M/O of its tags, is no drift, whatever other structs there are.
WrittenFrom(group, fields) ==
  /\ RowNames(group.rows) = JsonNames(fields)
  /\ \A row \in group.rows : \A f \in fields :
       f.json = row.name => /\ row.mandatory = ComputeMo(f, group.request)
                            /\ TypeCompatible(GoToSpecType(f.type), row.type)

WrittenFromCodeIsQuiet ==
  \A doc \in Endpoints(spec) : \A group \in Groups(doc) : \A n \in DOMAIN NameSets(code) :
    WrittenFrom(group, Serializable(code.structs, n)) => GroupDrift(code, group) = {}

\* What no struct has a twin of cannot drift unseen: when apispeccheck.py and
\* speccheck.py both pass, a group of an endpoint that has just the names of
\* one struct carries the M/O and the types of that struct's tags, however
\* many other structs come near, and its endpoint has a route.
NamesakeIsInStep ==
  SpecAccepted /\ SpecVerdict(meta, spec, code) = "pass" =>
    \A doc \in Endpoints(spec) :
      /\ \E r \in GoSet(code), e \in SpecSet({doc}) : PathMatch(e, r)
      /\ \A group \in Groups(doc) : \A n \in DOMAIN NameSets(code) :
           /\ RowNames(group.rows) = NameSets(code)[n]
           /\ \A m \in DOMAIN NameSets(code) \ {n} : NameSets(code)[m] # NameSets(code)[n]
           => WrittenFrom(group, Serializable(code.structs, n))
=============================================================================
