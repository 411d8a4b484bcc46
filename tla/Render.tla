-------------------------------- MODULE Render --------------------------------
(***************************************************************************)
(* skills/open-collection/assets/yaml2md.py: an endpoint of the api-spec   *)
(* as the documentation of a request, filtered for the callers of the API. *)
(* Tables are sets of their rows; RenderEndpoint is {} when the renderer   *)
(* raises.                                                                 *)
(***************************************************************************)
EXTENDS ApiSpecCheck

\* Mutant: evidence stays in.
AudienceTicketsOnly(text) == text \ {"key"}

\* The expressions know card keys of three forms and paths below three
\* directories of docs/; other tickets, evidence and paths stay. (Lines of
\* the decision log, which are cut too, are left out.)
AudienceText(text) == text \ {"key", "docs"}

\* A note that holds evidence goes as a whole.
AudienceNotes(notes) ==
  {AudienceText(n) : n \in {m \in notes : m \cap {"docs", "code", "url", "gone"} = {}}} \ {{}}

FieldRow(f) ==
  [name |-> f.name, type |-> f.type, mandatory |-> f.mandatory,
   remark |-> IF f.object # "none" /\ AudienceText(f.remark) = {}
                THEN {f.object} ELSE AudienceText(f.remark)]

FieldTable(fields) == {FieldRow(f) : f \in fields}

ErrorTable(errors) == {[e EXCEPT !.message = AudienceText(e.message)] : e \in errors}

\* fmt_code splits a code, which only a string can be.
Formats(e) == e.code # "number"

\* A body or a response without fields raises, too.
Renders(doc) ==
  /\ \A b \in doc.body : b.hasFields = "yes"
  /\ \A i \in DOMAIN doc.responses : doc.responses[i].hasFields = "yes"
  /\ \A e \in doc.errors : Formats(e)

\* The title, like the name of an object and the examples, is not filtered.
RenderEndpoint(doc) ==
  IF ~Renders(doc) THEN {}
  ELSE {[title |-> doc.endpoint, method |-> doc.method, path |-> doc.path,
         description |-> AudienceText(doc.description),
         pathParams |-> FieldTable(doc.pathParams),
         body |-> {[fields |-> FieldTable(b.fields), example |-> b.example] : b \in doc.body},
         responses |-> [i \in DOMAIN doc.responses |->
                          [fields |-> FieldTable(doc.responses[i].fields),
                           objects |-> [o \in DOMAIN doc.responses[i].objects |->
                                          FieldTable(doc.responses[i].objects[o])]]],
         errors |-> ErrorTable(doc.errors),
         notes |-> AudienceNotes(doc.notes)]}

\* Every fragment of the free text a rendered page shows below its title.
Shown(page) ==
  page.description \cup (UNION page.notes) \cup (UNION {e.message : e \in page.errors})
  \cup UNION {row.remark : row \in
         page.pathParams \cup (UNION {b.fields : b \in page.body})
         \cup (UNION {ResponseRows(page.responses[i]) : i \in DOMAIN page.responses})}
=============================================================================
