------------------------------ MODULE MCApiDocs ------------------------------
(* ApiDocs for TLC: two endpoints that fit a service of two structs, or    *)
(* two whose paths end alike; a small stock of what people write.          *)
EXTENDS ApiDocs

Row(name, type, mandatory) ==
  [name |-> name, type |-> type, mandatory |-> mandatory, lacks |-> {},
   object |-> "none", remark |-> {"wire"}]
Said(row, text) == [row EXCEPT !.remark = text]

UserRows == {Row("id", "Number", "M"), Row("name", "String", "M")}
NewRows == {Row("name", "String", "M"), Row("age", "Integer", "O")}
Users == <<Lit("users")>>
User == <<Lit("users"), Param("id")>>
AdminUser == <<Lit("admin"), Lit("users"), Param("key")>>

Ok(fields, objects) == [status |-> "200", hasFields |-> "yes", fields |-> fields,
                        objects |-> objects, example |-> "none"]
Data == [Row("data", "Object", "M") EXCEPT !.object = "User", !.remark = {}]
Fits == <<Ok({Data}, [o \in {"User"} |-> UserRows])>>
Posted(fields, example) == {[hasFields |-> "yes", fields |-> fields, example |-> example]}
Error(kind, response, status) ==
  [code |-> kind, responseCode |-> response, status |-> status, message |-> {"wire"}]

Get(path) ==
  [top |-> "mapping", lacks |-> {}, endpoint |-> {"wire"}, method |-> "GET", path |-> path,
   pathParams |-> {Row(p, "String", "M") : p \in ParamsOf(path)}, body |-> {},
   description |-> {"wire"}, responses |-> Fits, errors |-> {Error("lib", "002", "400")},
   notes |-> {{"wire"}}]
Post == [Get(Users) EXCEPT !.method = "POST", !.body = Posted(NewRows, "a"), !.responses = <<>>]

MCFiles == {"f1", "f2"}
Two(d1, d2) == [f \in MCFiles |-> IF f = "f1" THEN d1 ELSE d2]

MCMethods == {"GET", "POST", "FETCH"}
MCUrlPaths == {<<>>, Users, User, AdminUser, <<Lit("api")>> \o Users, <<Lit("users"), Param("key")>>}
MCParamSets == {{}, {Row("id", "String", "M")}, {Row("key", "String", "M")},
                {Row("id", "String", "M"), Row("extra", "String", "M")}}
MCBodies == {{}, Posted(NewRows, "a"), Posted(NewRows, "b"), Posted(NewRows, "broken"),
             Posted({Row("name", "String", "O"), Row("age", "Number", "O")}, "a"),
             {[hasFields |-> "no", fields |-> {}, example |-> "a"]}}
MCResponseLists ==
  LET said(t) == <<Ok({Said(Data, t)}, [o \in {"User"} |-> UserRows])>>
  IN  {<<>>, Fits, said({"key"}), said({"wire", "docs"}), said({"code", "ticket"}), said({"url"}), said({"gone", "path"}),
       <<Ok({Data}, [o \in {} |-> {}])>>, <<[Fits[1] EXCEPT !.hasFields = "no", !.fields = {}]>>,
       <<Ok({}, [o \in {"User"} |-> {Row("id", "Number", "M")}]), Fits[1]>>}
MCErrorSets == {{}, {Error("lib", "002", "400")}, {Error("lib", "002", "504")}, {Error("number", "none", "400")},
                {[Error("other", "none", "400") EXCEPT !.message = {"wire", "key", "path"}]}}
MCNoteSets == {{{"wire"}}, {{"wire", "code"}, {"key"}}, {{"wire", "docs"}, {"wire", "key", "ticket"}}}
MCDescriptions == {{"wire"}, {"key", "wire"}, {"wire", "docs", "ticket"}}

NoError == [lacks |-> {}, base |-> <<>>, extra |-> {}, errors |-> {}]
MCMetas == {NoError, [NoError EXCEPT !.base = <<Lit("api")>>], [NoError EXCEPT !.lacks = {"title"}],
            [NoError EXCEPT !.errors = {Error("lib", "002", "504")}],
            [NoError EXCEPT !.extra = {[method |-> "GET", path |-> <<Lit("health")>>]}]}

GoField(json, type) ==
  [json |-> json, type |-> type, exported |-> "yes", required |-> "no",
   pointer |-> "no", omitempty |-> "no"]
Struct(fields) == [fields |-> fields, embeds |-> {}]
UserStruct == Struct({GoField("id", "int"), GoField("name", "string")})
NewStruct == Struct({GoField("name", "string"), [GoField("age", "int") EXCEPT !.omitempty = "yes"]})
Wide == [fields |-> {GoField("city", "string"), GoField("zip", "string"),
                     GoField("road", "string"), [GoField("note", "string") EXCEPT !.pointer = "yes"]},
         embeds |-> {"User"}]
Routes == {[method |-> "GET", path |-> User], [method |-> "POST", path |-> <<Lit("users")>>]}
Code(structs, routes) == [structs |-> structs, routes |-> routes, dups |-> {}]
Named(u) == [s \in {"User", "NewUser"} |-> IF s = "User" THEN u ELSE NewStruct]
Twin == [s \in {"User", "NewUser", "Twin"} |->
           IF s = "NewUser" THEN NewStruct
           ELSE IF s = "Twin" THEN UserStruct
           ELSE Struct({GoField("id", "string"), [GoField("name", "string") EXCEPT !.pointer = "yes"]})]
MCCodes ==
  {Code(Named(UserStruct), Routes),
   Code(Named(Struct({GoField("id", "int")})), Routes),
   Code(Named(Struct(UserStruct.fields \cup {GoField("mail", "string"), GoField("-", "int")})), Routes),
   Code(Twin, Routes), [Code(Twin, Routes) EXCEPT !.dups = {"User"}],
   Code([s \in {"User", "Wide"} |-> IF s = "User" THEN UserStruct ELSE Wide], Routes),
   Code([s \in {"Wide"} |-> Wide], Routes),
   Code([s \in {} |-> UserStruct], Routes),
   Code(Named(UserStruct), {[method |-> "GET", path |-> User]}),
   Code(Named(UserStruct), Routes \cup {[method |-> "GET", path |-> <<Lit("health")>>]})}
MCBegin == {[code |-> Code(Named(UserStruct), Routes), meta |-> NoError, spec |-> s] :
              s \in {Two({Get(User)}, {Post}), Two({Get(User)}, {Get(AdminUser)}), Two({Post}, {})}}
=============================================================================
