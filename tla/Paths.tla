-------------------------------- MODULE Paths --------------------------------
(***************************************************************************)
(* URL path templates as the tripwires of the API documents compare them:  *)
(* sequences of segments, a literal or a parameter ({id} in a spec, :id in *)
(* a request or a router) each.                                            *)
(***************************************************************************)
EXTENDS Naturals, Sequences

Segment == [kind : {"lit", "param"}, val : STRING]
Path == Seq(Segment)

Lit(val) == [kind |-> "lit", val |-> val]
Param(val) == [kind |-> "param", val |-> val]

\* norm_template, norm_path: the names of the parameters do not count.
Norm(path) == [i \in DOMAIN path |-> IF path[i].kind = "param" THEN "{}" ELSE path[i].val]

ParamsOf(path) == {path[i].val : i \in {j \in DOMAIN path : path[j].kind = "param"}}

\* str.endswith on normalised paths: every segment starts with its slash.
EndsWith(p, q) ==
  /\ q # <<>> /\ Len(q) <= Len(p)
  /\ SubSeq(p, Len(p) - Len(q) + 1, Len(p)) = q
=============================================================================
