---------------------------- MODULE MCRestCall ----------------------------
(* Instances of RestCall for TLC.                                           *)
EXTENDS RestCall, RestCatalogue

\* Every parameter has its value, or all that may be are something else.
ArgumentsOf ==
  [n \in DOMAIN AllEndpoints |->
     LET query == AllEndpoints[n].query
         Param(k) == CHOOSE p \in query : p.name = k
     IN {[k \in {p.name : p \in query} |-> IF MayPass(Param(k), v) THEN v ELSE "value"] :
           v \in ArgumentValues}]

ConstantKeys(c) == {k \in Keys(c) : c.fields[k].shape = "enum"}

\* Everything, what is needed, nothing, and everything with a constant that is
\* newer than the client.
DocumentsOf ==
  [n \in DOMAIN Schemas |->
     LET c == Schemas[n]
         full == [k \in Keys(c) |-> "full"]
         bare == [k \in {x \in Keys(c) : c.fields[x].needed} |-> "full"]
     IN {full, bare, [k \in {} |-> "full"]}
        \cup {[full EXCEPT ![k] = "odd"] :
                k \in IF ConstantKeys(c) = {} THEN {} ELSE {CHOOSE k \in ConstantKeys(c) : TRUE}}]

\* Of the statuses no endpoint documents: one that is a success, two that are
\* not, and one that Python does not know.
Usual == {200, 204, 307, 400, 401, 403, 404, 500, 503}
Known == Usual \cup {202, 429, 502}
All == Known \cup {520}
=============================================================================
