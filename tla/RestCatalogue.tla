--------------------------- MODULE RestCatalogue ---------------------------
(***************************************************************************)
(* All model classes and endpoints of the generated REST client by name,   *)
(* and what the patterns rest on: every description is well formed, every  *)
(* class an endpoint or another class names is there, no two endpoints     *)
(* send the same kind of request, and no endpoint parses a success and a   *)
(* failure to the same thing.                                              *)
(***************************************************************************)
EXTENDS RestItemSchemas, RestProjectSchemas, RestAdminSchemas, RestSharedSchemas,
        RestFieldSchemas, RestVariantSchemas,
        RestTestEndpoints, RestItemEndpoints, RestProjectEndpoints, RestAdminEndpoints

Schemas ==
  ItemSchemas @@ ProjectSchemas @@ AdminSchemas @@ SharedSchemas @@ FieldSchemas
    @@ VariantSchemas

AllEndpoints == TestEndpoints @@ ItemEndpoints @@ ProjectEndpoints @@ AdminEndpoints

ASSUME SchemasAreWellFormed ==
  \A c \in DOMAIN Schemas :
    /\ IsSchema(Schemas[c])
    /\ \A k \in Keys(Schemas[c]) : Schemas[c].fields[k].of \in DOMAIN Schemas \cup {""}

ASSUME EndpointsAreWellFormed ==
  \A n \in DOMAIN AllEndpoints :
    LET e == AllEndpoints[n] IN
    /\ IsEndpoint(e)
    /\ TellsApart(e)
    /\ e.body.of \in DOMAIN Schemas \cup {""}
    /\ \A a \in e.answers : a.of \in DOMAIN Schemas \cup {""}

ASSUME RequestsAreDistinct ==
  \A m, n \in DOMAIN AllEndpoints :
    /\ AllEndpoints[m].method = AllEndpoints[n].method
    /\ AllEndpoints[m].path = AllEndpoints[n].path
    => m = n
=============================================================================
