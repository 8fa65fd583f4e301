---------------------------- MODULE MCRestEdit ----------------------------
(* Instances of RestEdit for TLC.                                           *)
EXTENDS RestEdit, RestCatalogue

CONSTANTS p1, p2

-----------------------------------------------------------------------------
(* One key for each kind of field a class has, by which its documents and   *)
(* the changes to it are varied.                                            *)

Kind(f) == [f EXCEPT !.of = IF @ = "" THEN "" ELSE "class"]
Kinds(c) == {Kind(c.fields[k]) : k \in Keys(c)}
KeyFor(c, kind) == CHOOSE k \in Keys(c) : Kind(c.fields[k]) = kind
VariedKeys(c) == {KeyFor(c, kind) : kind \in Kinds(c)}

\* Between them these classes have every kind of field any class has, beside
\* every treatment of undeclared keys it occurs with.
Examples ==
  {"ApiAgentBase", "ApiDependenciesRemoveSinglePermissionPatchRequest",
   "ApiFieldRulesWithOwnership", "ApiFieldValueDateTime",
   "ApiItemPermissionsCanCreateDependentItem", "ApiLicense",
   "ApiRelationCreateMetaAllowedTypes", "ApiReportCsvPrintoutOptions",
   "ApiReportPrintoutRequest", "ApiReportPrintoutRequestFile",
   "ApiReportXlPrintoutEncryptionOptions", "ApiTestDataUpdateLocal",
   "ApiTestExecutionCreateMeta", "ApiTestStepExecutionUpdate", "GenericPermissionInfo",
   "HttpRequestMessageProperties", "IApiRelationItemExtra",
   "RangeConditionHeaderValue", "UserChangeUserPhotoMultipartData"}

KindsBeside(c) == {<<kind, c.rest>> : kind \in Kinds(c)}

ASSUME ExamplesHaveEveryKind ==
  UNION {KindsBeside(Schemas[n]) : n \in DOMAIN Schemas}
    = UNION {KindsBeside(Schemas[n]) : n \in Examples}

Full(c) == [k \in Keys(c) \cup {"undeclared"} |-> "full"]
Bare(c) == [k \in {x \in Keys(c) : c.fields[x].needed} |-> "full"]

Without(d, k) == [x \in DOMAIN d \ {k} |-> d[x]]

\* The full object, the bare one, and either with one key left out, added or
\* changed.
Variants(c, d) ==
  {d} \cup {Without(d, k) : k \in VariedKeys(c)}
      \cup {With(d, k, v) : k \in VariedKeys(c) \cup {"undeclared"},
                            v \in JsonValues \ {"full", "other", "filled"}}

DocumentsOf ==
  [n \in DOMAIN Schemas |->
     LET c == Schemas[n] IN
     IF n \in Examples THEN Variants(c, Full(c)) \cup Variants(c, Bare(c))
                       ELSE {Full(c), Bare(c)}]

ChangesOf ==
  [n \in DOMAIN Schemas |->
     IF n \in Examples
     THEN (VariedKeys(Schemas[n]) \cup {"undeclared"}) \X {"other", "null", "zero", UNSET}
     ELSE IF n = "ApiDashboardNG" THEN {"Title", "Widgets"} \X {"other"}
     ELSE {}]

\* Two programs meet in a class the service both returns and takes.
ProgramsOf ==
  [n \in DOMAIN Schemas |-> IF n = "ApiDashboardNG" THEN {p1, p2} ELSE {p1}]

Dashboard == [n \in {"ApiDashboardNG"} |-> Schemas[n]]
=============================================================================
