---------------------------- MODULE RestEndpoint ----------------------------
(***************************************************************************)
(* What an endpoint function of the generated REST client sends            *)
(* (_get_kwargs) and what it makes of an answer (_parse_response).         *)
(*                                                                         *)
(* An endpoint is described by its method and path, its query parameters,  *)
(* its body and the answers it documents; the catalogue modules            *)
(* (Rest*Endpoints) hold that description for each endpoint.               *)
(***************************************************************************)
EXTENDS RestCodec, Naturals, FiniteSets

Endpoint(method, path, query, body, answers) ==
  [method |-> method, path |-> path, query |-> query, body |-> body, answers |-> answers]

-----------------------------------------------------------------------------
(* Query parameters: sets of descriptions *)

Parameters(names, type, needed, preset) ==
  [name : names, type : {type}, needed : {needed}, preset : {preset}]

Optional(names)      == Parameters(names, "plain", FALSE, FALSE)
Preset(names)        == Parameters(names, "plain", FALSE, TRUE)
Needed(names)        == Parameters(names, "plain", TRUE, FALSE)
OptionalEnum(names)  == Parameters(names, "enum", FALSE, FALSE)
PresetEnum(names)    == Parameters(names, "enum", FALSE, TRUE)
NeededEnum(names)    == Parameters(names, "enum", TRUE, FALSE)
OptionalDate(names)  == Parameters(names, "date", FALSE, FALSE)
OptionalEnums(names) == Parameters(names, "enums", FALSE, FALSE)

(* What a caller may pass for a parameter:                                 *)
(*   "value"    a value of its type that Python takes for true             *)
(*   "falsy"    0, False, an empty text or an empty list                   *)
(*   "none"     None                                                       *)
(*   UNSET      UNSET itself                                               *)
(*   "left out" nothing: the default of the function counts, which is      *)
(*              UNSET, or a value (perhaps a falsy one) that is preset     *)
(*   "odd"      a text where a constant, a date or a list is expected      *)
ArgumentValues == {"value", "falsy", "none", "odd", "left out", UNSET}

MayPass(param, v) ==
  /\ v \in {"left out", UNSET} => ~param.needed
  /\ v = "odd" => param.type # "plain"
  /\ v = "falsy" => param.type \in {"plain", "enums"}

\* .value, .isoformat() or the loop over the list has nothing to work on.
\* An optional parameter is looked at first.
ArgumentRaises(param, v) ==
  \/ v = "odd"
  \/ v = "none" /\ param.needed /\ param.type = "enum"

\* params = {k: v ... if v is not UNSET and v is not None}, and httpx leaves
\* out a parameter that is an empty list.
IsSent(param, v) ==
  /\ v \notin {"none", UNSET}
  /\ v = "left out" => param.preset
  /\ ~(v = "falsy" /\ param.type = "enums")

-----------------------------------------------------------------------------
(* Bodies *)

Body(form, class) == [form |-> form, of |-> class]

NoBody           == Body("none", "")
Json(class)      == Body("json", class)
JsonList(class)  == Body("list", class)
JsonRaw          == Body("raw", "")
Multipart(class) == Body("multipart", class)

(* What a caller may pass for the body:                                    *)
(*   "sound"   objects that can be written                                 *)
(*   "spoilt"  an object of which to_dict raises                           *)
(*   "bytes"   a form with a file whose payload is binary                  *)
(*   "text"    a form with a file whose payload is text                    *)
(*   "blank"   a form without a file                                       *)
BodyValues(body) ==
  CASE body.form \in {"json", "list"} -> {"sound", "spoilt"}
    [] body.form = "multipart" -> {"bytes", "text", "blank"}
    [] OTHER -> {"sound"}

\* to_multipart passes its files through json.dumps, which refuses bytes.
BodyRaises(b) == b \in {"spoilt", "bytes"}

\* The parts of the request a body ends up in
Parts(body, b) ==
  CASE body.form = "none" -> {}
    [] body.form = "multipart" -> IF b = "text" THEN {"json part"} ELSE {}
    [] OTHER -> {"json"}

-----------------------------------------------------------------------------
(* Answers: sets of descriptions, at most one for a status *)

Documented(status, form, class) == [status |-> status, form |-> form, of |-> class]

Object(status, class)     == {Documented(status, "object", class)}
ObjectList(status, class) == {Documented(status, "list", class)}
NoContent(status)         == {Documented(status, "nothing", "")}
Content(status)           == {Documented(status, "file", "")}
Scalar(status)            == {Documented(status, "scalar", "")}
Constant(status)          == {Documented(status, "constant", "")}
Texts(statuses)           == {Documented(s, "text", "") : s \in statuses}

ProblemClass ==
  [s \in {400, 401, 403, 404, 500, 503} |->
     CASE s = 400 -> "ApiArgumentError"
       [] s = 401 -> "ApiUnauthorizedError"
       [] s = 403 -> "ApiForbiddenError"
       [] s = 404 -> "ApiNotFoundError"
       [] s = 500 -> "ApiInternalError"
       [] s = 503 -> "ApiBackendNotAvailableError"]

Problems(statuses) == {Documented(s, "object", ProblemClass[s]) : s \in statuses}

IsSuccess(status) == status \in 200 .. 299

DocumentedStatuses(e) == {a.status : a \in e.answers}
DocumentFor(e, status) == CHOOSE a \in e.answers : a.status = status

(* The body of an answer:                                                  *)
(*   [json |-> TRUE, docs |-> s]   JSON: the objects it holds, one for an  *)
(*                                 object, any number for a list, none for *)
(*                                 a number, a text or a known constant    *)
(*   [json |-> FALSE, docs |-> {}] no JSON                                 *)
NotJson == [json |-> FALSE, docs |-> {}]
JsonOf(docs) == [json |-> TRUE, docs |-> docs]

\* The description a is read from the body without an exception.
CanParse(schemas, a, content) ==
  CASE a.form \in {"object", "list"} ->
         content.json /\ \A d \in content.docs : CanRead(schemas[a.of], d)
    [] a.form = "scalar" -> content.json
    [] a.form = "constant" -> content.json /\ content.docs = {}
    [] OTHER -> TRUE

\* What the caller can tell about a parsed result: None, its class (of its
\* items, for a list), or that it is a text, a file and so on.
NoResult == [form |-> "nothing", of |-> ""]
ResultOf(a) == [form |-> a.form, of |-> a.of]

-----------------------------------------------------------------------------
IsEndpoint(e) ==
  /\ e = Endpoint(e.method, e.path, e.query, e.body, e.answers)
  /\ e.method \in {"get", "post", "put", "delete", "patch"}
  /\ \A p \in e.query : /\ p.type \in {"plain", "enum", "date", "enums"}
                        /\ p.needed \in BOOLEAN /\ p.preset \in BOOLEAN
                        /\ p = [name |-> p.name, type |-> p.type,
                                needed |-> p.needed, preset |-> p.preset]
  /\ \A p, q \in e.query : p.name = q.name => p = q
  /\ \A a \in e.answers : a = Documented(a.status, a.form, a.of) /\ a.status \in 100 .. 599
  /\ \A a, b \in e.answers : a.status = b.status => a = b

\* No documented success is parsed to what a documented failure is parsed to.
TellsApart(e) ==
  \A a, b \in e.answers : ResultOf(a) = ResultOf(b) => (IsSuccess(a.status) <=> IsSuccess(b.status))
=============================================================================
