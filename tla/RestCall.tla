------------------------------ MODULE RestCall ------------------------------
(***************************************************************************)
(* One call of an endpoint function of the generated REST client: sync,    *)
(* sync_detailed and their asyncio twins, which do the same.               *)
(*                                                                         *)
(* The request is built from the arguments (_get_kwargs), sent by httpx,   *)
(* and the answer is parsed (_build_response, _parse_response).  The       *)
(* service and httpx are external: the service may refuse, answer with a   *)
(* status or a body nobody documented, answer slowly, or act on a request  *)
(* whose caller has given up.                                              *)
(***************************************************************************)
EXTENDS RestEndpoint

CONSTANTS Endpoints,   \* name -> the description of an endpoint
          Classes,     \* class name -> its schema
          Arguments,   \* name -> what a caller may pass: parameter -> value
          Documents,   \* class name -> the JSON objects an answer may hold
          Statuses,    \* the statuses an answer may have
          HTTPStatus   \* those Python's enumeration knows

ASSUME ClassesAssumption == \A c \in DOMAIN Classes : IsSchema(Classes[c])

ASSUME DocumentsAssumption ==
  \A c \in DOMAIN Classes : \A d \in Documents[c] : IsDocument(d)

ASSUME EndpointsAssumption ==
  \A n \in DOMAIN Endpoints :
    /\ IsEndpoint(Endpoints[n])
    /\ TellsApart(Endpoints[n])
    /\ \A a \in Endpoints[n].answers : a.form \in {"object", "list"} => a.of \in DOMAIN Classes

ASSUME ArgumentsAssumption ==
  \A n \in DOMAIN Endpoints : \A a \in Arguments[n] : \A p \in Endpoints[n].query :
    a[p.name] \in ArgumentValues /\ MayPass(p, a[p.name])

ASSUME HTTPStatusAssumption ==
  \A n \in DOMAIN Endpoints : DocumentedStatuses(Endpoints[n]) \subseteq HTTPStatus

VARIABLES
  name,     \* the endpoint that is called
  flag,     \* client.raise_on_unexpected_status
  args,     \* parameter -> what the caller has passed
  given,    \* what the caller has passed for the body
  phase,    \* "building", "waiting" or "ended"
  request,  \* what has been sent
  acted,    \* the service has done what the request asks for
  answer,   \* the answer of the service
  outcome   \* how the call has ended

call == <<name, flag, args, given>>
vars == <<call, phase, request, acted, answer, outcome>>

Called == Endpoints[name]

NoRequest == [method |-> "", path |-> "", query |-> {}, parts |-> {}]
NoAnswer == [status |-> 0, content |-> NotJson]

Unfinished == [how |-> "unfinished", result |-> NoResult]
Returned(result) == [how |-> "returned", result |-> result]
Raised(exception) == [how |-> exception, result |-> NoResult]

-----------------------------------------------------------------------------
(* _get_kwargs *)

Refused(e) == {p \in e.query : ArgumentRaises(p, args[p.name])}

SentQuery(e) == {p.name : p \in {q \in e.query : IsSent(q, args[q.name])}}

Init ==
  /\ name \in DOMAIN Endpoints
  /\ flag \in BOOLEAN
  /\ args \in Arguments[name]
  /\ given \in BodyValues(Endpoints[name].body)
  /\ phase = "building"
  /\ request = NoRequest
  /\ acted = FALSE
  /\ answer = NoAnswer
  /\ outcome = Unfinished

\* mutant: the request is sent before its body is converted
RaisesLate ==
  /\ phase = "building"
  /\ Refused(Called) # {} \/ BodyRaises(given)
  /\ phase' = "ended"
  /\ request' = [method |-> Called.method, path |-> Called.path,
                 query |-> SentQuery(Called), parts |-> {}]
  /\ outcome' = Raised("argument")
  /\ UNCHANGED <<call, acted, answer>>

\* AttributeError or TypeError while the request is built
BuildRaises ==
  /\ phase = "building"
  /\ Refused(Called) # {} \/ BodyRaises(given)
  /\ phase' = "ended"
  /\ outcome' = Raised("argument")
  /\ UNCHANGED <<call, request, acted, answer>>

\* httpx.request(**kwargs)
Send ==
  /\ phase = "building"
  /\ Refused(Called) = {} /\ ~BodyRaises(given)
  /\ request' = [method |-> Called.method, path |-> Called.path,
                 query |-> SentQuery(Called), parts |-> Parts(Called.body, given)]
  /\ phase' = "waiting"
  /\ UNCHANGED <<call, acted, answer, outcome>>

-----------------------------------------------------------------------------
(* The service and the network *)

\* The bodies that may come with a status: what the endpoint documents for it,
\* more or less, or something of a proxy.
Contents(e, status) ==
  IF status \notin DocumentedStatuses(e) THEN {NotJson}
  ELSE LET a == DocumentFor(e, status) IN
       CASE a.form = "object" -> {NotJson} \cup {JsonOf({d}) : d \in Documents[a.of]}
         [] a.form = "list" -> {NotJson, JsonOf({}), JsonOf(Documents[a.of])}
                                 \cup {JsonOf({d}) : d \in Documents[a.of]}
         [] a.form = "constant" -> {NotJson, JsonOf({}), JsonOf({[k \in {} |-> "full"]})}
         [] OTHER -> {NotJson, JsonOf({})}

\* A success has acted.  A failure of the service may have, any other has not.
MayAct(status) ==
  IF IsSuccess(status) THEN {TRUE} ELSE IF status >= 500 THEN BOOLEAN ELSE {FALSE}

\* The service acts on a request nobody waits for any more.
ActsLate ==
  /\ phase = "ended"
  /\ outcome.how = "transport"
  /\ ~acted
  /\ acted' = TRUE
  /\ UNCHANGED <<call, phase, request, answer, outcome>>

-----------------------------------------------------------------------------
(* httpx *)

\* mutant: client.timeout is not passed to httpx
NeverElapses == FALSE /\ UNCHANGED vars

\* mutant: the exception is swallowed and the function returns nothing
ElapsesSilently ==
  /\ phase = "waiting"
  /\ phase' = "ended"
  /\ UNCHANGED <<call, request, acted, answer, outcome>>

\* httpx.TimeoutException: client.timeout seconds without a piece of the answer
TimeoutElapses ==
  /\ phase = "waiting"
  /\ phase' = "ended"
  /\ outcome' = Raised("transport")
  /\ UNCHANGED <<call, request, acted, answer>>

\* The connection fails, before or after the request has arrived.
ConnectionFails ==
  /\ phase = "waiting"
  /\ phase' = "ended"
  /\ outcome' = Raised("transport")
  /\ UNCHANGED <<call, request, acted, answer>>

-----------------------------------------------------------------------------
(* _build_response and _parse_response *)

\* mutant: every status is parsed by the branch of a success
ParsedAsSuccess(e, status, content) ==
  LET good == {a \in e.answers : IsSuccess(a.status)}
      a == IF good = {} THEN DocumentFor(e, status) ELSE CHOOSE x \in good : TRUE
  IN IF CanParse(Classes, a, content) THEN Returned(ResultOf(a)) ELSE Raised("unreadable")

\* The first branch of the right status
Parsed(e, status, content) ==
  LET a == DocumentFor(e, status) IN
  IF CanParse(Classes, a, content) THEN Returned(ResultOf(a)) ELSE Raised("unreadable")

Undocumented == IF flag THEN Raised("UnexpectedStatus") ELSE Returned(NoResult)

\* HTTPStatus(response.status_code) comes first and knows no other status.
BuiltResponse(e, status, content) ==
  IF status \notin HTTPStatus THEN Raised("ValueError")
  ELSE IF status \in DocumentedStatuses(e) THEN Parsed(e, status, content)
  ELSE Undocumented

\* The service answers, and the client parses the answer at once.
Receive ==
  /\ phase = "waiting"
  /\ \E status \in Statuses :
       /\ \E content \in Contents(Called, status) :
            /\ answer' = [status |-> status, content |-> content]
            /\ outcome' = BuiltResponse(Called, status, content)
       /\ acted' \in MayAct(status)
  /\ phase' = "ended"
  /\ UNCHANGED <<call, request>>

-----------------------------------------------------------------------------
ClientStep == BuildRaises \/ Send \/ TimeoutElapses

EnvironmentStep == Receive \/ ConnectionFails \/ ActsLate

Next == ClientStep \/ EnvironmentStep

\* The client builds its request by itself, and its timeout elapses, because an
\* answer has a last piece even where each piece restarts it.  Nothing obliges
\* the service to answer or the connection to fail.
Spec == Init /\ [][Next]_vars /\ WF_vars(ClientStep)

-----------------------------------------------------------------------------
\* A call has an outcome exactly when it has ended.
TypeOK ==
  /\ name \in DOMAIN Endpoints
  /\ flag \in BOOLEAN
  /\ phase \in {"building", "waiting", "ended"}
  /\ acted \in BOOLEAN
  /\ outcome.how \in {"unfinished", "returned", "argument", "transport", "unreadable",
                      "UnexpectedStatus", "ValueError"}
  /\ outcome = Unfinished <=> phase # "ended"

\* An argument that cannot be sent is noticed before anything has been sent:
\* such a call never acts, neither at once nor later.
RefusedCallsNeverAct ==
  outcome.how = "argument" => ~acted /\ request = NoRequest

\* A result tells success from failure: no result of a success is also one of a
\* documented failure or the other way round.  Only where undocumented statuses
\* do not raise, None stands for them as well as for a success without content.
ResultTellsSuccess ==
  outcome.how = "returned" /\ (flag \/ outcome.result # NoResult) =>
    \A a \in Called.answers :
      ResultOf(a) = outcome.result => (IsSuccess(a.status) <=> IsSuccess(answer.status))

\* What the classes of the client write themselves
WrittenBy(class) ==
  LET c == Classes[class] IN
  {ToDict(c, NewObject(c))}
    \cup {ToDict(c, FromDict(c, d)) : d \in {x \in Documents[class] : CanRead(c, x)}}

\* A call loses an answer with a documented status only when the body is
\* nothing that the documented class itself would have written.
FaithfulAnswersArrive ==
  outcome.how = "unreadable" =>
    LET a == DocumentFor(Called, answer.status) IN
    ~ /\ answer.content.json
      /\ a.form \in {"object", "list"} => answer.content.docs \subseteq WrittenBy(a.of)
      /\ a.form = "constant" => answer.content.docs = {}

\* A service that never answers cannot hold a caller for ever.
CallEnds == phase = "building" ~> phase = "ended"
=============================================================================
