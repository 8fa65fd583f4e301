--------------------------- MODULE RestCallProofs ---------------------------
(***************************************************************************)
(* Proofs about RestCall, for every set of endpoints, classes, arguments,  *)
(* documents and statuses.                                                 *)
(***************************************************************************)
EXTENDS RestCall, RestCodecProofs

-----------------------------------------------------------------------------
(* The answers an endpoint documents                                        *)

\* The endpoint a program calls tells its answers apart and knows the classes it reads.
LEMMA CalledIsEndpoint ==
  ASSUME name \in DOMAIN Endpoints
  PROVE  /\ TellsApart(Called)
         /\ \A a \in Called.answers : a.form \in {"object", "list"} => a.of \in DOMAIN Classes
  BY EndpointsAssumption DEF Called

(* The document looked up for a documented status is one of the endpoint's, for that status. *)
LEMMA DocumentForParts ==
  ASSUME NEW e, NEW status \in DocumentedStatuses(e)
  PROVE  DocumentFor(e, status) \in e.answers /\ DocumentFor(e, status).status = status
<1>1. PICK a \in e.answers : a.status = status
  BY DEF DocumentedStatuses
<1>2. QED
  BY <1>1 DEF DocumentFor

(* The three ways a call can stand are told apart by their tag. *)
LEMMA OutcomeParts ==
  /\ Unfinished.how = "unfinished"
  /\ \A r : Returned(r).how = "returned" /\ Returned(r).result = r
  /\ \A x : Raised(x).how = x
  BY DEF Unfinished, Returned, Raised

-----------------------------------------------------------------------------
(* The inductive invariant: how a call has come to its outcome.             *)

Ways == {"returned", "argument", "transport", "unreadable", "UnexpectedStatus", "ValueError"}

IsAnswered == outcome.how \notin {"unfinished", "argument", "transport"}

IInv ==
  /\ name \in DOMAIN Endpoints
  /\ flag \in BOOLEAN
  /\ args \in Arguments[name]
  /\ phase \in {"building", "waiting", "ended"}
  /\ acted \in BOOLEAN
  /\ phase = "building" => request = NoRequest
  /\ phase # "ended" => ~acted /\ outcome = Unfinished
  /\ phase = "ended" => outcome.how \in Ways
  /\ outcome.how = "argument" => ~acted /\ request = NoRequest
  /\ request # NoRequest => request.query = SentQuery(Called)
  /\ IsAnswered => outcome = BuiltResponse(Called, answer.status, answer.content)

(* Building a response ends in a value or an error of the response, never in one of the arguments
   or the transport. *)
LEMMA ResponseWays ==
  ASSUME NEW e, NEW status, NEW content, flag \in BOOLEAN
  PROVE  BuiltResponse(e, status, content).how \in Ways \ {"argument", "transport"}
<1>1. CASE status \notin HTTPStatus
  BY <1>1, OutcomeParts DEF BuiltResponse, Ways
<1>2. CASE status \in HTTPStatus /\ status \in DocumentedStatuses(e)
  <2>1. BuiltResponse(e, status, content) = Parsed(e, status, content)
    BY <1>2 DEF BuiltResponse
  <2>2. Parsed(e, status, content).how \in {"returned", "unreadable"}
    BY OutcomeParts DEF Parsed
  <2>3. QED
    BY <2>1, <2>2 DEF Ways
<1>3. CASE status \in HTTPStatus /\ status \notin DocumentedStatuses(e)
  <2>1. BuiltResponse(e, status, content) = Undocumented
    BY <1>3 DEF BuiltResponse
  <2>2. Undocumented.how \in {"returned", "UnexpectedStatus"}
    BY OutcomeParts DEF Undocumented
  <2>3. QED
    BY <2>1, <2>2 DEF Ways
<1>4. QED
  BY <1>1, <1>2, <1>3

(* A call that has not begun satisfies the invariant. *)
LEMMA InitSound == Init => IInv
  BY OutcomeParts DEF Init, IInv, IsAnswered

(* Every step of a call keeps the invariant. *)
LEMMA NextSound == IInv /\ [Next]_vars => IInv'
<1> SUFFICES ASSUME IInv, [Next]_vars PROVE IInv'
  OBVIOUS
<1>1. CASE BuildRaises
  BY <1>1, OutcomeParts DEF IInv, BuildRaises, call, Called, IsAnswered, Ways
<1>2. CASE Send
  BY <1>2, OutcomeParts DEF IInv, Send, call, Called, IsAnswered, SentQuery
<1>3. CASE TimeoutElapses
  BY <1>3, OutcomeParts DEF IInv, TimeoutElapses, call, Called, IsAnswered, Ways, SentQuery
<1>4. CASE ConnectionFails
  BY <1>4, OutcomeParts DEF IInv, ConnectionFails, call, Called, IsAnswered, Ways, SentQuery
<1>5. CASE ActsLate
  BY <1>5 DEF IInv, ActsLate, call, Called, IsAnswered, Ways, SentQuery, BuiltResponse
<1>6. CASE Receive
  <2>1. PICK status \in Statuses, content \in UNION {Contents(Called, s) : s \in Statuses} :
          /\ answer' = [status |-> status, content |-> content]
          /\ outcome' = BuiltResponse(Called, status, content)
          /\ acted' \in MayAct(status)
    BY <1>6 DEF Receive
  <2>2. phase = "waiting" /\ phase' = "ended" /\ UNCHANGED <<call, request>>
    BY <1>6 DEF Receive
  <2>3. Called' = Called /\ args' = args /\ name' = name /\ flag' = flag
    BY <2>2 DEF Called, call
  <2>4. outcome'.how \in Ways \ {"argument", "transport"}
    BY <2>1, ResponseWays DEF IInv
  <2>5. answer'.status = status /\ answer'.content = content
    BY <2>1
  <2>6. outcome' = BuiltResponse(Called, answer.status, answer.content)'
    BY <2>1, <2>3, <2>5 DEF BuiltResponse, Parsed, Undocumented
  <2>7. acted' \in BOOLEAN
    BY <2>1 DEF MayAct
  <2>8. (request # NoRequest => request.query = SentQuery(Called))'
    BY <2>2, <2>3 DEF IInv, SentQuery
  <2>9. QED
    BY <2>2, <2>3, <2>4, <2>6, <2>7, <2>8 DEF IInv, Ways
<1>7. CASE UNCHANGED vars
  BY <1>7 DEF IInv, vars, call, Called, IsAnswered, SentQuery, BuiltResponse, Parsed, Undocumented
<1>8. QED
  BY <1>1, <1>2, <1>3, <1>4, <1>5, <1>6, <1>7 DEF Next, ClientStep, EnvironmentStep

\* Every outcome is one _build_response or an exception makes of the answer, the
\* arguments and the phase (IInv).
THEOREM Traced == Spec => []IInv
  BY InitSound, NextSound, PTL DEF Spec

-----------------------------------------------------------------------------
(* The properties                                                           *)

\* A call has an outcome exactly when it has ended.
THEOREM Typed == Spec => []TypeOK
<1>1. IInv => TypeOK
  BY OutcomeParts DEF IInv, TypeOK, Ways
<1>2. QED
  BY <1>1, Traced, PTL

\* An argument that cannot be sent is noticed before anything has been sent.
THEOREM RefusedEarly == Spec => []RefusedCallsNeverAct
<1>1. IInv => RefusedCallsNeverAct
  BY DEF IInv, RefusedCallsNeverAct
<1>2. QED
  BY <1>1, Traced, PTL

\* The result of a documented status is that of its description.
LEMMA ReturnedParts ==
  ASSUME IInv, outcome.how = "returned", answer.status \in DocumentedStatuses(Called)
  PROVE  \E a \in Called.answers : a.status = answer.status /\ outcome.result = ResultOf(a)
<1> DEFINE a == DocumentFor(Called, answer.status)
<1>1. outcome = BuiltResponse(Called, answer.status, answer.content)
  BY DEF IInv, IsAnswered
<1>2. outcome = Parsed(Called, answer.status, answer.content)
  BY <1>1, OutcomeParts DEF BuiltResponse
<1>3. outcome = Returned(ResultOf(a))
  BY <1>2, OutcomeParts DEF Parsed
<1>4. QED
  BY <1>3, DocumentForParts, OutcomeParts

\* That of any other is None, and only without raise_on_unexpected_status.
LEMMA UndocumentedParts ==
  ASSUME IInv, outcome.how = "returned", answer.status \notin DocumentedStatuses(Called)
  PROVE  ~flag /\ outcome.result = NoResult
<1>1. outcome = BuiltResponse(Called, answer.status, answer.content)
  BY DEF IInv, IsAnswered
<1>2. outcome = Undocumented
  BY <1>1, OutcomeParts DEF BuiltResponse
<1>3. QED
  BY <1>2, OutcomeParts DEF Undocumented, IInv

(* With a documented status, a result that a success and a failure share is given for the kind
   the server answered with. *)
LEMMA DocumentedTells ==
  ASSUME IInv, outcome.how = "returned", answer.status \in DocumentedStatuses(Called),
         NEW a \in Called.answers, ResultOf(a) = outcome.result
  PROVE  IsSuccess(a.status) <=> IsSuccess(answer.status)
<1>1. PICK b \in Called.answers : b.status = answer.status /\ outcome.result = ResultOf(b)
  BY ReturnedParts
<1>2. TellsApart(Called)
  BY CalledIsEndpoint DEF IInv
<1>3. QED
  BY <1>1, <1>2 DEF TellsApart

\* A result tells success from failure, unless it is None and undocumented
\* statuses do not raise.
THEOREM ResultTells == Spec => []ResultTellsSuccess
<1>1. IInv => ResultTellsSuccess
  BY DocumentedTells, UndocumentedParts DEF ResultTellsSuccess
<1>2. QED
  BY <1>1, Traced, PTL

\* A body the documented class would have written itself is never lost.
THEOREM FaithfulArrive == Spec => []FaithfulAnswersArrive
<1>1. IInv => FaithfulAnswersArrive
  <2> DEFINE a == DocumentFor(Called, answer.status)
             content == answer.content
  <2> SUFFICES ASSUME IInv, outcome.how = "unreadable", content.json,
                      a.form \in {"object", "list"} => content.docs \subseteq WrittenBy(a.of),
                      a.form = "constant" => content.docs = {}
               PROVE  FALSE
    BY DEF FaithfulAnswersArrive
  <2>1. outcome = BuiltResponse(Called, answer.status, answer.content)
    BY DEF IInv, IsAnswered
  <2>2. answer.status \in DocumentedStatuses(Called)
        /\ outcome = Parsed(Called, answer.status, answer.content)
    BY <2>1, OutcomeParts DEF BuiltResponse, Undocumented
  <2>3. ~CanParse(Classes, a, content)
    BY <2>2, OutcomeParts DEF Parsed
  <2>4. a \in Called.answers
    BY <2>2, DocumentForParts
  <2>5. ASSUME a.form \in {"object", "list"}, NEW d \in content.docs
        PROVE  CanRead(Classes[a.of], d)
    <3> DEFINE c == Classes[a.of]
    <3>1. a.of \in DOMAIN Classes
      BY <2>4, <2>5, CalledIsEndpoint DEF IInv
    <3>2. IsSchema(c)
      BY <3>1, ClassesAssumption
    <3>3. d \in WrittenBy(a.of)
      BY <2>5
    <3>4. CASE d = ToDict(c, NewObject(c))
      BY <3>2, <3>4, NewReadBack
    <3>5. ASSUME NEW x \in Documents[a.of], CanRead(c, x), d = ToDict(c, FromDict(c, x))
          PROVE  CanRead(c, d)
      BY <3>1, <3>2, <3>5, DocumentsAssumption, ReadBack
    <3>6. QED
      BY <3>3, <3>4, <3>5 DEF WrittenBy
  <2> HIDE DEF a, content
  <2>6. QED
    BY <2>3, <2>5 DEF CanParse
<1>2. QED
  BY <1>1, Traced, PTL
=============================================================================
