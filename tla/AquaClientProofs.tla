-------------------------- MODULE AquaClientProofs --------------------------
(***************************************************************************)
(* Proofs about AquaClient, for every set of executions, every configured   *)
(* number of attempts and every set of Retry-After spans.                   *)
(***************************************************************************)
EXTENDS AquaClient, FiniteSetTheorems, TLAPS

----------------------------------------------------------------------------
(* Facts about the data.                                                    *)

\* Math.Max(1, Retries) makes at least one attempt.
LEMMA AttemptsPositive == Attempts \in Nat /\ Attempts >= 1
  BY RetriesAssumption DEF Attempts

\* The counts a result reports are natural numbers.
LEMMA BatchCount == \A b \in SUBSET Executions : Cardinality(b) \in Nat
  BY ExecutionsAssumption, FS_Subset, FS_CardinalityType

\* The absent header is a header.
LEMMA NoHeader == NoReply.after \in RetryAfterHeaders
  BY DEF NoReply, RetryAfterHeaders

\* Every answer the service can give is a well-formed reply.
LEMMA AnswerType ==
  ASSUME NEW kind \in AnswerKinds, NEW after \in RetryAfterHeaders
  PROVE  Answer(kind, after) \in [kind : AnswerKinds \cup {"none"}, after : RetryAfterHeaders]
  BY DEF Answer

\* A wait has an integral number of milliseconds.
LEMMA DelayType ==
  ASSUME NEW n \in Nat, n >= 1, NEW after \in RetryAfterHeaders
  PROVE  DelayFor(n, after) \in Int
<1>1. AdvisedDelay(after) \in Int
  <2>1. after.form = "delta" => after \in [form : {"delta", "date"}, ms : RetryAfters]
    BY DEF RetryAfterHeaders
  <2>2. after.form = "delta" => after.ms \in RetryAfters
    BY <2>1
  <2>3. after.form = "delta" => after.ms \in Int
    BY <2>2, RetryAftersAssumption, RetryAfters \subseteq Int
  <2>4. QED
    BY <2>3 DEF AdvisedDelay
<1>2. Backoff(n) \in Int
  BY MaxDelayAssumption DEF Backoff
<1>3. QED
  BY <1>1, <1>2 DEF DelayFor

\* However a call ends, its result is well formed.
LEMMA ResultType ==
  ASSUME NEW b \in SUBSET Executions
  PROVE  {Pending, Succeeded(b), Failed(b), Thrown("faulted"), Thrown("canceled")}
           \subseteq [verdict : Verdicts, posted : Nat, failed : Nat]
  BY BatchCount DEF Pending, Succeeded, Failed, Thrown, Verdicts

----------------------------------------------------------------------------
(* Type correctness, which needs the bound on the attempt of a wait.        *)

\* Every step keeps the types.
LEMMA TypeStep == IInv /\ [Next]_vars => TypeOK'
<1> SUFFICES ASSUME TypeOK, PhaseInv, [Next]_vars
             PROVE  TypeOK'
  BY DEF IInv
<1> USE AttemptsPositive, NoHeader DEF TypeOK
<1>1. CASE UNCHANGED vars
  BY <1>1 DEF vars, client, service, history, Requests
<1>2. CASE SubmitEmpty
  BY <1>2, ResultType DEF SubmitEmpty, service, history, Requests
<1>3. ASSUME NEW b \in SUBSET Executions, Submit(b)
      PROVE  TypeOK'
  BY <1>3, ResultType DEF Submit, service, Phases, Requests
<1>4. CASE AuthAccepted
  BY <1>4 DEF AuthAccepted, history, Phases, Requests
<1>5. CASE AuthFails \/ AuthTimesOutOrCanceled \/ LoopCanceled \/ SendCanceled \/ WaitCanceled
  <2>1. /\ phase' = "idle"
        /\ result' \in {Thrown("faulted"), Thrown("canceled")}
        /\ UNCHANGED <<batch, attempt, bearer, delay, cancelled, service, history>>
    BY <1>5 DEF AuthFails, AuthTimesOutOrCanceled, LoopCanceled, SendCanceled, WaitCanceled, End
  <2>2. QED
    BY <2>1, ResultType DEF service, history, Phases, Requests
<1>6. CASE SendPost
  <2>1. Current \in Requests
    BY <1>6 DEF SendPost, PhaseInv, Current, Request, Requests
  <2>2. NoReply \in [kind : AnswerKinds \cup {"none"}, after : RetryAfterHeaders]
    BY DEF NoReply, RetryAfterHeaders
  <2>3. QED
    BY <1>6, <2>1, <2>2 DEF SendPost, Phases
<1>7. CASE PostAccepted \/ PostRejected
  <2>1. /\ phase' = "idle"
        /\ result' \in {Succeeded(batch), Failed(batch)}
        /\ \E k \in AnswerKinds : Take(k)
        /\ UNCHANGED <<batch, attempt, bearer, delay, cancelled, tokenLive, wire, stored,
                       called, sent, late>>
    BY <1>7 DEF PostAccepted, PostRejected, End, AnswerKinds
  <2>2. phase = "post"
    BY <1>7 DEF PostAccepted, PostRejected
  <2>3. QED
    BY <2>1, <2>2, ResultType DEF Take, NoReply, RetryAfterHeaders, Phases, PhaseInv
<1>8. CASE PostTransient \/ PostTimesOut
  <2>1. PICK after \in RetryAfterHeaders, k \in AnswerKinds \cup {"timeout"} :
          /\ RetryOrFail(after)
          /\ Take(k)
          /\ phase = "post"
          /\ UNCHANGED <<cancelled, tokenLive, wire, stored, called, sent, late>>
    BY <1>8 DEF PostTransient, PostTimesOut, AnswerKinds
  <2>2. /\ phase' \in Phases
        /\ batch' = batch /\ attempt' = attempt /\ bearer' = bearer
        /\ delay' \in Int /\ delay' =< MaxDelay
        /\ result' \in [verdict : Verdicts, posted : Nat, failed : Nat]
    BY <2>1, ResultType, DelayType DEF RetryOrFail, End, Phases, PhaseInv
  <2>3. /\ reply' \in [kind : AnswerKinds \cup {"none"}, after : RetryAfterHeaders]
        /\ taken' \subseteq [request : sent', answer : AnswerKinds \cup {"timeout"}]
    BY <2>1 DEF Take, NoReply, RetryAfterHeaders, PhaseInv
  <2>4. QED
    BY <2>1, <2>2, <2>3
<1>9. CASE PostCanceled \/ PostUnreachable
  <2>1. /\ phase' = "idle"
        /\ result' \in {Thrown("faulted"), Thrown("canceled")}
        /\ reply' = NoReply
        /\ UNCHANGED <<batch, attempt, bearer, delay, cancelled, tokenLive, wire, stored, history>>
    BY <1>9 DEF PostCanceled, PostUnreachable, End
  <2>2. QED
    BY <2>1, ResultType DEF NoReply, RetryAfterHeaders, history, Phases, Requests
<1>10. CASE WaitElapses
  BY <1>10 DEF WaitElapses, PhaseInv, service, history, Phases, Requests
<1>11. CASE CancelKeyPress
  BY <1>11 DEF CancelKeyPress, client, service, history, Requests
<1>12. CASE TokenExpires
  BY <1>12 DEF TokenExpires, client, history, Requests
<1>13. ASSUME NEW r \in wire, ServiceHandles(r)
       PROVE  TypeOK'
  <2>1. stored' \subseteq sent
    BY <1>13 DEF ServiceHandles, ServiceAccepts, ServiceRejects, ServiceFails, ServiceAnswerLost
  <2>2. reply' \in [kind : AnswerKinds \cup {"none"}, after : RetryAfterHeaders]
    BY <1>13, AnswerType DEF ServiceHandles, ServiceAccepts, ServiceRejects, ServiceFails,
         ServiceAnswerLost, Deliver, AnswerKinds
  <2>3. QED
    BY <1>13, <2>1, <2>2 DEF ServiceHandles, client, history
<1>14. CASE BeginAttempt
  BY <1>14 DEF BeginAttempt, service, history, Phases, Requests
<1>15. QED
  BY <1>1, <1>2, <1>3, <1>4, <1>5, <1>6, <1>7, <1>8, <1>9, <1>10, <1>11, <1>12, <1>13, <1>14
     DEF Next, CallStep, EnvironmentStep

----------------------------------------------------------------------------
(* The inductive invariant.                                                 *)

\* Membership in the answers taken for a request.
LEMMA TakenElement ==
  ASSUME NEW r, NEW k
  PROVE  k \in TakenFor(r) <=> \E t \in taken : t.request = r /\ t.answer = k
  BY DEF TakenFor

\* Taking an answer records it for the awaited request and for no other.
LEMMA TakeFacts ==
  ASSUME NEW CONSTANT r, NEW CONSTANT kind, Take(kind)
  PROVE  TakenFor(r)' = IF r = Current THEN TakenFor(r) \cup {kind} ELSE TakenFor(r)
<1>1. ASSUME NEW k
      PROVE  k \in TakenFor(r)' <=> \E t \in taken' : t.request = r /\ t.answer = k
  BY DEF TakenFor
<1>2. taken' = taken \cup {[request |-> Current, answer |-> kind]}
  BY DEF Take
<1>3. ASSUME NEW k
      PROVE  k \in TakenFor(r)' <=> k \in TakenFor(r) \/ (r = Current /\ k = kind)
  <2>1. (\E t \in taken' : t.request = r /\ t.answer = k)
          <=> (\E t \in taken : t.request = r /\ t.answer = k) \/ (r = Current /\ k = kind)
    <3> DEFINE new == [request |-> Current, answer |-> kind]
    <3>1. new \in taken' /\ new.request = Current /\ new.answer = kind
      BY <1>2
    <3>2. taken' = taken \cup {new}
      BY <1>2
    <3> HIDE DEF new
    <3>3. QED
      BY <3>1, <3>2
  <2>2. QED
    BY <1>1, <2>1, TakenElement
<1>4. QED
  BY <1>3

\* A position in the retry loop names the request uniquely.
LEMMA RequestInjective ==
  \A b, c, n, k : Request(b, n) = Request(c, k) => b = c /\ n = k
  BY DEF Request

----------------------------------------------------------------------------
(* The steps by what they do to the call and its history.                   *)

\* Nothing of the call, its history or what it has recorded changes.
Rests ==
    UNCHANGED <<phase, batch, attempt, result, reply, stored, called, sent, taken>>

\* The call ends with an exception.
Aborts ==
    /\ phase # "idle" /\ phase' = "idle"
    /\ result' \in {Thrown("faulted"), Thrown("canceled")}
    /\ reply' = NoReply
    /\ UNCHANGED <<batch, attempt, stored, called, sent, taken>>

\* The call ends with the verdict of the answer it took.
Settles(kind) ==
    /\ phase = "post" /\ phase' = "idle"
    /\ reply.kind = kind
    /\ Take(kind)
    /\ UNCHANGED <<batch, attempt, stored, called, sent>>

\* The call took a transient answer or a timeout.
Stumbles(kind) ==
    /\ phase = "post"
    /\ kind \in {"transient", "timeout"}
    /\ Take(kind)
    /\ \/ phase' = "idle" /\ attempt = Attempts /\ result' = Failed(batch)
       \/ phase' = "idle" /\ result' = Thrown("faulted")
       \/ phase' = "wait" /\ attempt # Attempts /\ result' = result
    /\ UNCHANGED <<batch, attempt, stored, called, sent>>

\* The service handles a request.
Handles(r) ==
    /\ r \in wire
    /\ \/ stored' = stored
       \/ stored' = stored \cup {r}
    /\ \/ reply' = reply
       \/ /\ phase = "post" /\ r = Current
          /\ reply'.kind = "ok" => r \in stored'
    /\ UNCHANGED <<phase, batch, attempt, result, called, sent, taken>>

Kinds ==
    \/ Rests
    \/ SubmitEmpty
    \/ \E b \in SUBSET Executions : Submit(b)
    \/ AuthAccepted
    \/ Aborts
    \/ BeginAttempt
    \/ SendPost
    \/ Settles("ok") /\ result' = Succeeded(batch)
    \/ Settles("rejected") /\ result' = Failed(batch)
    \/ \E kind \in {"transient", "timeout"} : Stumbles(kind)
    \/ WaitElapses
    \/ \E r \in wire : Handles(r)

\* Every step is of one of these kinds.
LEMMA StepKinds == PhaseInv /\ [Next]_vars => Kinds
<1> SUFFICES ASSUME PhaseInv, [Next]_vars
             PROVE  Kinds
  OBVIOUS
<1>1. CASE UNCHANGED vars \/ CancelKeyPress \/ TokenExpires
  <2>1. Rests
    BY <1>1 DEF vars, client, service, history, CancelKeyPress, TokenExpires, Rests
  <2>2. QED
    BY <2>1 DEF Kinds
<1>2. CASE \/ AuthFails \/ AuthTimesOutOrCanceled \/ LoopCanceled \/ SendCanceled
           \/ WaitCanceled \/ PostCanceled \/ PostUnreachable
  <2>1. Aborts
    BY <1>2 DEF AuthFails, AuthTimesOutOrCanceled, LoopCanceled, SendCanceled, WaitCanceled,
         PostCanceled, PostUnreachable, End, service, history, Aborts, PhaseInv
  <2>2. QED
    BY <2>1 DEF Kinds
<1>3. CASE PostAccepted
  <2>1. Settles("ok") /\ result' = Succeeded(batch)
    BY <1>3 DEF PostAccepted, End, Settles
  <2>2. QED
    BY <2>1 DEF Kinds
<1>4. CASE PostRejected
  <2>1. Settles("rejected") /\ result' = Failed(batch)
    BY <1>4 DEF PostRejected, End, Settles
  <2>2. QED
    BY <2>1 DEF Kinds
<1>5. CASE PostTransient \/ PostTimesOut
  <2>1. PICK kind, after :
          /\ kind \in {"transient", "timeout"}
          /\ phase = "post"
          /\ RetryOrFail(after)
          /\ Take(kind)
          /\ UNCHANGED <<stored, called, sent>>
    BY <1>5 DEF PostTransient, PostTimesOut
  <2>2. Stumbles(kind)
    BY <2>1 DEF Stumbles, RetryOrFail, LastAttempt, End
  <2>3. QED
    BY <2>1, <2>2 DEF Kinds
<1>6. ASSUME NEW r \in wire, ServiceHandles(r)
      PROVE  Kinds
  <2>1. Handles(r)
    BY <1>6 DEF ServiceHandles, ServiceAccepts, ServiceRejects, ServiceFails,
         ServiceAnswerLost, Deliver, Answer, client, history, Handles
  <2>2. QED
    BY <2>1 DEF Kinds
<1>7. QED
  BY <1>1, <1>2, <1>3, <1>4, <1>5, <1>6 DEF Next, CallStep, EnvironmentStep, Kinds

----------------------------------------------------------------------------
(* Preservation of the parts of the invariant.                              *)

\* Every step keeps what is known of the requests sent: those of the attempts so far.
LEMMA SentStep == TypeOK /\ PhaseInv /\ SentInv /\ Kinds => SentInv'
<1> SUFFICES ASSUME TypeOK, PhaseInv, SentInv, Kinds
             PROVE  SentInv'
  OBVIOUS
<1> USE DEF SentInv
<1>1. CASE Rests
  BY <1>1 DEF Rests
<1>2. CASE SubmitEmpty
  BY <1>2 DEF SubmitEmpty, history
<1>3. ASSUME NEW b \in SUBSET Executions, Submit(b)
      PROVE  SentInv'
  <2>1. b \notin called
    BY <1>3 DEF Submit
  <2>2. \A r \in sent : r.batch # b
    BY <2>1
  <2>3. QED
    BY <1>3, <2>2 DEF Submit
<1>4. CASE AuthAccepted \/ BeginAttempt
  BY <1>4 DEF AuthAccepted, BeginAttempt, history
<1>5. CASE Aborts \/ (\E kind \in {"ok", "rejected"} : Settles(kind))
           \/ (\E kind \in {"transient", "timeout"} : Stumbles(kind))
  BY <1>5 DEF Aborts, Settles, Stumbles
<1>6. CASE SendPost
  <2>1. Current.batch = batch /\ Current.attempt = attempt
    BY DEF Current, Request
  <2>2. batch \in called
    BY <1>6 DEF SendPost, PhaseInv
  <2>3. phase' = "post" /\ sent' = sent \cup {Current} /\ UNCHANGED <<batch, attempt, called>>
        /\ phase = "send"
    BY <1>6 DEF SendPost
  <2>4. attempt \in Int /\ \A r \in sent : r.attempt \in Int
    BY DEF TypeOK, Requests
  <2>5. QED
    BY <2>1, <2>2, <2>3, <2>4
<1>7. CASE WaitElapses
  <2>1. phase = "wait" /\ phase' = "loop" /\ attempt' = attempt + 1
        /\ UNCHANGED <<batch, called, sent>>
    BY <1>7 DEF WaitElapses, history
  <2>2. attempt \in Int /\ \A r \in sent : r.attempt \in Int
    BY DEF TypeOK, Requests
  <2>3. QED
    BY <2>1, <2>2
<1>8. ASSUME NEW r \in wire, Handles(r)
      PROVE  SentInv'
  BY <1>8 DEF Handles
<1>9. QED
  BY <1>1, <1>2, <1>3, <1>4, <1>5, <1>6, <1>7, <1>8 DEF Kinds

(* Every step keeps what the phases of SubmitExecutionsAsync know of the call: its batch, its
   attempt and the request it awaits. *)
LEMMA PhaseStep == TypeOK /\ PhaseInv /\ SentInv /\ Kinds => PhaseInv'
<1> SUFFICES ASSUME TypeOK, PhaseInv, SentInv, Kinds
             PROVE  PhaseInv'
  OBVIOUS
<1> USE DEF PhaseInv
<1>1. CASE Rests
  BY <1>1 DEF Rests, Current, TakenFor
<1>2. CASE SubmitEmpty
  BY <1>2 DEF SubmitEmpty, history, service, NoReply
<1>3. ASSUME NEW b \in SUBSET Executions, Submit(b)
      PROVE  PhaseInv'
  BY <1>3 DEF Submit, service, NoReply
<1>4. CASE AuthAccepted \/ BeginAttempt
  BY <1>4 DEF AuthAccepted, BeginAttempt, service, history, NoReply
<1>5. CASE Aborts \/ (\E kind \in {"ok", "rejected"} : Settles(kind))
  <2>1. phase' = "idle" /\ reply' = NoReply /\ called' = called
    BY <1>5 DEF Aborts, Settles, Take
  <2>2. QED
    BY <2>1 DEF NoReply
<1>6. ASSUME NEW kind \in {"transient", "timeout"}, Stumbles(kind)
      PROVE  PhaseInv'
  <2>1. reply' = NoReply /\ UNCHANGED <<batch, attempt, called>>
    BY <1>6 DEF Stumbles, Take
  <2>2. \/ phase' = "idle"
        \/ phase' = "wait" /\ attempt # Attempts /\ result' = result
    BY <1>6 DEF Stumbles
  <2>3. phase = "post" /\ attempt \in 1 .. Attempts
    BY <1>6, AttemptsPositive DEF Stumbles, TypeOK
  <2>4. QED
    BY <2>1, <2>2, <2>3, AttemptsPositive DEF NoReply
<1>7. CASE SendPost
  <2>1. phase = "send" /\ phase' = "post" /\ reply' = NoReply /\ sent' = sent \cup {Current}
        /\ UNCHANGED <<batch, attempt, called, taken, result>>
    BY <1>7 DEF SendPost
  <2>2. Current' = Current
    BY <2>1 DEF Current
  <2>3. Current \notin sent
    BY <2>1 DEF SentInv, Current, Request, TypeOK, Requests
  <2>4. TakenFor(Current) = {}
    BY <2>3 DEF TakenFor, TypeOK
  <2>5. TakenFor(Current)' = {}
    BY <2>1, <2>2, <2>4 DEF TakenFor
  <2>6. QED
    BY <2>1, <2>2, <2>5 DEF NoReply
<1>8. CASE WaitElapses
  BY <1>8 DEF WaitElapses, history, service, NoReply, TypeOK
<1>9. ASSUME NEW r \in wire, Handles(r)
      PROVE  PhaseInv'
  <2>1. Current' = Current
    BY <1>9 DEF Handles, Current
  <2>2. TakenFor(Current)' = TakenFor(Current)
    BY <1>9, <2>1 DEF Handles, TakenFor
  <2>3. reply'.kind = "ok" => Current' \in stored'
    BY <1>9, <2>1 DEF Handles
  <2>4. phase # "post" => reply' = NoReply
    BY <1>9 DEF Handles
  <2>5. QED
    BY <1>9, <2>1, <2>2, <2>3, <2>4 DEF Handles
<1>10. QED
  BY <1>1, <1>2, <1>3, <1>4, <1>5, <1>6, <1>7, <1>8, <1>9 DEF Kinds

\* The answers taken change only while a request is awaited, and then only for
\* that request, so what is unsettled otherwise stays so.
LEMMA TakenUnchanged ==
  ASSUME NEW CONSTANT r, UNCHANGED taken
  PROVE  Unsettled(r)' = Unsettled(r) /\ TakenFor(r)' = TakenFor(r)
  BY DEF Unsettled, TakenFor

(* A transient answer or a timeout leaves the awaited request unsettled, and every other
   request that was so. *)
LEMMA StumbleFacts ==
  ASSUME PhaseInv, NEW CONSTANT kind \in {"transient", "timeout"}, Stumbles(kind)
  PROVE  /\ Unsettled(Current)'
         /\ \A b, n : Unsettled(Request(b, n)) => Unsettled(Request(b, n))'
<1>1. Take(kind) /\ TakenFor(Current) = {} /\ UNCHANGED <<batch, attempt>>
  BY DEF Stumbles, PhaseInv
<1>2. ASSUME NEW CONSTANT r
      PROVE  TakenFor(r)' = IF r = Current THEN TakenFor(r) \cup {kind} ELSE TakenFor(r)
  BY <1>1, TakeFacts
<1>3. ASSUME NEW b, NEW n
      PROVE  Unsettled(Request(b, n)) => Unsettled(Request(b, n))'
  <2>1. TakenFor(Request(b, n))' = TakenFor(Request(b, n)) \cup {kind}
        \/ TakenFor(Request(b, n))' = TakenFor(Request(b, n))
    BY <1>2
  <2>2. QED
    BY <2>1 DEF Unsettled
<1>4. Current' = Current
  BY <1>1 DEF Current
<1>5. TakenFor(Current)' = {kind}
  <2>1. \A b, n : TakenFor(Request(b, n))'
          = IF Request(b, n) = Current THEN TakenFor(Request(b, n)) \cup {kind}
                                       ELSE TakenFor(Request(b, n))
    BY <1>2
  <2>2. TakenFor(Request(batch, attempt))' = {kind}
    BY <2>1, <1>1 DEF Current
  <2>3. QED
    BY <2>2, <1>1 DEF Current
<1>6. QED
  BY <1>3, <1>5 DEF Unsettled

(* Every step keeps the attempts behind the running call to those that met a transient answer
   or a timeout. *)
LEMMA BehindStep == TypeOK /\ PhaseInv /\ BehindInv /\ Kinds => BehindInv'
<1> SUFFICES ASSUME TypeOK, PhaseInv, BehindInv, Kinds
             PROVE  BehindInv'
  OBVIOUS
<1> USE DEF BehindInv
<1>1. CASE \/ Rests \/ SubmitEmpty \/ AuthAccepted \/ Aborts \/ BeginAttempt \/ SendPost
           \/ \E r \in wire : Handles(r)
  <2>1. UNCHANGED <<taken, attempt>>
    BY <1>1 DEF Rests, SubmitEmpty, AuthAccepted, Aborts, BeginAttempt, SendPost, Handles, history
  <2>2. \/ phase' = "idle"
        \/ batch' = batch /\ phase # "idle" /\ (phase' = "wait" => phase = "wait")
    BY <1>1 DEF Rests, SubmitEmpty, AuthAccepted, Aborts, BeginAttempt, SendPost, Handles
  <2>3. QED
    BY <2>1, <2>2, TakenUnchanged
<1>2. ASSUME NEW b \in SUBSET Executions, Submit(b)
      PROVE  BehindInv'
  BY <1>2 DEF Submit
<1>3. ASSUME NEW kind \in {"ok", "rejected"}, Settles(kind)
      PROVE  BehindInv'
  BY <1>3 DEF Settles
<1>4. ASSUME NEW kind \in {"transient", "timeout"}, Stumbles(kind)
      PROVE  BehindInv'
  <2>1. UNCHANGED <<batch, attempt>> /\ phase = "post" /\ attempt \in Nat
    BY <1>4 DEF Stumbles, TypeOK
  <2>2. ASSUME NEW n \in 1 .. attempt, n < attempt
        PROVE  Unsettled(Request(batch, n))'
    BY <1>4, <2>1, <2>2, StumbleFacts
  <2>3. Unsettled(Request(batch, attempt))'
    BY <1>4, <2>1, StumbleFacts DEF Current
  <2>4. QED
    BY <2>1, <2>2, <2>3
<1>5. CASE WaitElapses
  <2>1. phase = "wait" /\ phase' = "loop" /\ attempt' = attempt + 1 /\ UNCHANGED <<batch, taken>>
    BY <1>5 DEF WaitElapses, history
  <2>2. attempt \in Nat
    BY DEF TypeOK
  <2>3. \A n \in 1 .. attempt : Unsettled(Request(batch, n))
    BY <2>1
  <2>4. QED
    BY <2>1, <2>2, <2>3, TakenUnchanged
<1>6. QED
  BY <1>1, <1>2, <1>3, <1>4, <1>5 DEF Kinds

(* Every step keeps the repetitions earned: an attempt is sent only when all attempts before
   it met a transient answer or a timeout. *)
LEMMA RepeatsStep ==
  TypeOK /\ PhaseInv /\ SentInv /\ BehindInv /\ RepeatsAreEarned /\ Kinds => RepeatsAreEarned'
<1> SUFFICES ASSUME TypeOK, PhaseInv, SentInv, BehindInv, RepeatsAreEarned, Kinds
             PROVE  RepeatsAreEarned'
  OBVIOUS
<1> USE DEF RepeatsAreEarned
<1>1. CASE \/ Rests \/ SubmitEmpty \/ (\E b \in SUBSET Executions : Submit(b)) \/ AuthAccepted
           \/ Aborts \/ BeginAttempt \/ WaitElapses \/ (\E r \in wire : Handles(r))
  <2>1. UNCHANGED <<sent, taken>>
    BY <1>1 DEF Rests, SubmitEmpty, Submit, AuthAccepted, Aborts, BeginAttempt, WaitElapses,
       Handles, history
  <2>2. QED
    BY <2>1, TakenUnchanged
<1>2. CASE SendPost
  <2>1. sent' = sent \cup {Current} /\ UNCHANGED taken /\ phase = "send"
    BY <1>2 DEF SendPost
  <2>2. \A n \in 1 .. Current.attempt - 1 : Unsettled(Request(Current.batch, n))
    BY <2>1 DEF Current, Request, BehindInv, TypeOK
  <2>3. QED
    BY <2>1, <2>2, TakenUnchanged
<1>3. ASSUME NEW kind \in {"ok", "rejected"}, Settles(kind)
      PROVE  RepeatsAreEarned'
  <2>1. Take(kind) /\ phase = "post" /\ sent' = sent
    BY <1>3 DEF Settles
  <2>2. ASSUME NEW r \in sent, NEW n \in 1 .. r.attempt - 1
        PROVE  Request(r.batch, n) # Current
    <3>1. r.attempt =< attempt \/ r.batch # batch
      BY <2>1 DEF SentInv
    <3>2. r.attempt \in Int /\ attempt \in Int
      BY DEF TypeOK, Requests
    <3>3. QED
      BY <3>1, <3>2, RequestInjective DEF Current
  <2>3. ASSUME NEW CONSTANT r
        PROVE  r # Current => TakenFor(r)' = TakenFor(r)
    BY <2>1, TakeFacts
  <2>4. ASSUME NEW r \in sent, NEW n \in 1 .. r.attempt - 1
        PROVE  Unsettled(Request(r.batch, n))'
    <3>1. TakenFor(Request(r.batch, n))' = TakenFor(Request(r.batch, n))
      BY <2>2, <2>3
    <3>2. Unsettled(Request(r.batch, n))
      OBVIOUS
    <3>3. QED
      BY <3>1, <3>2 DEF Unsettled
  <2>5. QED
    BY <2>1, <2>4
<1>4. ASSUME NEW kind \in {"transient", "timeout"}, Stumbles(kind)
      PROVE  RepeatsAreEarned'
  BY <1>4, StumbleFacts DEF Stumbles
<1>5. QED
  BY <1>1, <1>2, <1>3, <1>4 DEF Kinds

(* Every step keeps a reported success true: the service has recorded the batch. *)
LEMMA SuccessStep == TypeOK /\ PhaseInv /\ SuccessIsStored /\ Kinds => SuccessIsStored'
<1> SUFFICES ASSUME TypeOK, PhaseInv, SuccessIsStored, Kinds
             PROVE  SuccessIsStored'
  OBVIOUS
<1> USE DEF SuccessIsStored, Pending, Thrown
<1>1. CASE Rests \/ (\E r \in wire : Handles(r))
  <2>1. UNCHANGED <<result, batch>> /\ stored \subseteq stored'
    BY <1>1 DEF Rests, Handles
  <2>2. QED
    BY <2>1
<1>2. CASE SubmitEmpty
  BY <1>2 DEF SubmitEmpty, Succeeded
<1>3. CASE \E b \in SUBSET Executions : Submit(b)
  BY <1>3 DEF Submit
<1>4. CASE AuthAccepted \/ BeginAttempt \/ SendPost \/ WaitElapses
  BY <1>4 DEF AuthAccepted, BeginAttempt, SendPost, WaitElapses, service, history
<1>5. CASE Aborts
  BY <1>5 DEF Aborts
<1>6. CASE Settles("ok") /\ result' = Succeeded(batch)
  <2>1. Current \in stored /\ Current.batch = batch
    BY <1>6 DEF Settles, PhaseInv, Current, Request
  <2>2. batch' = batch /\ stored' = stored
    BY <1>6 DEF Settles
  <2>3. result'.verdict = "success" /\ result'.posted = Cardinality(batch)
    BY <1>6 DEF Succeeded
  <2>4. QED
    BY <2>1, <2>2, <2>3
<1>7. CASE Settles("rejected") /\ result' = Failed(batch)
  BY <1>7 DEF Failed
<1>8. ASSUME NEW kind \in {"transient", "timeout"}, Stumbles(kind)
      PROVE  SuccessIsStored'
  <2>1. result' \in {Failed(batch), Thrown("faulted"), Pending}
    BY <1>8 DEF Stumbles, PhaseInv
  <2>2. QED
    BY <2>1 DEF Failed
<1>9. QED
  BY <1>1, <1>2, <1>3, <1>4, <1>5, <1>6, <1>7, <1>8 DEF Kinds

(* Every step keeps a reported failure true: the batch was refused, or no attempt is left. *)
LEMMA FailureStep ==
  TypeOK /\ PhaseInv /\ BehindInv /\ FailureIsExhausted /\ Kinds => FailureIsExhausted'
<1> SUFFICES ASSUME TypeOK, PhaseInv, BehindInv, FailureIsExhausted, Kinds
             PROVE  FailureIsExhausted'
  OBVIOUS
<1> USE DEF FailureIsExhausted
<1>1. CASE Rests \/ (\E r \in wire : Handles(r))
  <2>1. UNCHANGED <<result, batch, attempt, taken>>
    BY <1>1 DEF Rests, Handles
  <2>2. Current' = Current
    BY <2>1 DEF Current
  <2>3. TakenFor(Current)' = TakenFor(Current)
    BY <2>1, <2>2 DEF TakenFor
  <2>4. \A n \in 1 .. Attempts :
          Unsettled(Request(batch, n)) => Unsettled(Request(batch, n))'
    BY <2>1, TakenUnchanged
  <2>5. QED
    BY <2>1, <2>3, <2>4
<1>2. CASE \/ SubmitEmpty \/ (\E b \in SUBSET Executions : Submit(b)) \/ AuthAccepted
           \/ BeginAttempt \/ SendPost \/ WaitElapses \/ Aborts
           \/ (Settles("ok") /\ result' = Succeeded(batch))
  BY <1>2 DEF SubmitEmpty, Submit, AuthAccepted, BeginAttempt, SendPost, WaitElapses, Aborts,
     Succeeded, Pending, Thrown, PhaseInv
<1>3. CASE Settles("rejected") /\ result' = Failed(batch)
  <2>1. Take("rejected") /\ UNCHANGED <<batch, attempt>>
    BY <1>3 DEF Settles
  <2>2. TakenFor(Request(batch, attempt))'
          = TakenFor(Request(batch, attempt)) \cup {"rejected"}
    <3>1. \A b, n : TakenFor(Request(b, n))'
            = IF Request(b, n) = Current THEN TakenFor(Request(b, n)) \cup {"rejected"}
                                         ELSE TakenFor(Request(b, n))
      BY <2>1, TakeFacts
    <3>2. QED
      BY <3>1, <2>1 DEF Current
  <2>3. "rejected" \in TakenFor(Current)'
    BY <2>1, <2>2 DEF Current
  <2>4. QED
    BY <2>3
<1>4. ASSUME NEW kind \in {"transient", "timeout"}, Stumbles(kind)
      PROVE  FailureIsExhausted'
  <2>1. phase = "post" /\ UNCHANGED <<batch, attempt>> /\ attempt \in Nat
    BY <1>4 DEF Stumbles, TypeOK
  <2>2. CASE attempt = Attempts
    <3>1. \A n \in 1 .. Attempts : n < attempt => Unsettled(Request(batch, n))
      BY <2>1, <2>2 DEF BehindInv
    <3>2. \A n \in 1 .. Attempts : n < attempt => Unsettled(Request(batch, n))'
      BY <2>1, <3>1, <1>4, StumbleFacts
    <3>3. Unsettled(Request(batch, attempt))'
      BY <1>4, <2>1, StumbleFacts DEF Current
    <3>4. QED
      BY <2>1, <2>2, <3>2, <3>3, AttemptsPositive
  <2>3. CASE attempt # Attempts
    BY <1>4, <2>3 DEF Stumbles, Thrown, PhaseInv, Pending
  <2>4. QED
    BY <2>2, <2>3
<1>5. QED
  BY <1>1, <1>2, <1>3, <1>4 DEF Kinds

----------------------------------------------------------------------------
(* The theorems.                                                            *)

\* A client that has just been built satisfies the invariant.
LEMMA InitInv == Init => IInv
<1> SUFFICES ASSUME Init
             PROVE  IInv
  OBVIOUS
<1>1. TypeOK
  <2>1. result \in [verdict : Verdicts, posted : Nat, failed : Nat]
    BY DEF Init, Pending, Verdicts
  <2>2. reply \in [kind : AnswerKinds \cup {"none"}, after : RetryAfterHeaders]
    BY DEF Init, NoReply, RetryAfterHeaders
  <2>3. attempt \in 0 .. Attempts /\ delay \in Int /\ delay =< MaxDelay
    BY AttemptsPositive, MaxDelayAssumption DEF Init
  <2>4. wire \subseteq sent /\ stored \subseteq sent /\ sent \subseteq Requests /\ late \subseteq sent
        /\ taken \subseteq [request : sent, answer : AnswerKinds \cup {"timeout"}]
    BY DEF Init
  <2>5. phase \in Phases /\ batch \in SUBSET Executions /\ called \subseteq SUBSET Executions
        /\ bearer \in BOOLEAN /\ cancelled \in BOOLEAN /\ tokenLive \in BOOLEAN
    BY DEF Init, Phases
  <2>6. QED
    BY <2>1, <2>2, <2>3, <2>4, <2>5 DEF TypeOK
<1>2. PhaseInv /\ SentInv /\ BehindInv /\ RepeatsAreEarned
  BY DEF Init, PhaseInv, SentInv, BehindInv, RepeatsAreEarned, NoReply
<1>3. SuccessIsStored /\ FailureIsExhausted
  BY DEF Init, SuccessIsStored, FailureIsExhausted, Pending
<1>4. QED
  BY <1>1, <1>2, <1>3 DEF IInv

(* The inductive invariant of the client is kept by every step of it. *)
LEMMA StepInv == IInv /\ [Next]_vars => IInv'
<1>1. IInv /\ [Next]_vars => Kinds
  BY StepKinds DEF IInv
<1>2. QED
  BY <1>1, TypeStep, PhaseStep, SentStep, BehindStep, SuccessStep, FailureStep, RepeatsStep
     DEF IInv

\* The inductive invariant of the client holds in every reachable state.
THEOREM ClientInvariant == Spec => []IInv
  BY InitInv, StepInv, PTL DEF Spec

\* Every variable keeps its type: in particular the client never makes more
\* attempts than configured and never asks Task.Delay for a span it refuses.
THEOREM ClientTypes == Spec => []TypeOK
<1>1. IInv => TypeOK
  BY DEF IInv
<1>2. QED
  BY <1>1, ClientInvariant, PTL

\* A batch reported as posted has been recorded by the service.
THEOREM ClientSuccess == Spec => []SuccessIsStored
<1>1. IInv => SuccessIsStored
  BY DEF IInv
<1>2. QED
  BY <1>1, ClientInvariant, PTL

\* A batch is reported as failed only when it was refused or every attempt
\* was used up.
THEOREM ClientFailure == Spec => []FailureIsExhausted
<1>1. IInv => FailureIsExhausted
  BY DEF IInv
<1>2. QED
  BY <1>1, ClientInvariant, PTL

\* No batch is sent again after an answer that settled it.
THEOREM ClientRepeats == Spec => []RepeatsAreEarned
<1>1. IInv => RepeatsAreEarned
  BY DEF IInv
<1>2. QED
  BY <1>1, ClientInvariant, PTL

(* Every step keeps the late requests to one: the request that is about to leave is the first,
   and after it no attempt passes the check of the token. *)
LEMMA LateStep == LateInv /\ [Next]_vars => LateInv'
<1> SUFFICES ASSUME LateInv, [Next]_vars
             PROVE  LateInv'
  OBVIOUS
<1> USE DEF LateInv, OneLatePost
<1>1. CASE SendPost
  <2>1. phase = "send" /\ late = {} /\ phase' = "post" /\ cancelled' = cancelled
    BY <1>1 DEF SendPost
  <2>2. late' = {} \/ (cancelled /\ late' = {Current})
    BY <1>1, <2>1 DEF SendPost
  <2>3. QED
    BY <2>1, <2>2
<1>2. CASE BeginAttempt
  <2>1. ~cancelled /\ UNCHANGED late
    BY <1>2 DEF BeginAttempt, MayPost, history
  <2>2. QED
    BY <2>1
<1>3. CASE ~SendPost /\ ~BeginAttempt
  <2>1. /\ UNCHANGED late
        /\ phase' = "send" => phase = "send"
        /\ cancelled => cancelled'
    <3>1. CASE UNCHANGED vars \/ CancelKeyPress \/ TokenExpires \/ \E r \in wire : ServiceHandles(r)
      BY <3>1 DEF vars, client, history, CancelKeyPress, TokenExpires, ServiceHandles
    <3>2. CASE SubmitEmpty \/ \E b \in SUBSET Executions : Submit(b)
      BY <3>2 DEF SubmitEmpty, Submit, history
    <3>3. CASE CallStep
      BY <3>3, <1>3 DEF CallStep, AuthAccepted, AuthFails, AuthTimesOutOrCanceled, LoopCanceled,
         SendCanceled, PostAccepted, PostRejected, PostTransient, PostTimesOut, PostCanceled,
         PostUnreachable, WaitElapses, WaitCanceled, RetryOrFail, End, history
    <3>4. QED
      BY <3>1, <3>2, <3>3 DEF Next, EnvironmentStep
  <2>2. QED
    BY <2>1
<1>4. QED
  BY <1>1, <1>2, <1>3

\* At most one request leaves the client after the user has cancelled.
THEOREM ClientQuiet == Spec => []OneLatePost
<1>1. Init => LateInv
  BY DEF Init, LateInv, OneLatePost
<1>2. LateInv => OneLatePost
  BY DEF LateInv
<1>3. QED
  BY <1>1, <1>2, LateStep, PTL DEF Spec

----------------------------------------------------------------------------
(* The client implements the contract of its interface.                     *)

\* A client that has just been built has delivered nothing.
LEMMA DeliveryInit == Init => D!Init
  BY DEF Init, D!Init, Pending

(* Every step of the client is a step or a stutter of the abstract delivery. *)
LEMMA DeliveryStep == IInv /\ [Next]_vars => [D!Next]_(D!vars)
<1> SUFFICES ASSUME IInv, Kinds, [Next]_vars
             PROVE  [D!Next]_(D!vars)
  BY StepKinds DEF IInv
<1> USE DEF D!vars
<1>1. CASE Rests
  BY <1>1 DEF Rests
<1>2. CASE SubmitEmpty
  <2>1. D!CallEmpty
    BY <1>2 DEF SubmitEmpty, Succeeded, history, service, D!CallEmpty
  <2>2. QED
    BY <2>1 DEF D!Next
<1>3. ASSUME NEW b \in SUBSET Executions, Submit(b)
      PROVE  [D!Next]_(D!vars)
  <2>1. D!Call(b)
    BY <1>3 DEF Submit, service, Pending, D!Call
  <2>2. QED
    BY <2>1 DEF D!Next
<1>4. CASE AuthAccepted \/ BeginAttempt \/ SendPost \/ WaitElapses
  BY <1>4 DEF AuthAccepted, BeginAttempt, SendPost, WaitElapses, service, history
<1>5. CASE Aborts \/ (Settles("rejected") /\ result' = Failed(batch))
  <2>1. D!GiveUp
    BY <1>5 DEF Aborts, Settles, Thrown, Failed, D!GiveUp
  <2>2. QED
    BY <2>1 DEF D!Next
<1>6. CASE Settles("ok") /\ result' = Succeeded(batch)
  <2>1. Current \in stored /\ Current.batch = batch
    BY <1>6 DEF IInv, PhaseInv, Settles, Current, Request
  <2>2. D!Succeed
    BY <1>6, <2>1 DEF Settles, Succeeded, D!Succeed
  <2>3. QED
    BY <2>2 DEF D!Next
<1>7. ASSUME NEW kind \in {"transient", "timeout"}, Stumbles(kind)
      PROVE  [D!Next]_(D!vars)
  <2>1. CASE phase' = "idle"
    <3>1. D!GiveUp
      BY <1>7, <2>1 DEF Stumbles, Thrown, Failed, D!GiveUp
    <3>2. QED
      BY <3>1 DEF D!Next
  <2>2. CASE phase' = "wait"
    BY <1>7, <2>2 DEF Stumbles
  <2>3. QED
    BY <1>7, <2>1, <2>2 DEF Stumbles
<1>8. ASSUME NEW r \in wire, Handles(r)
      PROVE  [D!Next]_(D!vars)
  <2>1. r \in Requests /\ r.batch \in called
    BY DEF IInv, TypeOK, SentInv
  <2>2. r.batch \in SUBSET Executions /\ r.attempt \in 1 .. Attempts
        /\ r = [batch |-> r.batch, attempt |-> r.attempt]
    BY <2>1 DEF Requests
  <2>3. CASE stored' = stored
    BY <1>8, <2>3 DEF Handles
  <2>4. CASE stored' = stored \cup {r}
    <3>1. D!Record(r.batch, r.attempt)
      BY <1>8, <2>1, <2>2, <2>4 DEF Handles, D!Record
    <3>2. QED
      BY <2>2, <3>1 DEF D!Next
  <2>5. QED
    BY <1>8, <2>3, <2>4 DEF Handles
<1>9. QED
  BY <1>1, <1>2, <1>3, <1>4, <1>5, <1>6, <1>7, <1>8 DEF Kinds

\* SubmitExecutionsAsync implements Delivery: every run of the client against
\* any service is a run of the contract of IAquaClient.
THEOREM ClientImplementsDelivery == Spec => ImplementsDelivery
<1>1. Init => D!Init
  BY DeliveryInit
<1>2. IInv /\ [Next]_vars => [D!Next]_(D!vars)
  BY DeliveryStep
<1>3. QED
  BY <1>1, <1>2, ClientInvariant, PTL DEF Spec, ImplementsDelivery, D!Spec
=============================================================================
