----------------------------- MODULE AquaClient -----------------------------
(***************************************************************************)
(* One AquaClient object (Aqua/AquaClient.cs) and the aqua service it       *)
(* talks to.  A call of SubmitExecutionsAsync hands over one batch of       *)
(* executions; the client authenticates once per object, posts the batch,   *)
(* and posts it again after a timeout or a transient answer, waiting in     *)
(* between, until an answer settles the call or no attempt is left.         *)
(*                                                                         *)
(* The service and the network are the client's environment: a request may  *)
(* never arrive, arrive after the client has given up on it, or be applied  *)
(* although its answer is an error or is lost.                              *)
(*                                                                         *)
(* Durations are milliseconds.                                              *)
(***************************************************************************)
EXTENDS Integers, FiniteSets

CONSTANTS
    Executions,     \* the executions callers may submit
    Retries,        \* HttpOptions.Retries: the configured number of attempts
    RetryAfters,    \* spans a Retry-After header may carry
    BackoffCap,     \* the longest wait the client chooses itself (30000 in the code)
    MaxDelay        \* the longest span Task.Delay accepts (2^32 - 2 in .NET)

ASSUME ExecutionsAssumption == IsFiniteSet(Executions)
ASSUME RetriesAssumption == Retries \in Int
ASSUME RetryAftersAssumption == RetryAfters \subseteq Nat
ASSUME MaxDelayAssumption == 
    BackoffCap \in Nat /\ MaxDelay \in Nat /\ BackoffCap =< MaxDelay

VARIABLES
    \* the client object and the call it is executing
    phase,          \* where SubmitExecutionsAsync is: "idle" when no call runs
    batch,          \* the executions of the current (or last) call
    attempt,        \* the loop variable of the same name
    bearer,         \* whether _bearerToken holds a token
    delay,          \* the span DelayWithBackoffAsync waits
    result,         \* how the last call ended
    cancelled,      \* the CancellationToken
    \* the service and the network
    tokenLive,      \* whether the service still accepts the token it issued
    wire,           \* requests sent and not handled by the service
    stored,         \* requests whose executions the service has recorded
    reply,          \* the answer to the request the client awaits
    \* history
    called,         \* the batches submitted so far
    sent,           \* every request ever sent
    late,           \* those of them that left after the user had cancelled
    taken           \* the answer (or timeout) the client took for a request

client  == <<phase, batch, attempt, bearer, delay, result>>
service == <<tokenLive, wire, stored, reply>>
history == <<called, sent, late, taken>>
vars    == <<client, cancelled, service, history>>

----------------------------------------------------------------------------
(* Data.                                                                    *)

\* In "loop" an attempt is about to check the token; in "send" it has passed
\* the check and its request has not left yet.
Phases == {"idle", "auth", "loop", "send", "post", "wait"}

\* A Retry-After header: absent, a span ("delta") or a date that lies the
\* given span ahead.
RetryAfterHeaders ==
    {[form |-> "none", ms |-> 0]} \cup [form : {"delta", "date"}, ms : RetryAfters]

NoReply == [kind |-> "none", after |-> [form |-> "none", ms |-> 0]]
Answer(kind, after) == [kind |-> kind, after |-> after]

\* 2xx; any other status below 500 except 429; 429 and 5xx.
AnswerKinds == {"ok", "rejected", "transient"}

\* How a call may end: a result of either verdict, or an exception, which is
\* an OperationCanceledException or any other.
Pending == [verdict |-> "none", posted |-> 0, failed |-> 0]
Succeeded(b) == [verdict |-> "success", posted |-> Cardinality(b), failed |-> 0]
FailedAsSuccess(b) == Succeeded(b)             \* mutant: last error reported as success
Failed(b) == [verdict |-> "failure", posted |-> 0, failed |-> Cardinality(b)]
Thrown(kind) == [verdict |-> kind, posted |-> 0, failed |-> 0]

Request(b, n) == [batch |-> b, attempt |-> n]
Current == Request(batch, attempt)

----------------------------------------------------------------------------
(* The decisions of the retry loop.                                         *)

Attempts == IF Retries > 1 THEN Retries ELSE 1

LateLastAttempt(n) == n > Attempts             \* mutant: an attempt too many
EarlyLastAttempt(n) == n >= Attempts - 1       \* mutant: an attempt too few
LastAttempt(n) == n = Attempts

\* RetryAfter?.Delta: the date form of the header has no Delta.
AdvisedDelay(after) == IF after.form = "delta" THEN after.ms ELSE 0

Backoff(n) ==
    LET ms == 2 ^ (n - 1) * 1000
    IN  IF ms < BackoffCap THEN ms ELSE BackoffCap

DelayFor(n, after) ==
    IF AdvisedDelay(after) > 0 THEN AdvisedDelay(after) ELSE Backoff(n)

AlwaysPost == TRUE                             \* mutant: no cancellation check
MayPost == ~cancelled

----------------------------------------------------------------------------
Init ==
    /\ phase = "idle"
    /\ batch = {}
    /\ attempt = 0
    /\ bearer = FALSE
    /\ delay = 0
    /\ result = Pending
    /\ cancelled = FALSE
    /\ tokenLive = FALSE
    /\ wire = {}
    /\ stored = {}
    /\ reply = NoReply
    /\ called = {}
    /\ sent = {}
    /\ late = {}
    /\ taken = {}

----------------------------------------------------------------------------
(* The call.                                                                *)

\* The caller submits executions it has not submitted before.  An empty
\* batch returns at once, without authenticating.
SubmitEmpty ==
    /\ phase = "idle"
    /\ batch' = {}
    /\ result' = Succeeded({})
    /\ UNCHANGED <<phase, attempt, bearer, delay, cancelled, service, history>>

\* EnsureAuthenticatedAsync is skipped by a client that holds a token.
NeedsToken == ~bearer

Submit(b) ==
    /\ phase = "idle"
    /\ b # {}
    /\ b \cap UNION called = {}
    /\ batch' = b
    /\ called' = called \cup {b}
    /\ attempt' = 1
    /\ result' = Pending
    /\ phase' = IF NeedsToken THEN "auth" ELSE "loop"
    /\ UNCHANGED <<bearer, delay, cancelled, service, sent, late, taken>>

\* The call ends: SubmitExecutionsAsync returns or throws.
End(r) ==
    /\ phase' = "idle"
    /\ result' = r
    /\ UNCHANGED <<batch, attempt, bearer, delay>>

----------------------------------------------------------------------------
(* EnsureAuthenticatedAsync: one request for a token, never repeated.       *)

\* The token endpoint answers with a token.
AuthAccepted ==
    /\ phase = "auth"
    /\ phase' = "loop"
    /\ bearer' = TRUE
    /\ tokenLive' = TRUE
    /\ UNCHANGED <<batch, attempt, delay, result, cancelled, wire, stored, reply, history>>

\* A status that is no success (429 and 5xx are no exception here), an answer
\* without a token, or an unreachable service.
AuthFails ==
    /\ phase = "auth"
    /\ End(Thrown("faulted"))
    /\ UNCHANGED <<cancelled, service, history>>

\* The user cancels, or the request exceeds HttpClient.Timeout: SendAsync
\* throws a TaskCanceledException either way and nothing here tells them apart.
AuthTimesOutOrCanceled ==
    /\ phase = "auth"
    /\ End(Thrown("canceled"))
    /\ UNCHANGED <<cancelled, service, history>>

----------------------------------------------------------------------------
(* The loop: one POST per attempt.                                          *)

LoopCanceled ==
    /\ phase = "loop"
    /\ cancelled
    /\ End(Thrown("canceled"))
    /\ UNCHANGED <<cancelled, service, history>>

\* The check of the token at the head of the loop, and CreatePostRequest.
BeginAttempt ==
    /\ phase = "loop"
    /\ MayPost
    /\ phase' = "send"
    /\ UNCHANGED <<batch, attempt, bearer, delay, result, cancelled, service, history>>

\* SendAsync.  The user may have cancelled since the check: then it throws, if
\* it looks at the token in time, ...
SendCanceled ==
    /\ phase = "send"
    /\ cancelled
    /\ End(Thrown("canceled"))
    /\ UNCHANGED <<cancelled, service, history>>

\* ... or the request leaves all the same.
SendPost ==
    /\ phase = "send"
    /\ phase' = "post"
    /\ reply' = NoReply
    /\ wire' = wire \cup {Current}
    /\ sent' = sent \cup {Current}
    /\ late' = IF cancelled THEN late \cup {Current} ELSE late
    /\ UNCHANGED <<batch, attempt, bearer, delay, result, cancelled, tokenLive,
                   stored, called, taken>>

\* The client takes the answer, which leaves the wire for good.
Take(kind) ==
    /\ reply' = NoReply
    /\ taken' = taken \cup {[request |-> Current, answer |-> kind]}

\* What follows a transient answer or a timeout: the failure of the call when
\* no attempt is left, the exception of a span Task.Delay refuses, or the wait
\* before the next attempt.
RetryOrFail(after) ==
    \/ /\ LastAttempt(attempt)
       /\ End(Failed(batch))
    \/ /\ ~LastAttempt(attempt)
       /\ DelayFor(attempt, after) > MaxDelay
       /\ End(Thrown("faulted"))
    \/ /\ ~LastAttempt(attempt)
       /\ DelayFor(attempt, after) =< MaxDelay
       /\ phase' = "wait"
       /\ delay' = DelayFor(attempt, after)
       /\ UNCHANGED <<batch, attempt, bearer, result>>

PostAccepted ==
    /\ phase = "post"
    /\ reply.kind = "ok"
    /\ End(Succeeded(batch))
    /\ Take("ok")
    /\ UNCHANGED <<cancelled, tokenLive, wire, stored, called, sent, late>>

\* mutant: a refusal is retried
RetriedRejection ==
    /\ phase = "post"
    /\ reply.kind = "rejected"
    /\ RetryOrFail(NoReply.after)
    /\ Take("rejected")
    /\ UNCHANGED <<cancelled, tokenLive, wire, stored, called, sent, late>>

PostRejected ==
    /\ phase = "post"
    /\ reply.kind = "rejected"
    /\ End(Failed(batch))
    /\ Take("rejected")
    /\ UNCHANGED <<cancelled, tokenLive, wire, stored, called, sent, late>>

PostTransient ==
    /\ phase = "post"
    /\ reply.kind = "transient"
    /\ RetryOrFail(reply.after)
    /\ Take("transient")
    /\ UNCHANGED <<cancelled, tokenLive, wire, stored, called, sent, late>>

\* HttpClient.Timeout expires; an answer that is on its way is dropped.
PostTimesOut ==
    /\ phase = "post"
    /\ ~cancelled
    /\ RetryOrFail(NoReply.after)
    /\ Take("timeout")
    /\ UNCHANGED <<cancelled, tokenLive, wire, stored, called, sent, late>>

\* The exception filter of the timeout handler lets a user cancellation pass.
PostCanceled ==
    /\ phase = "post"
    /\ cancelled
    /\ End(Thrown("canceled"))
    /\ reply' = NoReply
    /\ UNCHANGED <<cancelled, tokenLive, wire, stored, history>>

\* The connection fails: no handler catches an HttpRequestException.
PostUnreachable ==
    /\ phase = "post"
    /\ End(Thrown("faulted"))
    /\ reply' = NoReply
    /\ UNCHANGED <<cancelled, tokenLive, wire, stored, history>>

----------------------------------------------------------------------------
(* DelayWithBackoffAsync.                                                   *)

\* mutant: the loop variable is not advanced
StuckElapse ==
    /\ phase = "wait"
    /\ phase' = "loop"
    /\ UNCHANGED <<batch, attempt, bearer, delay, result, cancelled, service, history>>

WaitElapses ==
    /\ phase = "wait"
    /\ phase' = "loop"
    /\ attempt' = attempt + 1
    /\ UNCHANGED <<batch, bearer, delay, result, cancelled, service, history>>

WaitCanceled ==
    /\ phase = "wait"
    /\ cancelled
    /\ End(Thrown("canceled"))
    /\ UNCHANGED <<cancelled, service, history>>

----------------------------------------------------------------------------
(* The environment.                                                         *)

\* Ctrl-C: the handler in Program cancels the token.
CancelKeyPress ==
    /\ ~cancelled
    /\ cancelled' = TRUE
    /\ UNCHANGED <<client, service, history>>

TokenExpires ==
    /\ tokenLive
    /\ tokenLive' = FALSE
    /\ UNCHANGED <<client, cancelled, wire, stored, reply, history>>

\* The client sees the answer to a request only while it awaits that request.
Deliver(r, answer) ==
    reply' = IF phase = "post" /\ r = Current THEN answer ELSE reply

ServiceAccepts(r) ==
    /\ tokenLive
    /\ stored' = stored \cup {r}
    /\ Deliver(r, Answer("ok", NoReply.after))

\* Any refusal that is final, 401 for an expired token among them.
ServiceRejects(r) ==
    /\ stored' = stored
    /\ Deliver(r, Answer("rejected", NoReply.after))

\* An overloaded service, or one that fails before or after it has recorded
\* the executions.
ServiceFails(r) ==
    /\ \/ stored' = stored
       \/ tokenLive /\ stored' = stored \cup {r}
    /\ \E after \in RetryAfterHeaders : Deliver(r, Answer("transient", after))

\* The executions are recorded and the answer is lost.
ServiceAnswerLost(r) ==
    /\ tokenLive
    /\ stored' = stored \cup {r}
    /\ reply' = reply

ServiceHandles(r) ==
    /\ r \in wire
    /\ wire' = wire \ {r}
    /\ ServiceAccepts(r) \/ ServiceRejects(r) \/ ServiceFails(r) \/ ServiceAnswerLost(r)
    /\ UNCHANGED <<client, cancelled, tokenLive, history>>

----------------------------------------------------------------------------
\* Every step of a call after Submit.
CallStep ==
    \/ AuthAccepted \/ AuthFails \/ AuthTimesOutOrCanceled
    \/ LoopCanceled \/ BeginAttempt \/ SendCanceled \/ SendPost
    \/ PostAccepted \/ PostRejected \/ PostTransient \/ PostTimesOut
    \/ PostCanceled \/ PostUnreachable
    \/ WaitElapses \/ WaitCanceled

EnvironmentStep ==
    \/ CancelKeyPress
    \/ TokenExpires
    \/ \E r \in wire : ServiceHandles(r)

Next ==
    \/ SubmitEmpty
    \/ \E b \in SUBSET Executions : Submit(b)
    \/ CallStep
    \/ EnvironmentStep

\* HttpClient.Timeout ends every request and Task.Delay every wait, so a call
\* that can move does.  Nothing obliges the service, the user or the caller.
Spec == Init /\ [][Next]_vars /\ WF_vars(CallStep)

----------------------------------------------------------------------------
(* Properties.                                                              *)

Verdicts == {"none", "success", "failure", "canceled", "faulted"}
Requests == [batch : SUBSET Executions, attempt : 1 .. Attempts]

\* Every variable holds a value of its kind; the attempts stay within the
\* configured number and no wait exceeds what Task.Delay accepts.
TypeOK ==
    /\ phase \in Phases
    /\ batch \in SUBSET Executions
    /\ attempt \in 0 .. Attempts
    /\ bearer \in BOOLEAN
    /\ delay \in Int /\ delay =< MaxDelay
    /\ result \in [verdict : Verdicts, posted : Nat, failed : Nat]
    /\ cancelled \in BOOLEAN
    /\ tokenLive \in BOOLEAN
    /\ wire \subseteq sent
    /\ stored \subseteq sent
    /\ reply \in [kind : AnswerKinds \cup {"none"}, after : RetryAfterHeaders]
    /\ called \subseteq SUBSET Executions
    /\ sent \subseteq Requests
    /\ late \subseteq sent
    /\ taken \subseteq [request : sent, answer : AnswerKinds \cup {"timeout"}]

TakenFor(r) == {t.answer : t \in {x \in taken : x.request = r}}

\* The client got nothing for request r that settles a call.
Unsettled(r) == TakenFor(r) # {} /\ TakenFor(r) \subseteq {"transient", "timeout"}

\* A call reported as successful has left its executions in the service, as
\* many as it reports; no other end of a call reports posted executions.
SuccessIsStored ==
    /\ result.verdict = "success" =>
         /\ result.posted = Cardinality(batch)
         /\ batch # {} => \E r \in stored : r.batch = batch
    /\ result.verdict # "success" => result.posted = 0

\* A call is reported as failed only when the service refused the batch for
\* good, or when every configured attempt was made and none was answered by
\* anything but a transient error or a timeout.
FailureIsExhausted ==
    result.verdict = "failure" =>
        \/ "rejected" \in TakenFor(Current)
        \/ \A n \in 1 .. Attempts : Unsettled(Request(batch, n))

\* A batch is posted again only after each earlier attempt met a transient
\* answer or a timeout: a settled batch is never sent twice.
RepeatsAreEarned ==
    \A r \in sent : \A n \in 1 .. r.attempt - 1 : Unsettled(Request(r.batch, n))

\* What the phases know: a running call has a batch of its own and no result;
\* past authentication its attempt is one of the configured ones, and the one
\* it awaits has been sent.
PhaseInv ==
    /\ phase # "idle" => batch \in called /\ result = Pending
    /\ phase = "auth" => attempt = 1
    /\ phase \in {"loop", "send", "post", "wait"} => attempt >= 1
    /\ phase = "wait" => attempt < Attempts
    /\ phase = "post" => Current \in sent /\ TakenFor(Current) = {}
    /\ {} \notin called
    /\ phase # "post" => reply = NoReply
    /\ reply.kind = "ok" => Current \in stored

\* The requests sent for the running call are those of the attempts so far.
SentInv ==
    /\ \A r \in sent : r.batch \in called
    /\ \A r \in sent : r.batch = batch /\ phase # "idle" => r.attempt =< attempt
    /\ \A r \in sent : r.batch = batch /\ phase \in {"auth", "loop", "send"} => r.attempt < attempt

\* Every attempt the running call has behind it met a transient answer or a
\* timeout.
BehindInv ==
    \A n \in 1 .. attempt :
        phase = "wait" \/ (phase # "idle" /\ n < attempt) => Unsettled(Request(batch, n))

\* The inductive invariant behind the three above: the answers taken so far
\* are exactly what the position in the retry loop says they are.
IInv ==
    /\ TypeOK
    /\ PhaseInv
    /\ SentInv
    /\ BehindInv
    /\ SuccessIsStored
    /\ FailureIsExhausted
    /\ RepeatsAreEarned

\* At most one request leaves the client after the user has cancelled, over all
\* its attempts and calls: the one whose check of the token came before the
\* cancellation and whose SendAsync came after it.
OneLatePost == \A r, q \in late : r = q

\* Why one: a late request leaves "send" for good, for no attempt begins any more.
LateInv ==
    /\ late # {} => cancelled /\ phase # "send"
    /\ OneLatePost

\* Every call ends: no answer, lost answer or sequence of transient errors
\* keeps the caller waiting for ever.
CallsEnd == phase # "idle" ~> phase = "idle"

\* The client implements the contract of its interface: what it reports as
\* posted has been recorded, at most once per attempt.
D == INSTANCE Delivery WITH
        Limit <- Attempts,
        verdict <- result.verdict,
        running <- (phase # "idle"),
        copies <- stored
ImplementsDelivery == D!Spec

\* docs/requirements.md:333-335: one execution per mapped test is created.
OneExecutionPerTest ==
    \A r, q \in stored : r.batch \cap q.batch # {} => r = q
=============================================================================
