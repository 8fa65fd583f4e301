------------------------ MODULE ImportRunCountProofs ------------------------
(***************************************************************************)
(* Proofs about what a run has done when it is over, for every layout,      *)
(* every content of the files and every configuration of the client: its    *)
(* counters are earned, a zero means that all is recorded, and the parts    *)
(* keep their types together.  What the client of each call knows, and what *)
(* the pipeline keeps of it afterwards.                                     *)
(***************************************************************************)
EXTENDS ImportRunProofs

----------------------------------------------------------------------------
(* What a call knows of its batch.                                          *)

\* The service has the batch b.
Recorded(b) == \E r \in stored : r.batch = b

\* The client has got nothing for the request but transient answers and
\* timeouts, and at least one of them.
Tried(r) ==
    /\ \E t \in taken : t.request = r
    /\ \A t \in taken : t.request = r => t.answer \in {"transient", "timeout"}

\* The service refused the batch b, or every attempt at it was in vain.
Refused(b) ==
    \/ \E t \in taken : t.request.batch = b /\ t.answer = "rejected"
    \/ \A n \in 1 .. C!Attempts : Tried(C!Request(b, n))

\* The answers taken so far are those of the attempts behind the call, each of
\* them transient or a timeout; an accepting answer is there only for a
\* recorded batch; and the result of a call that has ended is earned.
AnswersInv ==
    /\ attempt \in Nat
    /\ phase # "idle" => batch \in called
    /\ reply.kind # "none" => phase = "post"
    /\ reply.kind = "ok" => Recorded(batch)
    /\ \A t \in taken :
         /\ t.request.batch \in called /\ t.request.attempt \in Nat
         /\ t.request.batch = batch /\ phase # "idle" =>
              t.request.attempt < attempt \/ (phase = "wait" /\ t.request.attempt = attempt)
    /\ \A n \in Nat \ {0} :
         (phase # "idle" /\ n < attempt) \/ (phase = "wait" /\ n = attempt) =>
           Tried(C!Request(batch, n))
    /\ phase = "idle" =>
         /\ result.verdict = "success" => Recorded(batch)
         /\ result.verdict = "failure" => Refused(batch)

\* The client says Unsettled for the same.
LEMMA UnsettledMeansTried == \A r : C!Unsettled(r) <=> Tried(r)
  BY DEF C!Unsettled, C!TakenFor, Tried

\* A request is its batch and its attempt.
LEMMA RequestParts ==
  \A b, n : C!Request(b, n).batch = b /\ C!Request(b, n).attempt = n
  BY DEF C!Request

\* A run starts without answers.
LEMMA AnswersInit == Init => AnswersInv
  BY DEF Init, C!Init, AnswersInv, C!NoReply, C!Pending

\* A new call has no answers: its batch has not been submitted before.
LEMMA AnswersSubmit ==
  ASSUME AnswersInv, NEW b, C!Submit(b)
  PROVE  AnswersInv' /\ b \notin called /\ stored' = stored /\ taken' = taken
         /\ called' = called \cup {b} /\ batch' = b
<1>1. /\ phase = "idle" /\ phase' \in {"auth", "loop"} /\ attempt' = 1 /\ batch' = b
      /\ called' = called \cup {b} /\ UNCHANGED <<stored, reply, taken>>
  BY DEF C!Submit, C!service
<1>2. b \notin called
  BY DEF C!Submit
<1>3. reply.kind = "none"
  BY <1>1 DEF AnswersInv
<1>4. \A t \in taken : t.request.batch \in called /\ t.request.attempt \in Nat
  BY DEF AnswersInv
<1>5. AnswersInv'
  BY <1>1, <1>2, <1>3, <1>4 DEF AnswersInv
<1>6. QED
  BY <1>1, <1>2, <1>5

\* What happens to the answers of a call in one of its steps: nothing, or the
\* awaited answer is added to them.
Added(k) ==
    /\ phase = "post"
    /\ taken' = taken \cup {[request |-> C!Current, answer |-> k]}
    /\ reply'.kind = "none"
    /\ UNCHANGED <<batch, attempt, stored, called>>

\* Where no answer is taken, what was tried stays tried.
LEMMA TriedRests ==
  ASSUME taken' = taken
  PROVE  /\ \A r : Tried(r) => Tried(r)'
         /\ \A b : Refused(b) => Refused(b)'
  BY DEF Tried, Refused, C!Attempts, C!Request

\* An answer changes nothing for the other requests, and a transient one makes
\* its own request a tried one.
LEMMA TriedAdded ==
  ASSUME AnswersInv, NEW CONSTANT k, Added(k)
  PROVE  /\ \A n : n # attempt \/ k \in {"transient", "timeout"} =>
              (Tried(C!Request(batch, n)) => Tried(C!Request(batch, n))')
         /\ k \in {"transient", "timeout"} => Tried(C!Request(batch, attempt))'
         /\ \A b : b # batch /\ Refused(b) => Refused(b)'
<1> DEFINE new == [request |-> C!Current, answer |-> k]
<1>1. /\ new.request = C!Request(batch, attempt) /\ new.answer = k
      /\ taken' = taken \cup {new}
  BY DEF Added, C!Current
<1>2. /\ phase = "post" /\ UNCHANGED <<batch, attempt>>
      /\ \A t \in taken : t.request # C!Request(batch, attempt)
  BY RequestParts DEF Added, AnswersInv
<1> HIDE DEF new
<1>3. ASSUME NEW CONSTANT r, r # C!Request(batch, attempt), Tried(r)
      PROVE  Tried(r)'
  BY <1>1, <1>3 DEF Tried
<1>4. ASSUME k \in {"transient", "timeout"}, NEW CONSTANT r, r = C!Request(batch, attempt)
      PROVE  Tried(r)'
  BY <1>1, <1>2, <1>4 DEF Tried
<1>5. QED
  BY <1>1, <1>2, <1>3, <1>4, RequestParts DEF Refused

\* The steps of a call by what they do to its answers.
CallKinds ==
    \/ /\ \/ phase = "auth" /\ phase' = "loop" /\ reply' = reply      \* a token
          \/ phase = "loop" /\ phase' = "send" /\ reply' = reply      \* an attempt
          \/ phase = "send" /\ phase' = "post" /\ reply'.kind = "none" \* a request
       /\ UNCHANGED <<batch, attempt, result, stored, called, taken>>
    \/ /\ phase # "idle" /\ phase' = "idle"                          \* an exception
       /\ (reply' = reply /\ phase # "post") \/ reply'.kind = "none"
       /\ result'.verdict \notin {"success", "failure"}
       /\ UNCHANGED <<batch, attempt, stored, called, taken>>
    \/ Added("ok") /\ phase' = "idle" /\ reply.kind = "ok" /\ result'.verdict = "success"
    \/ Added("rejected") /\ phase' = "idle" /\ result'.verdict = "failure"
    \/ \E k \in {"transient", "timeout"} :
         /\ Added(k)
         /\ \/ phase' = "idle" /\ result'.verdict = "failure" /\ attempt = C!Attempts
            \/ phase' = "idle" /\ result'.verdict = "faulted"
            \/ phase' = "wait"
    \/ /\ phase = "wait" /\ phase' = "loop" /\ attempt' = attempt + 1
       /\ UNCHANGED <<batch, reply, stored, called, taken>>

\* Every step of a call is of one of these kinds.
LEMMA CallStepKinds ==
  ASSUME C!CallStep
  PROVE  CallKinds
<1> USE DEF C!End, C!service, C!history, C!NoReply, C!Thrown, C!Succeeded, C!Failed
<1>1. CASE C!AuthAccepted \/ C!BeginAttempt
  BY <1>1 DEF C!AuthAccepted, C!BeginAttempt, CallKinds
<1>2. CASE \/ C!AuthFails \/ C!AuthTimesOutOrCanceled \/ C!LoopCanceled \/ C!SendCanceled
           \/ C!WaitCanceled
  BY <1>2 DEF C!AuthFails, C!AuthTimesOutOrCanceled, C!LoopCanceled, C!SendCanceled,
     C!WaitCanceled, CallKinds
<1>3. CASE C!SendPost
  BY <1>3 DEF C!SendPost, CallKinds
<1>4. CASE C!PostAccepted
  <2>1. Added("ok")
    BY <1>4 DEF C!PostAccepted, C!Take, Added
  <2>2. QED
    BY <1>4, <2>1 DEF C!PostAccepted, CallKinds
<1>5. CASE C!PostRejected
  <2>1. Added("rejected")
    BY <1>5 DEF C!PostRejected, C!Take, Added
  <2>2. QED
    BY <1>5, <2>1 DEF C!PostRejected, CallKinds
<1>6. CASE C!PostTransient \/ C!PostTimesOut
  <2>1. PICK k \in {"transient", "timeout"} : C!Take(k) /\ \E after : C!RetryOrFail(after)
    BY <1>6 DEF C!PostTransient, C!PostTimesOut
  <2>2. phase = "post" /\ UNCHANGED <<stored, called>>
    BY <1>6 DEF C!PostTransient, C!PostTimesOut
  <2>3. Added(k)
    BY <2>1, <2>2 DEF C!Take, C!RetryOrFail, Added
  <2>4. \/ phase' = "idle" /\ result'.verdict = "failure" /\ attempt = C!Attempts
        \/ phase' = "idle" /\ result'.verdict = "faulted"
        \/ phase' = "wait"
    BY <2>1 DEF C!RetryOrFail, C!LastAttempt
  <2>5. QED
    BY <2>3, <2>4 DEF CallKinds
<1>7. CASE C!PostCanceled \/ C!PostUnreachable
  BY <1>7 DEF C!PostCanceled, C!PostUnreachable, CallKinds
<1>8. CASE C!WaitElapses
  BY <1>8 DEF C!WaitElapses, CallKinds
<1>9. QED
  BY <1>1, <1>2, <1>3, <1>4, <1>5, <1>6, <1>7, <1>8 DEF C!CallStep

\* Every step of a call keeps what the call knows of its batch, and what has
\* been found out about other batches.
LEMMA AnswersCall ==
  ASSUME AnswersInv, CallKinds
  PROVE  AnswersInv' /\ UNCHANGED <<batch, stored, called>> /\ phase # "idle"
         /\ \A b : b # batch /\ Refused(b) => Refused(b)'
<1>1. CASE UNCHANGED <<batch, attempt, result, stored, called, taken>>
           /\ \/ phase = "auth" /\ phase' = "loop" /\ reply' = reply
              \/ phase = "loop" /\ phase' = "send" /\ reply' = reply
              \/ phase = "send" /\ phase' = "post" /\ reply'.kind = "none"
  BY <1>1, TriedRests, RequestParts DEF AnswersInv, Recorded
<1>2. CASE /\ phase # "idle" /\ phase' = "idle"
           /\ (reply' = reply /\ phase # "post") \/ reply'.kind = "none"
           /\ result'.verdict \notin {"success", "failure"}
           /\ UNCHANGED <<batch, attempt, stored, called, taken>>
  BY <1>2, TriedRests DEF AnswersInv
<1>3. ASSUME NEW CONSTANT k, Added(k)
      PROVE  /\ attempt' \in Nat /\ batch' \in called' /\ phase = "post"
             /\ reply'.kind = "none" /\ UNCHANGED <<batch, attempt, stored, called>>
             /\ \A t \in taken' :
                  /\ t.request.batch \in called' /\ t.request.attempt \in Nat
                  /\ t.request.batch = batch' => t.request.attempt =< attempt'
             /\ \A n \in Nat \ {0} : n < attempt => Tried(C!Request(batch, n))'
             /\ \A b : b # batch /\ Refused(b) => Refused(b)'
  <2>1. /\ attempt \in Nat /\ batch \in called /\ phase = "post"
        /\ reply'.kind = "none" /\ UNCHANGED <<batch, attempt, stored, called>>
    BY <1>3 DEF AnswersInv, Added
  <2>2. ASSUME NEW t \in taken'
        PROVE  /\ t.request.batch \in called' /\ t.request.attempt \in Nat
               /\ t.request.batch = batch' => t.request.attempt =< attempt'
    <3>1. CASE t \in taken
      BY <2>1, <3>1 DEF AnswersInv
    <3>2. CASE t.request = C!Current
      BY <2>1, <3>2, RequestParts DEF C!Current
    <3>3. QED
      BY <1>3, <3>1, <3>2 DEF Added
  <2>3. \A n \in Nat \ {0} : n < attempt => Tried(C!Request(batch, n)) /\ n # attempt
    BY <2>1 DEF AnswersInv
  <2>4. QED
    BY <1>3, <2>1, <2>2, <2>3, TriedAdded
<1>4. CASE Added("ok") /\ phase' = "idle" /\ reply.kind = "ok" /\ result'.verdict = "success"
  <2>1. Recorded(batch)'
    BY <1>3, <1>4 DEF AnswersInv, Recorded
  <2>2. QED
    BY <1>3, <1>4, <2>1 DEF AnswersInv
<1>5. CASE Added("rejected") /\ phase' = "idle" /\ result'.verdict = "failure"
  <2>1. Refused(batch)'
    <3> DEFINE new == [request |-> C!Current, answer |-> "rejected"]
    <3>1. new \in taken' /\ new.request.batch = batch /\ new.answer = "rejected"
          /\ batch' = batch
      BY <1>5, RequestParts DEF Added, C!Current
    <3> HIDE DEF new
    <3>2. QED
      BY <3>1 DEF Refused
  <2>2. QED
    BY <1>3, <1>5, <2>1 DEF AnswersInv
<1>6. ASSUME NEW CONSTANT k \in {"transient", "timeout"}, Added(k),
             \/ phase' = "idle" /\ result'.verdict = "failure" /\ attempt = C!Attempts
             \/ phase' = "idle" /\ result'.verdict = "faulted"
             \/ phase' = "wait"
      PROVE  AnswersInv'
  <2>1. Tried(C!Request(batch, attempt))'
    BY <1>6, TriedAdded
  <2>2. \A n \in Nat \ {0} : n =< attempt => Tried(C!Request(batch, n))'
    BY <1>3, <1>6, <2>1
  <2>3. attempt = C!Attempts => Refused(batch)'
    BY <1>3, <1>6, <2>2 DEF Refused, C!Attempts
  <2>4. QED
    BY <1>3, <1>6, <2>2, <2>3 DEF AnswersInv
<1>7. CASE /\ phase = "wait" /\ phase' = "loop" /\ attempt' = attempt + 1
           /\ UNCHANGED <<batch, reply, stored, called, taken>>
  <2>1. \A n \in Nat \ {0} : n < attempt + 1 => n < attempt \/ n = attempt
    BY DEF AnswersInv
  <2>2. QED
    BY <1>7, <2>1, TriedRests DEF AnswersInv
<1>8. QED
  BY <1>1, <1>2, <1>3, <1>4, <1>5, <1>6, <1>7, TriedRests DEF CallKinds, Added

\* The service adds to what it holds, and lets the client see an answer only
\* while it awaits one, an accepting one only for what it has recorded.
LEMMA AnswersService ==
  ASSUME AnswersInv, C!TokenExpires \/ \E r \in wire : C!ServiceHandles(r)
  PROVE  /\ AnswersInv' /\ stored \subseteq stored'
         /\ UNCHANGED <<phase, batch, result, called, taken>>
<1> USE DEF C!client, C!history
<1>1. CASE C!TokenExpires
  <2>1. UNCHANGED <<phase, batch, attempt, result, stored, reply, called, taken>>
    BY <1>1 DEF C!TokenExpires
  <2>2. QED
    BY <2>1, TriedRests DEF AnswersInv, Recorded
<1>2. ASSUME NEW r \in wire, C!ServiceHandles(r)
      PROVE  /\ AnswersInv' /\ stored \subseteq stored'
             /\ UNCHANGED <<phase, batch, result, called, taken>>
  <2>1. UNCHANGED <<phase, batch, attempt, result, called, taken>>
    BY <1>2 DEF C!ServiceHandles
  <2>2. stored \subseteq stored'
    BY <1>2 DEF C!ServiceHandles, C!ServiceAccepts, C!ServiceRejects, C!ServiceFails,
         C!ServiceAnswerLost
  <2>3. \/ reply' = reply
        \/ phase = "post" /\ (reply'.kind = "ok" => r = C!Current /\ r \in stored')
    BY <1>2 DEF C!ServiceHandles, C!ServiceAccepts, C!ServiceRejects, C!ServiceFails,
         C!ServiceAnswerLost, C!Deliver, C!Answer
  <2>4. Recorded(batch) => Recorded(batch)'
    BY <2>1, <2>2 DEF Recorded
  <2>5. reply'.kind = "ok" => Recorded(batch)'
    BY <2>1, <2>3, <2>4, RequestParts DEF AnswersInv, Recorded, C!Current
  <2>6. reply'.kind # "none" => phase' = "post"
    BY <2>1, <2>3 DEF AnswersInv
  <2>7. QED
    BY <2>1, <2>2, <2>4, <2>5, <2>6, TriedRests DEF AnswersInv
<1>3. QED
  BY <1>1, <1>2

----------------------------------------------------------------------------
(* What the pipeline keeps of the calls.                                    *)

\* A verdict comes from a call for its group: there is none while groups still
\* grow, the call under way is for a batch no verdict is about, and what the
\* verdicts say is earned.
VerdictsInv ==
    /\ verdicts \in [Scenarios -> {"none", "success", "failure"}]
    /\ pc \in {"discover", "file", "parse", "test"} =>
         \A s \in Scenarios : verdicts[s] = "none"
    /\ pc = "await" =>
         /\ current \in Scenarios /\ batch = groups[current] /\ batch \in called
         /\ \A s \in Scenarios : verdicts[s] # "none" => groups[s] # batch
    /\ \A s \in Scenarios :
         /\ verdicts[s] # "none" => groups[s] \in called
         /\ verdicts[s] = "success" => Recorded(groups[s])
         /\ verdicts[s] = "failure" => Refused(groups[s])

\* A run starts without verdicts.
LEMMA VerdictsInit == Init => VerdictsInv
  BY DEF Init, I!Init, VerdictsInv

\* The pipeline by itself changes groups only before there are verdicts, and
\* gives none.
LEMMA VerdictsRest ==
  ASSUME I!PipelineStep
  PROVE  verdicts' = verdicts
BY DEF I!PipelineStep, I!BeginFile, I!LoopCanceled, I!Parse, I!ParseFails, I!MapTest,
     I!SkipTest, I!FailTest, I!EndFile, I!HandleDryRun, I!BeginSubmit, I!EndSubmit,
     I!Return, I!Throw, I!submitting

\* What the verdicts say is kept where groups and verdicts rest, what was
\* called and recorded stays so, and a refusal of a group stays one.
LEMMA VerdictsKept ==
  ASSUME VerdictsInv, groups' = groups, verdicts' = verdicts,
         called \subseteq called', stored \subseteq stored',
         \A s \in Scenarios : verdicts[s] = "failure" /\ Refused(groups[s]) => Refused(groups[s])'
  PROVE  \A s \in Scenarios :
           /\ verdicts'[s] # "none" => groups'[s] \in called'
           /\ verdicts'[s] = "success" => Recorded(groups[s])'
           /\ verdicts'[s] = "failure" => Refused(groups[s])'
BY DEF VerdictsInv, Recorded

\* Every step keeps what is known of the calls and what is kept of them.
LEMMA CountsKeep ==
  AnswersInv /\ VerdictsInv /\ CallInv /\ [Next]_vars => AnswersInv' /\ VerdictsInv'
<1> SUFFICES ASSUME AnswersInv, VerdictsInv, CallInv, [Next]_vars
             PROVE  AnswersInv' /\ VerdictsInv'
  OBVIOUS
<1>a. ASSUME UNCHANGED caller
      PROVE  /\ AnswersInv' /\ UNCHANGED <<batch, called, stored, taken>>
             /\ \A b : Refused(b) => Refused(b)'
  <2>1. UNCHANGED <<phase, batch, attempt, result, stored, reply, called, taken>>
    BY <1>a DEF caller
  <2>2. QED
    BY <2>1, TriedRests DEF AnswersInv, Recorded
<1>1. CASE UNCHANGED <<pipeline, caller>>
  <2>1. UNCHANGED <<pc, groups, current, verdicts>>
    BY <1>1 DEF pipeline
  <2>2. QED
    BY <1>1, <1>a, <2>1, VerdictsKept DEF VerdictsInv
<1>2. CASE Discover
  <2>1. /\ pc = "discover" /\ pc' \in {"file", "ended"} /\ UNCHANGED caller
        /\ UNCHANGED <<groups, verdicts>>
    BY <1>2 DEF Discover, I!Discover, I!DiscoverCanceled, I!DiscoverFails, I!Throw,
         I!collecting, I!submitting
  <2>2. QED
    BY <1>a, <2>1 DEF VerdictsInv
<1>3. CASE PipelineStep
  <2>1. UNCHANGED caller /\ verdicts' = verdicts /\ pc' # "await" /\ pc' # "discover"
        /\ (pc # "test" => groups' = groups)
        /\ (pc' \in {"file", "parse", "test"} => pc \in {"file", "parse", "test"})
    BY <1>3, GroupsRest, VerdictsRest DEF PipelineStep
  <2>2. CASE pc = "test"
    BY <1>a, <2>1, <2>2 DEF VerdictsInv
  <2>3. CASE pc # "test"
    BY <1>a, <2>1, <2>3, VerdictsKept DEF VerdictsInv
  <2>4. QED
    BY <2>2, <2>3
<1>4. ASSUME NEW s \in Scenarios, SubmitGroup(s)
      PROVE  AnswersInv' /\ VerdictsInv'
  <2>1. /\ pc' = "await" /\ current' = s /\ UNCHANGED <<groups, verdicts>>
        /\ C!Submit(groups[s])
    BY <1>4 DEF SubmitGroup, I!SubmitGroup, I!collecting
  <2>2. /\ AnswersInv' /\ groups[s] \notin called /\ called' = called \cup {groups[s]}
        /\ batch' = groups[s] /\ stored' = stored /\ taken' = taken
    BY <2>1, AnswersSubmit
  <2>3. \A b : Refused(b) => Refused(b)'
    BY <2>2, TriedRests
  <2>4. QED
    BY <2>1, <2>2, <2>3, VerdictsKept DEF VerdictsInv
<1>5. CASE ClientStep
  <2>1. UNCHANGED <<pc, groups, current, verdicts>> /\ C!CallStep
    BY <1>5 DEF ClientStep, pipeline
  <2>2. /\ AnswersInv' /\ UNCHANGED <<batch, stored, called>> /\ phase # "idle"
        /\ \A b : b # batch /\ Refused(b) => Refused(b)'
    BY <2>1, CallStepKinds, AnswersCall
  <2>3. pc = "await"
    BY <2>2 DEF CallInv
  <2>4. \A s \in Scenarios :
          verdicts[s] = "failure" /\ Refused(groups[s]) => Refused(groups[s])'
    <3>1. \A s \in Scenarios : verdicts[s] = "failure" => groups[s] # batch
      BY <2>3 DEF VerdictsInv
    <3>2. groups' = groups
      BY <2>1
    <3>3. QED
      BY <2>2, <3>1, <3>2
  <2>5. QED
    BY <2>1, <2>2, <2>3, <2>4, VerdictsKept DEF VerdictsInv
<1>6. CASE ClientReturns
  <2>1. /\ pc = "await" /\ phase = "idle" /\ UNCHANGED <<groups, caller>>
        /\ pc' \in {"submit", "ended"}
    BY <1>6 DEF ClientReturns, I!GroupPosted, I!GroupFailed, I!GroupThrows, I!Throw, I!collecting
  <2>2. /\ current \in Scenarios /\ batch = groups[current] /\ batch \in called
        /\ result.verdict = "success" => Recorded(batch)
        /\ result.verdict = "failure" => Refused(batch)
    BY <2>1 DEF VerdictsInv, AnswersInv
  <2>3. \/ verdicts' = verdicts
        \/ /\ result.verdict \in {"success", "failure"}
           /\ verdicts' = [verdicts EXCEPT ![current] = result.verdict]
    BY <1>6 DEF ClientReturns, I!GroupPosted, I!GroupFailed, I!GroupThrows, I!submitting
  <2>4. CASE verdicts' = verdicts
    BY <1>a, <2>1, <2>4, VerdictsKept DEF VerdictsInv
  <2>5. CASE /\ result.verdict \in {"success", "failure"}
             /\ verdicts' = [verdicts EXCEPT ![current] = result.verdict]
    <3>1. /\ verdicts' \in [Scenarios -> {"none", "success", "failure"}]
          /\ \A s \in Scenarios :
               verdicts'[s] = IF s = current THEN result.verdict ELSE verdicts[s]
      BY <2>5 DEF VerdictsInv
    <3>2. ASSUME NEW CONSTANT s \in Scenarios
          PROVE  /\ verdicts'[s] # "none" => groups'[s] \in called'
                 /\ verdicts'[s] = "success" => Recorded(groups[s])'
                 /\ verdicts'[s] = "failure" => Refused(groups[s])'
      <4>1. /\ verdicts'[s] # "none" => groups[s] \in called
            /\ verdicts'[s] = "success" => Recorded(groups[s])
            /\ verdicts'[s] = "failure" => Refused(groups[s])
        BY <2>2, <3>1 DEF VerdictsInv
      <4>2. /\ groups' = groups /\ called' = called /\ stored' = stored
            /\ Refused(groups[s]) => Refused(groups[s])'
        BY <1>a, <2>1, TriedRests DEF Refused, Tried
      <4>3. QED
        BY <4>1, <4>2 DEF Recorded
    <3>3. QED
      BY <1>a, <2>1, <3>1, <3>2 DEF VerdictsInv
  <2>6. QED
    BY <2>3, <2>4, <2>5
<1>7. CASE ServiceStep
  <2>1. UNCHANGED <<pc, groups, current, verdicts>>
    BY <1>7 DEF ServiceStep, pipeline
  <2>2. /\ AnswersInv' /\ stored \subseteq stored'
        /\ UNCHANGED <<phase, batch, result, called, taken>>
    BY <1>7, AnswersService DEF ServiceStep
  <2>3. QED
    BY <2>1, <2>2, TriedRests, VerdictsKept DEF VerdictsInv
<1>8. QED
  BY <1>1, <1>2, <1>3, <1>4, <1>5, <1>6, <1>7 DEF Next, ProcessStep, vars, Gone,
     RejectConfiguration, Start, Exit, SearchStep, StdinStep, CancelKeyPress

\* However the service and the network behave: what the run counts as posted
\* has been recorded, and what it counts as failed was refused or met errors
\* to the last attempt.
THEOREM RunEarnsCounts == Spec => []CountsAreEarned
<1>1. VerdictsInv => CountsAreEarned
  <2> SUFFICES ASSUME VerdictsInv, NEW s \in Scenarios
               PROVE  /\ verdicts[s] = "success" => \E r \in stored : r.batch = groups[s]
                      /\ verdicts[s] = "failure" =>
                           \/ \E t \in taken : t.request.batch = groups[s]
                                               /\ t.answer = "rejected"
                           \/ \A n \in 1 .. C!Attempts : C!Unsettled(C!Request(groups[s], n))
    BY DEF CountsAreEarned
  <2>1. QED
    BY UnsettledMeansTried DEF VerdictsInv, Recorded, Refused
<1>2. QED
  BY <1>1, AnswersInit, VerdictsInit, CountsKeep, CallInit, CallKeeps, PTL DEF Spec

----------------------------------------------------------------------------
(* What a run that returns zero has recorded.                               *)

\* The files of the pipeline are what the parser makes of what was discovered.
FilesTaken ==
    /\ at = "returned"
    /\ files = [i \in 1 .. Len(results) |-> Content[results[i]]]

Passed(f, t) == f < file \/ (f = file /\ t < pos)

\* Test case t of file f is in one of the groups of S.
Grouped(S, f, t) == \E s \in S : <<f, t>> \in groups[s]
Successful == {s \in Scenarios : verdicts[s] = "success"}

\* Every test case behind the loops is in a group or counts as skipped, every
\* group is still to do, at the client or has its verdict, and a failure counts.
CollectedInv ==
    /\ skipped \in Nat /\ failed \in Nat
    /\ files \in Seq(I!Files)
    /\ groups \in [Scenarios -> SUBSET I!Positions] /\ \A s \in Scenarios : IsFiniteSet(groups[s])
    /\ pc = "discover" => \A s \in Scenarios : groups[s] = {}
    /\ pc # "discover" /\ (pc = "ended" => outcome = "returned") => FilesTaken
    /\ outcome # "none" => pc = "ended"
    /\ pc \in {"discover", "file", "parse", "test"} /\ skipped = 0 =>
         \A f \in 1 .. Len(files) : \A t \in 1 .. Len(files[f].tests) :
           Passed(f, t) => Grouped(Scenarios, f, t)
    /\ pc \in {"submit", "await"} /\ skipped = 0 =>
         \A f \in 1 .. Len(files) : \A t \in 1 .. Len(files[f].tests) : Grouped(Scenarios, f, t)
    /\ pc \in {"submit", "await"} =>
         \A s \in Scenarios :
           groups[s] # {} => s \in todo \/ verdicts[s] # "none" \/ (pc = "await" /\ s = current)
    /\ pc = "await" => groups[current] # {}
    /\ \A s \in Scenarios : verdicts[s] = "failure" => failed > 0
    /\ outcome = "returned" /\ exit = 0 /\ ~options.dryRun =>
         \A f \in 1 .. Len(files) : \A t \in 1 .. Len(files[f].tests) : Grouped(Successful, f, t)

\* The exit code of a process whose pipeline has returned is that of the pipeline.
ExitInv ==
    /\ process # "running" => pc \in {"discover", "ended"}
    /\ process = "starting" => pc = "discover"
    /\ process = "exited" /\ outcome = "returned" => exitCode = exit

\* The service holds nothing but what was sent.
StoredInv == wire \subseteq sent /\ stored \subseteq sent

\* A run starts with nothing collected.
LEMMA CollectedInit == Init => CollectedInv /\ ExitInv /\ StoredInv
<1> SUFFICES ASSUME Init PROVE CollectedInv /\ ExitInv /\ StoredInv
  OBVIOUS
<1>1. /\ process = "starting" /\ pc = "discover" /\ files = <<>> /\ file = 1 /\ pos = 1
      /\ groups = [s \in Scenarios |-> {}] /\ skipped = 0 /\ failed = 0
      /\ verdicts = [s \in Scenarios |-> "none"] /\ outcome = "none"
      /\ wire = {} /\ stored = {} /\ sent = {}
  BY DEF Init, I!Init, C!Init
<1>2. files \in Seq(I!Files) /\ 1 .. Len(files) = {}
  BY <1>1
<1>3. groups \in [Scenarios -> SUBSET I!Positions] /\ \A s \in Scenarios : IsFiniteSet(groups[s])
  BY <1>1, FS_EmptySet
<1>4. CollectedInv
  BY <1>1, <1>2, <1>3 DEF CollectedInv
<1>5. QED
  BY <1>1, <1>4 DEF ExitInv, StoredInv

\* What is said of the groups rests with them and the files.
LEMMA GroupedRests ==
  ASSUME UNCHANGED <<files, groups>>
  PROVE  /\ I!Positions' = I!Positions
         /\ \A S, f, t : Grouped(S, f, t)' = Grouped(S, f, t)
  BY DEF I!Positions, Grouped

\* The test case the loop is at.
LEMMA TestPosition ==
  ASSUME CollectedInv, RefusalInv, pc = "test", pos =< Len(files[file].tests)
  PROVE  /\ file \in 1 .. Len(files) /\ pos \in 1 .. Len(files[file].tests)
         /\ <<file, pos>> \in I!Positions
         /\ files[file].tests[pos] \in I!TestCases
<1>1. Len(files) \in Nat /\ file \in Nat \ {0} /\ pos \in Nat \ {0} /\ file =< Len(files)
      /\ files \in Seq(I!Files)
  BY DEF RefusalInv, CollectedInv
<1>2. file \in 1 .. Len(files)
  BY <1>1
<1>3. files[file] \in I!Files
  BY <1>1, <1>2
<1>4. files[file].tests \in Seq(I!TestCases) /\ Len(files[file].tests) \in Nat
  BY <1>3 DEF I!Files
<1>5. pos \in 1 .. Len(files[file].tests)
  BY <1>1, <1>4
<1>6. <<file, pos>> \in I!Positions
  BY <1>2, <1>5 DEF I!Positions
<1>7. QED
  BY <1>2, <1>4, <1>5, <1>6

\* The pipeline leaves no test case behind that is neither collected nor skipped,
\* and returns zero only where all are in groups whose calls were successful.
LEMMA CollectedPipeline ==
  CollectedInv /\ VerdictsInv /\ RefusalInv /\ PipelineStep => CollectedInv'
<1> SUFFICES ASSUME CollectedInv, VerdictsInv, RefusalInv, PipelineStep PROVE CollectedInv'
  OBVIOUS
<1>0. /\ I!PipelineStep /\ UNCHANGED <<options, files, at, results, verdicts>>
      /\ pc # "discover" /\ pc # "await" /\ pc' # "discover" /\ pc' # "await"
  BY GroupsRest, VerdictsRest DEF PipelineStep, search
<1>1. /\ skipped \in Nat /\ failed \in Nat /\ files \in Seq(I!Files)
      /\ groups \in [Scenarios -> SUBSET I!Positions] /\ \A s \in Scenarios : IsFiniteSet(groups[s])
      /\ file \in Nat \ {0} /\ pos \in Nat \ {0} /\ Len(files) \in Nat
      /\ \A f \in 1 .. Len(files) : Len(files[f].tests) \in Nat
  BY DEF CollectedInv, RefusalInv
<1>2. I!Positions' = I!Positions
  BY <1>0 DEF I!Positions
<1>3. pc # "ended" => FilesTaken'
  BY <1>0 DEF CollectedInv, FilesTaken
<1>4. \A s \in Scenarios : verdicts[s] = "failure" => failed > 0
  BY DEF CollectedInv
<1>5. CASE I!BeginFile \/ I!Parse
  <2>1. /\ pc' \in {"parse", "test"} /\ pc \in {"file", "parse"}
        /\ UNCHANGED <<file, pos, groups, skipped, failed, todo, outcome, exit>>
    BY <1>5 DEF I!BeginFile, I!Parse, I!collecting, I!submitting, I!ending
  <2>2. QED
    BY <1>0, <1>1, <1>2, <1>3, <2>1, GroupedRests DEF CollectedInv, Passed
<1>6. CASE I!LoopCanceled \/ I!ParseFails \/ I!FailTest \/ I!HandleDryRun
  <2>1. /\ pc' = "ended" /\ pc # "ended" /\ UNCHANGED <<file, pos, groups, skipped, failed>>
        /\ \/ outcome' = "canceled"
           \/ outcome' = "returned" /\ (exit' = 2 \/ options.dryRun)
    BY <1>6 DEF I!LoopCanceled, I!ParseFails, I!FailTest, I!HandleDryRun, I!Collected,
       I!Return, I!Throw, I!collecting, I!submitting
  <2>2. QED
    BY <1>0, <1>1, <1>2, <1>3, <1>4, <2>1 DEF CollectedInv
<1>7. CASE I!MapTest
  <2> DEFINE s0 == I!ScenarioId(files[file].tests[pos])
  <2>1. /\ pc = "test" /\ pc' = "test" /\ file' = file /\ pos' = pos + 1
        /\ pos =< Len(files[file].tests) /\ I!IsMapped(files[file].tests[pos])
        /\ groups' = [groups EXCEPT ![s0] = @ \cup {<<file, pos>>}]
        /\ UNCHANGED <<skipped, failed, outcome, exit>>
    BY <1>7 DEF I!MapTest, I!NextTest, I!AddExecutionToScenarioGroup, I!submitting, I!ending
  <2>2. /\ <<file, pos>> \in I!Positions /\ files[file].tests[pos] \in I!TestCases
    BY <2>1, TestPosition
  <2>3. s0 \in Scenarios
    <3>1. s0 \in Scenarios \cup {Null} /\ s0 # Null
      BY <2>1, <2>2 DEF I!ScenarioId, I!Coalesce, I!TestCases, I!IsMapped
    <3>2. QED
      BY <3>1
  <2> HIDE DEF s0
  <2>4. /\ groups' \in [Scenarios -> SUBSET I!Positions]
        /\ \A s \in Scenarios :
             groups'[s] = IF s = s0 THEN groups[s] \cup {<<file, pos>>} ELSE groups[s]
    BY <1>1, <2>1, <2>2, <2>3
  <2>5. \A s \in Scenarios : IsFiniteSet(groups'[s])
    <3>1. \A s \in Scenarios : IsFiniteSet(groups[s]) /\ IsFiniteSet(groups[s] \cup {<<file, pos>>})
      BY <1>1, FS_AddElement
    <3>2. QED
      BY <2>4, <3>1
  <2>6. \A f, t :
          Grouped(Scenarios, f, t) \/ (f = file /\ t = pos) => Grouped(Scenarios, f, t)'
    <3>1. <<file, pos>> \in groups'[s0] /\ \A s \in Scenarios : groups[s] \subseteq groups'[s]
      BY <2>3, <2>4
    <3>2. QED
      BY <2>3, <3>1 DEF Grouped
  <2>7. ASSUME NEW f \in 1 .. Len(files), NEW t \in 1 .. Len(files[f].tests)
        PROVE  Passed(f, t)' => Passed(f, t) \/ (f = file /\ t = pos)
    BY <1>1, <2>1 DEF Passed
  <2>8. skipped' = 0 => \A f \in 1 .. Len(files') : \A t \in 1 .. Len(files'[f].tests) :
                          Passed(f, t)' => Grouped(Scenarios, f, t)'
    BY <1>0, <2>1, <2>6, <2>7 DEF CollectedInv
  <2>9. outcome # "returned"
    BY <2>1 DEF CollectedInv
  <2>10. QED
    BY <1>0, <1>1, <1>2, <1>3, <1>4, <2>1, <2>4, <2>5, <2>8, <2>9 DEF CollectedInv
<1>8. CASE I!SkipTest
  <2>1. /\ pc = "test" /\ pc' = "test" /\ skipped' = skipped + 1
        /\ UNCHANGED <<groups, failed, outcome, exit>>
    BY <1>8 DEF I!SkipTest, I!NextTest, I!submitting, I!ending
  <2>2. skipped' \in Nat /\ skipped' # 0 /\ outcome # "returned"
    BY <1>1, <2>1 DEF CollectedInv
  <2>3. QED
    BY <1>0, <1>1, <1>2, <1>3, <1>4, <2>1, <2>2 DEF CollectedInv
<1>9. CASE I!EndFile
  <2>1. /\ pc = "test" /\ pc' = "file" /\ file' = file + 1 /\ pos' = 1
        /\ pos > Len(files[file].tests) /\ UNCHANGED <<groups, skipped, failed, outcome, exit>>
    BY <1>9 DEF I!EndFile, I!submitting, I!ending
  <2>2. ASSUME NEW f \in 1 .. Len(files), NEW t \in 1 .. Len(files[f].tests)
        PROVE  Passed(f, t)' => Passed(f, t)
    BY <1>1, <2>1 DEF Passed
  <2>3. outcome # "returned"
    BY <2>1 DEF CollectedInv
  <2>4. QED
    BY <1>0, <1>1, <1>2, <1>3, <1>4, <2>1, <2>2, <2>3, GroupedRests DEF CollectedInv
<1>10. CASE I!BeginSubmit
  <2>1. /\ pc = "file" /\ pc' = "submit" /\ file > Len(files) /\ todo' = I!Keys
        /\ UNCHANGED <<groups, skipped, failed, outcome, exit>>
    BY <1>10 DEF I!BeginSubmit, I!Collected, I!collecting, I!ending
  <2>2. \A f \in 1 .. Len(files) : \A t \in 1 .. Len(files[f].tests) : Passed(f, t)
    BY <1>1, <2>1 DEF Passed
  <2>3. \A s \in Scenarios : groups[s] # {} => s \in todo'
    BY <2>1 DEF I!Keys
  <2>4. outcome # "returned"
    BY <2>1 DEF CollectedInv
  <2>5. QED
    BY <1>0, <1>1, <1>2, <1>3, <1>4, <2>1, <2>2, <2>3, <2>4, GroupedRests DEF CollectedInv
<1>11. CASE I!EndSubmit
  <2>1. /\ pc = "submit" /\ pc' = "ended" /\ todo = {} /\ outcome' = "returned"
        /\ exit' = (IF failed > 0 THEN 3 ELSE IF skipped > 0 THEN 2 ELSE 0)
        /\ UNCHANGED <<groups, skipped, failed>>
    BY <1>11 DEF I!EndSubmit, I!Return, I!SubmittedExit, I!SkippedExit, I!collecting, I!submitting
  <2>2. exit' = 0 => ~(failed > 0) /\ skipped = 0
    BY <1>1, <2>1
  <2>3. ~(failed > 0) => \A s \in Scenarios : groups[s] # {} => s \in Successful
    BY <2>1 DEF CollectedInv, VerdictsInv, Successful
  <2>4. Successful' = Successful
    BY <1>0 DEF Successful
  <2>5. exit' = 0 => \A f \in 1 .. Len(files) : \A t \in 1 .. Len(files[f].tests) :
                       Grouped(Successful, f, t)
    BY <2>1, <2>2, <2>3 DEF CollectedInv, Grouped
  <2>6. \A f, t : Grouped(Successful, f, t) => Grouped(Successful, f, t)'
    BY <2>1, <2>4 DEF Grouped
  <2>7. QED
    BY <1>0, <1>1, <1>2, <1>3, <1>4, <2>1, <2>5, <2>6 DEF CollectedInv
<1>12. QED
  BY <1>0, <1>5, <1>6, <1>7, <1>8, <1>9, <1>10, <1>11 DEF I!PipelineStep


\* What leaves the pipeline and a search that has returned alone.
LEMMA CollectedRests ==
  ASSUME CollectedInv, UNCHANGED pipeline, at = "returned" => UNCHANGED search
  PROVE  CollectedInv'
<1>1. UNCHANGED <<options, pc, files, file, pos, groups, skipped, todo, current, failed, outcome,
                  exit, verdicts>>
  BY DEF pipeline
<1>2. FilesTaken => FilesTaken'
  BY <1>1 DEF FilesTaken, search
<1>3. Successful' = Successful
  BY <1>1 DEF Successful
<1>4. \A S, f, t : Grouped(S, f, t)' = Grouped(S, f, t)
  BY <1>1, GroupedRests
<1>5. \A f, t : Grouped(Successful, f, t)' = Grouped(Successful, f, t)
  BY <1>1, <1>3 DEF Grouped
<1>6. I!Positions' = I!Positions
  BY <1>1 DEF I!Positions
<1>7. QED
  BY <1>1, <1>2, <1>4, <1>5, <1>6 DEF CollectedInv, Passed

\* Every step keeps what is known of the collection.
LEMMA CollectedKeeps ==
  CollectedInv /\ VerdictsInv /\ CallInv /\ RefusalInv /\ ResultsInv /\ [Next]_vars => CollectedInv'
<1> SUFFICES ASSUME CollectedInv, VerdictsInv, CallInv, RefusalInv, ResultsInv, [Next]_vars
             PROVE  CollectedInv'
  OBVIOUS
<1>1. CASE UNCHANGED <<search, pipeline>>
  BY <1>1, CollectedRests
<1>2. CASE SearchStep \/ StdinStep
  <2>1. at # "returned" /\ UNCHANGED pipeline
    BY <1>2 DEF SearchStep, StdinStep, D!LoopStep, D!SkipBlank, D!AddFile, D!IgnorePath,
       D!OpenFolder, D!AddEntry, D!CloseFolder, D!LoopCanceled, D!FolderFails, D!ReturnFiles,
       D!ReturnNothing, D!StdinEnds, D!StdinThrows, D!Finds, D!AtPath
  <2>2. QED
    BY <2>1, CollectedRests
<1>3. CASE Discover
  <2>1. /\ pc = "discover" /\ UNCHANGED <<options, file, pos, groups, skipped, failed, todo,
                                          current, verdicts, at, results>>
    BY <1>3 DEF Discover, I!Discover, I!DiscoverCanceled, I!DiscoverFails, I!Throw,
       I!collecting, I!submitting, search
  <2>2. CASE at = "returned"
    <3>1. /\ pc' = "file" /\ files' = [i \in 1 .. Len(results) |-> Content[results[i]]]
          /\ outcome' = outcome /\ outcome # "returned"
      BY <1>3, <2>1, <2>2 DEF Discover, I!Discover, I!ending, CollectedInv
    <3>2. files' \in Seq(I!Files)
      BY <3>1, ContentAssumption DEF ResultsInv
    <3>3. file = 1 /\ pos = 1 /\ files' \in Seq(I!Files) /\ Len(files') \in Nat
      BY <2>1, <3>2 DEF RefusalInv
    <3>4. \A f \in 1 .. Len(files') : Len(files'[f].tests) \in Nat
      BY <3>2 DEF I!Files
    <3>5. \A f \in 1 .. Len(files') : \A t \in 1 .. Len(files'[f].tests) : ~Passed(f, t)'
      BY <2>1, <3>3, <3>4 DEF Passed
    <3>6. \A s \in Scenarios : groups[s] = {}
      BY <2>1 DEF CollectedInv
    <3>7. QED
      BY <2>1, <2>2, <3>1, <3>2, <3>5, <3>6 DEF CollectedInv, FilesTaken
  <2>3. CASE at # "returned"
    <3>1. pc' = "ended" /\ outcome' \in {"canceled", "faulted"} /\ UNCHANGED files
      BY <1>3, <2>3 DEF Discover, I!DiscoverCanceled, I!DiscoverFails, I!Throw, I!collecting
    <3>2. QED
      BY <2>1, <3>1, GroupedRests DEF CollectedInv
  <2>4. QED
    BY <2>2, <2>3
<1>4. CASE PipelineStep
  BY <1>4, CollectedPipeline
<1>5. ASSUME NEW s \in Scenarios, SubmitGroup(s)
      PROVE  CollectedInv'
  <2>1. /\ pc = "submit" /\ pc' = "await" /\ todo' = todo \ {s} /\ current' = s /\ groups[s] # {}
        /\ UNCHANGED <<options, files, file, pos, groups, skipped, failed, verdicts, outcome, exit,
                       at, results>>
    BY <1>5 DEF SubmitGroup, I!SubmitGroup, C!Submit, I!collecting, I!ending, search
  <2>2. FilesTaken' /\ outcome # "returned"
    BY <2>1 DEF CollectedInv, FilesTaken
  <2>3. QED
    BY <2>1, <2>2, GroupedRests DEF CollectedInv
<1>6. CASE ClientReturns
  <2>1. /\ pc = "await" /\ phase = "idle" /\ current \in Scenarios /\ groups[current] # {}
        /\ UNCHANGED <<options, files, file, pos, groups, skipped, at, results>>
    BY <1>6 DEF ClientReturns, I!GroupPosted, I!GroupFailed, I!GroupThrows, I!collecting, search,
       CallInv, CollectedInv
  <2>2. FilesTaken' /\ outcome # "returned"
    BY <2>1 DEF CollectedInv, FilesTaken
  <2>3. CASE \E kind \in {"canceled", "faulted"} : I!GroupThrows(kind)
    <3>1. /\ pc' = "ended" /\ outcome' \in {"canceled", "faulted"} /\ UNCHANGED <<failed, verdicts>>
      BY <2>3 DEF I!GroupThrows, I!Throw, I!submitting
    <3>2. QED
      BY <2>1, <3>1, GroupedRests DEF CollectedInv
  <2>4. ASSUME NEW v \in {"success", "failure"},
               pc' = "submit", todo' = todo, verdicts' = [verdicts EXCEPT ![current] = v],
               UNCHANGED <<outcome, exit>>, failed' \in Nat, failed' >= failed,
               v = "failure" => failed' > 0
        PROVE  CollectedInv'
    <3>1. \A s \in Scenarios : verdicts'[s] = IF s = current THEN v ELSE verdicts[s]
      BY <2>1, <2>4 DEF VerdictsInv
    <3>2. \A s \in Scenarios : verdicts'[s] = "failure" => failed' > 0
      BY <2>4, <3>1 DEF CollectedInv
    <3>3. \A s \in Scenarios : groups[s] # {} => s \in todo' \/ verdicts'[s] # "none"
      BY <2>1, <2>4, <3>1 DEF CollectedInv
    <3>4. QED
      BY <2>1, <2>2, <2>4, <3>2, <3>3, GroupedRests DEF CollectedInv
  <2>5. CASE result.verdict = "success" /\ I!GroupPosted(result.posted)
    <3>1. /\ pc' = "submit" /\ todo' = todo /\ verdicts' = [verdicts EXCEPT ![current] = "success"]
          /\ UNCHANGED <<outcome, exit, failed>>
      BY <2>5 DEF I!GroupPosted, I!ending
    <3>2. failed' \in Nat /\ failed' >= failed
      BY <3>1 DEF CollectedInv
    <3>3. QED
      BY <2>4, <3>1, <3>2
  <2>6. CASE result.verdict = "failure" /\ I!GroupFailed(result.failed)
    <3>1. /\ pc' = "submit" /\ todo' = todo /\ verdicts' = [verdicts EXCEPT ![current] = "failure"]
          /\ UNCHANGED <<outcome, exit>> /\ failed' = failed + result.failed
      BY <2>6 DEF I!GroupFailed, I!AfterFailure, I!ending
    <3>2. result \in Endings(groups[current])
      BY <2>1 DEF CallInv
    <3>3. result.failed = Cardinality(groups[current])
      BY <2>6, <3>2, EndingCounts
    <3>4. IsFiniteSet(groups[current])
      BY <2>1 DEF CollectedInv
    <3>5. Cardinality(groups[current]) \in Nat /\ Cardinality(groups[current]) # 0
      BY <2>1, <3>4, FS_CardinalityType, FS_EmptySet
    <3>6. failed \in Nat
      BY DEF CollectedInv
    <3>7. failed' \in Nat /\ failed' >= failed /\ failed' > 0
      BY <3>1, <3>3, <3>5, <3>6
    <3>8. QED
      BY <2>4, <3>1, <3>7
  <2>7. QED
    BY <1>6, <2>3, <2>5, <2>6 DEF ClientReturns
<1>7. QED
  BY <1>1, <1>2, <1>3, <1>4, <1>5, <1>6 DEF Next, ProcessStep, vars, Gone,
     RejectConfiguration, Start, Exit, CancelKeyPress, ClientStep, ServiceStep

\* The process exits only where the pipeline has ended or was never started.
LEMMA ExitKeeps == CollectedInv /\ ExitInv /\ CallInv /\ [Next]_vars => ExitInv'
<1> SUFFICES ASSUME CollectedInv, ExitInv, CallInv, [Next]_vars PROVE ExitInv'
  OBVIOUS
<1>1. CASE UNCHANGED <<program, pipeline>>
  BY <1>1 DEF program, pipeline, ExitInv
<1>2. CASE RejectConfiguration \/ Start \/ Exit
  <2>1. UNCHANGED <<pc, outcome, exit>>
    BY <1>2 DEF RejectConfiguration, Start, Exit, pipeline
  <2>2. pc = "discover" => outcome # "returned"
    BY DEF CollectedInv
  <2>3. QED
    BY <1>2, <2>1, <2>2 DEF RejectConfiguration, Start, Exit, ExitCodeOf, ExitInv
<1>3. CASE Discover \/ PipelineStep \/ (\E s \in Scenarios : SubmitGroup(s))
  <2>1. process = "running" /\ UNCHANGED program
    BY <1>3 DEF Discover, PipelineStep, SubmitGroup
  <2>2. QED
    BY <2>1 DEF program, ExitInv
<1>4. CASE ClientReturns
  <2>1. pc = "await" /\ UNCHANGED program
    BY <1>4 DEF ClientReturns
  <2>2. QED
    BY <2>1 DEF program, ExitInv
<1>5. QED
  BY <1>1, <1>2, <1>3, <1>4 DEF Next, ProcessStep, vars, Gone, SearchStep, StdinStep, ClientStep,
     CancelKeyPress, ServiceStep

\* The service handles what was sent, and records that.
LEMMA StoredKeeps == StoredInv /\ [Next]_vars => StoredInv'
<1> SUFFICES ASSUME StoredInv, [Next]_vars PROVE StoredInv'
  OBVIOUS
<1>1. CASE UNCHANGED caller
  BY <1>1 DEF caller, StoredInv
<1>2. CASE \E s \in Scenarios : SubmitGroup(s)
  BY <1>2 DEF SubmitGroup, C!Submit, C!service, StoredInv
<1>3. CASE ClientStep
  <2>1. CASE C!SendPost
    BY <2>1 DEF C!SendPost, StoredInv
  <2>2. CASE ~C!SendPost
    <3>1. UNCHANGED <<wire, stored, sent>>
      BY <1>3, <2>2 DEF ClientStep, C!CallStep, C!AuthAccepted, C!AuthFails,
         C!AuthTimesOutOrCanceled, C!LoopCanceled, C!BeginAttempt, C!SendCanceled,
         C!PostAccepted, C!PostRejected, C!PostTransient, C!PostTimesOut, C!PostCanceled,
         C!PostUnreachable, C!WaitElapses, C!WaitCanceled, C!RetryOrFail, C!Take, C!End, C!service, C!history
    <3>2. QED
      BY <3>1 DEF StoredInv
  <2>3. QED
    BY <2>1, <2>2
<1>4. CASE ServiceStep
  <2>1. CASE C!TokenExpires
    BY <2>1 DEF C!TokenExpires, C!history, StoredInv
  <2>2. ASSUME NEW r \in wire, C!ServiceHandles(r) PROVE StoredInv'
    <3>1. sent' = sent /\ wire' \subseteq wire /\ stored' \subseteq stored \cup {r}
      BY <2>2 DEF C!ServiceHandles, C!ServiceAccepts, C!ServiceRejects, C!ServiceFails,
         C!ServiceAnswerLost, C!history
    <3>2. QED
      BY <3>1 DEF StoredInv
  <2>3. QED
    BY <1>4, <2>1, <2>2 DEF ServiceStep
<1>5. QED
  BY <1>1, <1>2, <1>3, <1>4 DEF Next, ProcessStep, vars, Gone, RejectConfiguration, Start, Exit,
     SearchStep, StdinStep, Discover, PipelineStep, ClientReturns, CancelKeyPress

\* However the service and the network behave and whatever is discovered: a run
\* that returned 0, and was no dry run, has left every test case in the service.
THEOREM RunZeroMeansRecorded == Spec => []ZeroMeansRecorded
<1> DEFINE Inv == CollectedInv /\ ExitInv /\ StoredInv
<1>1. CollectedInv /\ ExitInv /\ StoredInv /\ VerdictsInv /\ CallInv /\ DiscoveryInv
        => ZeroMeansRecorded
  <2> SUFFICES ASSUME CollectedInv, ExitInv, StoredInv, VerdictsInv, CallInv, DiscoveryInv,
                      process = "exited", outcome = "returned", exitCode = 0, ~options.dryRun
               PROVE  LET recorded == UNION {r.batch : r \in stored}
                          wanted == D!Wanted(layout) IN
                      /\ recorded = I!Positions
                      /\ \A p \in wanted :
                           (\A q \in wanted : Fold[q] = Fold[p] => q = p) =>
                             \E f \in DOMAIN results :
                               /\ results[f] = p
                               /\ {f} \X (1 .. Len(Content[p].tests)) \subseteq recorded
    BY DEF ZeroMeansRecorded
  <2> DEFINE recorded == UNION {r.batch : r \in stored}
  <2>1. exit = 0 /\ pc = "ended" /\ FilesTaken
    BY DEF ExitInv, CollectedInv
  <2>2. \A f \in 1 .. Len(files) : \A t \in 1 .. Len(files[f].tests) : Grouped(Successful, f, t)
    BY <2>1 DEF CollectedInv
  <2>3. \A s \in Successful : groups[s] \subseteq recorded
    BY DEF Successful, VerdictsInv, Recorded
  <2>4. \A f \in 1 .. Len(files) : {f} \X (1 .. Len(files[f].tests)) \subseteq recorded
    <3> HIDE DEF recorded
    <3> SUFFICES ASSUME NEW f \in 1 .. Len(files), NEW t \in 1 .. Len(files[f].tests)
                 PROVE  <<f, t>> \in recorded
      OBVIOUS
    <3>1. QED
      BY <2>2, <2>3 DEF Grouped
  <2>5. I!Positions \subseteq recorded
    <3> HIDE DEF recorded
    <3>1. QED
      BY <2>4 DEF I!Positions
  <2>6. recorded \subseteq I!Positions
    <3> SUFFICES ASSUME NEW r \in stored PROVE r.batch \subseteq I!Positions
      OBVIOUS
    <3>1. PICK s \in Scenarios : r.batch = groups[s]
      BY DEF StoredInv, CallInv, PostsCarryGroups
    <3>2. QED
      BY <3>1 DEF CollectedInv
  <2>7. ASSUME NEW p \in D!Wanted(layout), \A q \in D!Wanted(layout) : Fold[q] = Fold[p] => q = p
        PROVE  \E f \in DOMAIN results :
                 results[f] = p /\ {f} \X (1 .. Len(Content[p].tests)) \subseteq recorded
    <3>1. /\ \A i \in DOMAIN results : results[i] \in D!Wanted(layout)
          /\ \E i \in DOMAIN results : Fold[results[i]] = Fold[p]
      BY <2>1 DEF DiscoveryInv, DiscoversExactly, D!DiscoversExactly, FilesTaken
    <3>2. PICK f \in DOMAIN results : results[f] = p
      BY <2>7, <3>1
    <3>3. results \in Seq(Places)
      BY DEF DiscoveryInv, ResultsInv
    <3>4. f \in 1 .. Len(files) /\ files[f] = Content[p]
      BY <2>1, <3>2, <3>3 DEF FilesTaken
    <3> HIDE DEF recorded
    <3>5. QED
      BY <2>4, <3>2, <3>4
  <2>8. QED
    BY <2>5, <2>6, <2>7
<1>2. Init => Inv
  BY CollectedInit
<1>3. Inv /\ VerdictsInv /\ CallInv /\ RefusalInv /\ DiscoveryInv /\ [Next]_vars => Inv'
  BY CollectedKeeps, ExitKeeps, StoredKeeps DEF DiscoveryInv
<1>4. DiscoveryInv => ResultsInv
  BY DEF DiscoveryInv
<1>5. QED
  BY <1>1, <1>2, <1>3, <1>4, AnswersInit, VerdictsInit, CountsKeep, CallInit, CallKeeps,
     RefusalInit, RefusalKeeps, DiscoveryInit, DiscoveryStep, PTL DEF Spec


----------------------------------------------------------------------------
(* The types of the parts, as they run together.                            *)

\* How many attempts the client makes is a positive number.
LEMMA SomeAttempts == C!Attempts \in Nat /\ C!Attempts >= 1
  BY ConfigurationAssumption DEF C!Attempts

\* Where the retry loop stands: within the attempts, and what it awaits has been sent.
AttemptInv ==
    /\ phase = "auth" => attempt = 1
    /\ phase \in {"loop", "send", "post", "wait"} => attempt >= 1
    /\ phase = "wait" => attempt < C!Attempts
    /\ phase = "post" => C!Current \in sent

\* A pipeline that has ended has an outcome for Program to turn into an exit code.
OutcomeInv == pc = "ended" => outcome # "none"

TypesInv == TypeOK /\ AttemptInv /\ OutcomeInv

\* What the pipeline may be handed is a list of parsed files.
LEMMA InputsAreFiles == \A input \in Inputs : input \in Seq(I!Files)
<1> SUFFICES ASSUME NEW n \in 0 .. MaxFiles, NEW input \in [1 .. n -> {Content[p] : p \in Places}]
             PROVE  input \in Seq(I!Files)
  BY DEF Inputs
<1>1. n \in Nat
  BY MaxFilesAssumption
<1>2. \A i \in 1 .. n : input[i] \in I!Files
  BY ContentAssumption
<1>3. input \in [1 .. n -> I!Files]
  BY <1>2
<1>4. QED
  BY <1>1, <1>3

\* The executions are finitely many, and the positions of the discovered test
\* cases are among them.
LEMMA ExecutionsFinite == IsFiniteSet(Executions)
<1> DEFINE tests == {1 .. Len(Content[p].tests) : p \in Places}
<1>1. \A p \in Places : IsFiniteSet(1 .. Len(Content[p].tests))
  <2> SUFFICES ASSUME NEW p \in Places PROVE IsFiniteSet(1 .. Len(Content[p].tests))
    OBVIOUS
  <2>1. Content[p].tests \in Seq(I!TestCases)
    BY ContentAssumption DEF I!Files
  <2>2. QED
    BY <2>1, FS_Interval
<1>2. IsFiniteSet(tests)
  <2> DEFINE f == [p \in Places |-> 1 .. Len(Content[p].tests)]
  <2>1. f \in Surjection(Places, tests)
    BY DEF Surjection
  <2> HIDE DEF f
  <2>2. QED
    BY <2>1, ContentAssumption, FS_Surjection
<1>3. IsFiniteSet(UNION tests)
  BY <1>1, <1>2, FS_UNION
<1>4. IsFiniteSet(1 .. MaxFiles)
  BY MaxFilesAssumption, FS_Interval
<1>5. QED
  BY <1>3, <1>4, FS_Product DEF Executions

\* Every group the pipeline submits is a set of executions.
LEMMA GroupsAreExecutions ==
  ASSUME CollectedInv, ResultsInv, pc \in {"submit", "await"}, NEW s \in Scenarios
  PROVE  groups[s] \in SUBSET Executions
<1>1. FilesTaken /\ groups[s] \subseteq I!Positions
  BY DEF CollectedInv
<1>2. Len(results) \in Nat /\ Len(results) =< MaxFiles /\ MaxFiles \in Nat
  BY FewResults, MaxFilesAssumption DEF ResultsInv
<1>3. Len(files) = Len(results) /\ \A f \in 1 .. Len(files) : files[f] = Content[results[f]]
  BY <1>1, <1>2 DEF FilesTaken
<1>4. \A f \in 1 .. Len(files) : f \in 1 .. MaxFiles /\ results[f] \in Places
  BY <1>2, <1>3 DEF ResultsInv
<1>5. \A f \in 1 .. Len(files) : {f} \X (1 .. Len(files[f].tests)) \subseteq Executions
  BY <1>3, <1>4 DEF Executions
<1>6. QED
  BY <1>1, <1>5 DEF I!Positions


\* Whatever is at the start has its type.
LEMMA TypesInit == Init => TypesInv
<1> SUFFICES ASSUME Init PROVE TypesInv
  OBVIOUS
<1>1. D!TypeOK
  <2>1. layout \in Layouts /\ path = 1 /\ entry = 1 /\ results = <<>> /\ cancelled = FALSE
        /\ at \in {"stdin", "paths"}
    BY DEF Init, D!Init
  <2>2. Len(layout.paths) \in Nat
    BY <2>1, LayoutParts
  <2>3. path \in 1 .. Len(layout.paths) + 1
    BY <2>1, <2>2
  <2>4. results \in Seq(Places)
    BY <2>1
  <2>5. entry \in Nat \ {0}
    BY <2>1
  <2>6. QED
    BY <2>1, <2>3, <2>4, <2>5 DEF D!TypeOK
<1>2. I!TypeOK
  <2>1. /\ options \in I!Options /\ pc = "discover" /\ files = <<>> /\ file = 1 /\ pos = 1
        /\ groups = [s \in Scenarios |-> {}] /\ mapped = 0 /\ skipped = 0 /\ todo = {}
        /\ current = Null /\ posted = 0 /\ failed = 0 /\ verdicts = [s \in Scenarios |-> "none"]
        /\ outcome = "none" /\ exit = 0 /\ cancelled = FALSE
    BY ConfigurationAssumption DEF Init, I!Init
  <2>2. files \in Seq(I!Files) /\ file \in 1 .. Len(files) + 1
    BY <2>1
  <2>3. groups \in [Scenarios -> SUBSET (Nat \X Nat)]
    BY <2>1
  <2>4. verdicts \in [Scenarios -> {"none", "success", "failure"}]
    BY <2>1
  <2>5. /\ pos \in Nat \ {0} /\ mapped \in Nat /\ skipped \in Nat /\ posted \in Nat /\ failed \in Nat
        /\ todo \subseteq Scenarios /\ current \in Scenarios \cup {Null}
    BY <2>1
  <2>6. /\ pc \in I!PCs /\ pc \notin {"parse", "test", "await"} /\ exit \in {0, 2, 3}
        /\ outcome \in {"none", "returned", "canceled", "faulted"}
    BY <2>1 DEF I!PCs
  <2>7. options \in I!Options /\ cancelled \in BOOLEAN
    BY <2>1, Zenon
  <2>8. QED
    BY <2>2, <2>3, <2>4, <2>5, <2>6, <2>7 DEF I!TypeOK
<1>3. C!TypeOK
  <2>1. /\ phase = "idle" /\ batch = {} /\ attempt = 0 /\ bearer = FALSE /\ delay = 0
        /\ result = C!Pending /\ cancelled = FALSE /\ tokenLive = FALSE /\ wire = {}
        /\ stored = {} /\ reply = C!NoReply /\ called = {} /\ sent = {} /\ late = {}
        /\ taken = {}
    BY DEF Init, C!Init
  <2>2. delay =< MaxDelay /\ attempt \in 0 .. C!Attempts
    BY <2>1, SomeAttempts, ConfigurationAssumption
  <2>3. result \in [verdict : C!Verdicts, posted : Nat, failed : Nat]
    BY <2>1 DEF C!Pending, C!Verdicts
  <2>4. reply \in [kind : C!AnswerKinds \cup {"none"}, after : C!RetryAfterHeaders]
    BY <2>1 DEF C!NoReply, C!RetryAfterHeaders
  <2>5. /\ phase \in C!Phases /\ batch \in SUBSET Executions /\ delay \in Int
    BY <2>1 DEF C!Phases
  <2>7. bearer \in BOOLEAN /\ cancelled \in BOOLEAN /\ tokenLive \in BOOLEAN
    BY <2>1, Zenon
  <2>6. /\ wire \subseteq sent /\ stored \subseteq sent /\ called \subseteq SUBSET Executions
        /\ sent \subseteq C!Requests /\ late \subseteq sent
        /\ taken \subseteq [request : sent, answer : C!AnswerKinds \cup {"timeout"}]
    BY <2>1
  <2>8. QED
    BY <2>2, <2>3, <2>4, <2>5, <2>6, <2>7 DEF C!TypeOK
<1>4. QED
  BY <1>1, <1>2, <1>3 DEF Init, I!Init, C!Init, TypesInv, TypeOK, AttemptInv, OutcomeInv

\* The search stays within its paths and folders.
LEMMA SearchTypes ==
  ASSUME D!TypeOK, DiscoveryInv, D!LoopStep \/ D!StdinEnds \/ D!StdinThrows
  PROVE  D!TypeOK'
<1>1. /\ Len(layout.paths) \in Nat /\ path \in 1 .. Len(layout.paths) + 1 /\ entry \in Nat \ {0}
      /\ results \in Seq(Places) /\ cancelled \in BOOLEAN /\ layout \in Layouts
      /\ at = "folder" => path =< Len(layout.paths) /\ layout.kind[D!Place(path)] = "folder"
  BY LayoutParts DEF D!TypeOK
<1>2. results' \in Seq(Places)
  BY SearchKeeps, StdinKeeps DEF DiscoveryInv, ResultsInv
<1>3. CASE D!SkipBlank \/ D!AddFile \/ D!IgnorePath
  <2>1. /\ at' = "paths" /\ path' = path + 1 /\ path =< Len(layout.paths)
        /\ UNCHANGED <<layout, entry, cancelled>>
    BY <1>3 DEF D!SkipBlank, D!AddFile, D!IgnorePath, D!Finds, D!AtPath, D!NextPath
  <2>2. QED
    BY <1>1, <1>2, <2>1 DEF D!TypeOK
<1>4. CASE D!OpenFolder
  <2>1. /\ at' = "folder" /\ entry' = 1 /\ path =< Len(layout.paths)
        /\ layout.kind[D!Place(path)] = "folder" /\ UNCHANGED <<layout, path, cancelled>>
    BY <1>4 DEF D!OpenFolder, D!Finds, D!AtPath
  <2>2. QED
    BY <1>1, <1>2, <2>1 DEF D!TypeOK, D!Place
<1>5. CASE D!AddEntry
  <2>1. at = "folder" /\ entry' = entry + 1 /\ UNCHANGED <<layout, at, path, cancelled>>
    BY <1>5 DEF D!AddEntry
  <2>2. QED
    BY <1>1, <1>2, <2>1 DEF D!TypeOK, D!Place
<1>6. CASE D!CloseFolder
  <2>1. at = "folder" /\ at' = "paths" /\ path' = path + 1 /\ UNCHANGED <<layout, entry, cancelled>>
    BY <1>6 DEF D!CloseFolder
  <2>2. QED
    BY <1>1, <1>2, <2>1 DEF D!TypeOK
<1>7. CASE D!LoopCanceled \/ D!FolderFails \/ D!ReturnFiles \/ D!ReturnNothing
           \/ D!StdinEnds \/ D!StdinThrows
  <2>1. at' \in {"canceled", "faulted", "returned"} /\ UNCHANGED <<layout, path, entry, cancelled>>
    BY <1>7 DEF D!LoopCanceled, D!FolderFails, D!ReturnFiles, D!ReturnNothing, D!StdinEnds,
       D!StdinThrows, D!End
  <2>2. QED
    BY <1>1, <1>2, <2>1 DEF D!TypeOK
<1>8. QED
  BY <1>3, <1>4, <1>5, <1>6, <1>7 DEF D!LoopStep

\* The pipeline, with an abstract client, stays within its files and test cases.
LEMMA PipelineTypes ==
  ASSUME I!TypeOK, RefusalInv, CollectedInv, OutcomeInv, [I!Next]_(I!vars)
  PROVE  I!TypeOK' /\ OutcomeInv'
<1> USE DEF I!TypeOK, OutcomeInv
<1>0. /\ Len(files) \in Nat /\ \A f \in 1 .. Len(files) : Len(files[f].tests) \in Nat
      /\ pc \in {"parse", "test"} => file \in 1 .. Len(files) /\ Len(files[file].tests) \in Nat
  BY DEF RefusalInv
<1>1. CASE UNCHANGED I!vars \/ I!CancelKeyPress \/ I!Ended
  <2>1. UNCHANGED <<options, pc, files, file, pos, groups, mapped, skipped, todo, current, posted,
                    failed, outcome, exit, verdicts>> /\ cancelled' \in BOOLEAN
    BY <1>1 DEF I!CancelKeyPress, I!Ended, I!vars, I!pipeline, I!collecting, I!submitting, I!ending
  <2>2. QED
    BY <2>1
<1>2. CASE I!BeginFile \/ I!Parse
  <2>1. /\ \/ pc = "file" /\ pc' = "parse" /\ file =< Len(files)
           \/ pc = "parse" /\ pc' = "test"
        /\ UNCHANGED <<options, files, file, pos, groups, mapped, skipped, todo, current, posted,
                       failed, outcome, exit, verdicts, cancelled>>
    BY <1>2 DEF I!BeginFile, I!Parse, I!collecting, I!submitting, I!ending
  <2>2. pc' = "test" => pos' =< Len(files'[file'].tests) + 1
    BY <1>0, <2>1 DEF RefusalInv
  <2>3. QED
    BY <2>1, <2>2 DEF I!PCs
<1>3. CASE \/ I!DiscoverCanceled \/ I!DiscoverFails \/ I!LoopCanceled
           \/ \E kind \in {"canceled", "faulted"} : I!GroupThrows(kind)
  <2>1. /\ pc' = "ended" /\ outcome' \in {"canceled", "faulted"} /\ exit' = exit
        /\ UNCHANGED <<options, files, file, pos, groups, mapped, skipped, todo, current, posted,
                       failed, verdicts, cancelled>>
    BY <1>3 DEF I!DiscoverCanceled, I!DiscoverFails, I!LoopCanceled, I!GroupThrows, I!Throw,
       I!collecting, I!submitting
  <2>2. QED
    BY <2>1 DEF I!PCs
<1>4. CASE I!ParseFails \/ I!FailTest \/ I!HandleDryRun \/ I!EndSubmit
  <2>1. /\ pc' = "ended" /\ outcome' = "returned" /\ exit' \in {0, 2, 3}
        /\ UNCHANGED <<options, files, file, pos, groups, mapped, skipped, todo, current, posted,
                       failed, verdicts, cancelled>>
    BY <1>4 DEF I!ParseFails, I!FailTest, I!HandleDryRun, I!EndSubmit, I!Return, I!SkippedExit,
       I!SubmittedExit, I!collecting, I!submitting
  <2>2. QED
    BY <2>1 DEF I!PCs
<1>5. CASE I!Discover
  <2>1. /\ pc = "discover" /\ pc' = "file" /\ files' \in Seq(I!Files) /\ file = 1
        /\ UNCHANGED <<options, file, pos, groups, mapped, skipped, todo, current, posted,
                       failed, outcome, exit, verdicts, cancelled>>
    BY <1>5, InputsAreFiles DEF I!Discover, RefusalInv, I!submitting, I!ending
  <2>2. file' \in 1 .. Len(files') + 1
    BY <2>1
  <2>3. QED
    BY <2>1, <2>2 DEF I!PCs
<1>6. CASE I!MapTest
  <2>1. /\ pc = "test" /\ pos =< Len(files[file].tests) /\ pos' = pos + 1
        /\ groups' = I!AddExecutionToScenarioGroup(I!ScenarioId(files[file].tests[pos]))
        /\ mapped' = mapped + 1
        /\ UNCHANGED <<options, pc, files, file, skipped, todo, current, posted,
                       failed, outcome, exit, verdicts, cancelled>>
    BY <1>6 DEF I!MapTest, I!NextTest, I!submitting, I!ending
  <2>2. <<file, pos>> \in Nat \X Nat
    BY <1>0, <2>1
  <2>3. groups' \in [Scenarios -> SUBSET (Nat \X Nat)]
    BY <2>1, <2>2 DEF I!AddExecutionToScenarioGroup
  <2>4. pos' \in Nat \ {0} /\ mapped' \in Nat /\ pos' =< Len(files[file].tests) + 1
    BY <1>0, <2>1
  <2>5. QED
    BY <2>1, <2>3, <2>4
<1>7. CASE I!SkipTest
  <2>1. /\ pc = "test" /\ pos =< Len(files[file].tests) /\ pos' = pos + 1 /\ skipped' = skipped + 1
        /\ UNCHANGED <<options, pc, files, file, groups, mapped, todo, current, posted,
                       failed, outcome, exit, verdicts, cancelled>>
    BY <1>7 DEF I!SkipTest, I!NextTest, I!submitting, I!ending
  <2>2. pos' \in Nat \ {0} /\ skipped' \in Nat /\ pos' =< Len(files[file].tests) + 1
    BY <1>0, <2>1
  <2>3. QED
    BY <2>1, <2>2
<1>8. CASE I!EndFile
  <2>1. /\ pc = "test" /\ pc' = "file" /\ file' = file + 1 /\ pos' = 1
        /\ UNCHANGED <<options, files, groups, mapped, skipped, todo, current, posted,
                       failed, outcome, exit, verdicts, cancelled>>
    BY <1>8 DEF I!EndFile, I!submitting, I!ending
  <2>2. file' \in 1 .. Len(files) + 1
    BY <1>0, <2>1
  <2>3. QED
    BY <2>1, <2>2 DEF I!PCs
<1>9. CASE I!BeginSubmit
  BY <1>9 DEF I!BeginSubmit, I!Keys, I!collecting, I!ending, I!PCs
<1>10. ASSUME NEW s \in Scenarios, I!SubmitGroup(s)
       PROVE  I!TypeOK' /\ OutcomeInv'
  BY <1>10 DEF I!SubmitGroup, I!collecting, I!ending, I!PCs
<1>11. CASE pc = "await" /\ I!ClientEnds
  <2> DEFINE n == I!Cardinality(groups[current])
  <2>1. current \in Scenarios /\ n \in Nat
    BY <1>11, SameCardinality, FS_CardinalityType DEF CollectedInv
  <2> HIDE DEF n
  <2>2. CASE I!GroupPosted(n)
    BY <2>1, <2>2 DEF I!GroupPosted, I!collecting, I!ending, I!PCs
  <2>3. CASE I!GroupFailed(n)
    BY <2>1, <2>3 DEF I!GroupFailed, I!AfterFailure, I!collecting, I!ending, I!PCs
  <2>4. QED
    BY <1>3, <1>11, <2>2, <2>3 DEF I!ClientEnds, n
<1>12. QED
  BY <1>1, <1>2, <1>3, <1>4, <1>5, <1>6, <1>7, <1>8, <1>9, <1>10, <1>11
     DEF I!Next, I!RunStep, I!LocalStep, I!PipelineStep


\* The facts about the data a step of a call needs.
LEMMA ClientData ==
  /\ C!NoReply \in [kind : C!AnswerKinds \cup {"none"}, after : C!RetryAfterHeaders]
  /\ \A kind \in C!AnswerKinds, after \in C!RetryAfterHeaders :
       C!Answer(kind, after) \in [kind : C!AnswerKinds \cup {"none"}, after : C!RetryAfterHeaders]
  /\ \A b \in SUBSET Executions :
       {C!Pending, C!Succeeded(b), C!Failed(b), C!Thrown("faulted"), C!Thrown("canceled")}
         \subseteq [verdict : C!Verdicts, posted : Nat, failed : Nat]
<1>1. \A b \in SUBSET Executions : C!Cardinality(b) \in Nat
  BY ExecutionsFinite, FS_Subset, FS_CardinalityType, SameCardinality
<1>2. QED
  BY <1>1 DEF C!NoReply, C!Answer, C!RetryAfterHeaders, C!Pending, C!Succeeded, C!Failed,
     C!Thrown, C!Verdicts

\* A wait has an integral number of milliseconds.
LEMMA DelayIsInt ==
  ASSUME NEW n \in Nat, n >= 1, NEW after \in C!RetryAfterHeaders
  PROVE  C!DelayFor(n, after) \in Int
<1>1. C!AdvisedDelay(after) \in Int
  <2>1. after.form = "delta" => after \in [form : {"delta", "date"}, ms : RetryAfters]
    BY DEF C!RetryAfterHeaders
  <2>2. after.form = "delta" => after.ms \in RetryAfters
    BY <2>1
  <2>3. RetryAfters \subseteq Int
    BY ConfigurationAssumption
  <2>4. after.form = "delta" => after.ms \in Int
    BY <2>2, <2>3
  <2>5. QED
    BY <2>4 DEF C!AdvisedDelay
<1>2. C!Backoff(n) \in Int
  BY ConfigurationAssumption DEF C!Backoff
<1>3. QED
  BY <1>1, <1>2 DEF C!DelayFor

\* A call keeps its types: the attempts stay within the configured number and
\* no wait exceeds what Task.Delay accepts.
LEMMA CallTypes ==
  ASSUME C!TypeOK, AttemptInv, C!CallStep
  PROVE  C!TypeOK' /\ AttemptInv'
<1> USE SomeAttempts DEF C!TypeOK, AttemptInv
<1>0. C!Attempts' = C!Attempts /\ C!Phases = {"idle", "auth", "loop", "send", "post", "wait"}
  BY DEF C!Attempts, C!Phases
<1>1. CASE C!AuthAccepted
  BY <1>1 DEF C!AuthAccepted, C!history, C!Phases, C!Requests
<1>2. CASE \/ C!AuthFails \/ C!AuthTimesOutOrCanceled \/ C!LoopCanceled \/ C!SendCanceled
           \/ C!WaitCanceled
  <2>1. /\ phase' = "idle"
        /\ result' \in {C!Thrown("faulted"), C!Thrown("canceled")}
        /\ UNCHANGED <<batch, attempt, bearer, delay, cancelled, tokenLive, wire, stored, reply,
                       called, sent, late, taken>>
    BY <1>2 DEF C!AuthFails, C!AuthTimesOutOrCanceled, C!LoopCanceled, C!SendCanceled,
       C!WaitCanceled, C!End, C!service, C!history
  <2>2. QED
    BY <2>1, ClientData DEF C!Phases, C!Requests
<1>3. CASE C!SendPost
  <2>1. C!Current \in C!Requests /\ C!Current' = C!Current
    BY <1>3 DEF C!SendPost, C!Current, C!Request, C!Requests
  <2>2. QED
    BY <1>3, <2>1, ClientData DEF C!SendPost, C!Phases, C!Requests
<1>4. CASE C!PostAccepted \/ C!PostRejected
  <2>1. /\ phase = "post" /\ phase' = "idle"
        /\ result' \in {C!Succeeded(batch), C!Failed(batch)}
        /\ \E k \in C!AnswerKinds : C!Take(k)
        /\ UNCHANGED <<batch, attempt, bearer, delay, cancelled, tokenLive, wire, stored,
                       called, sent, late>>
    BY <1>4 DEF C!PostAccepted, C!PostRejected, C!End, C!AnswerKinds
  <2>2. QED
    BY <2>1, ClientData DEF C!Take, C!Phases, C!Requests
<1>5. CASE C!PostTransient \/ C!PostTimesOut
  <2>1. PICK after \in C!RetryAfterHeaders, k \in C!AnswerKinds \cup {"timeout"} :
          /\ C!RetryOrFail(after)
          /\ C!Take(k)
          /\ phase = "post"
          /\ UNCHANGED <<cancelled, tokenLive, wire, stored, called, sent, late>>
    BY <1>5 DEF C!PostTransient, C!PostTimesOut, C!AnswerKinds, C!NoReply, C!RetryAfterHeaders
  <2>2. C!DelayFor(attempt, after) \in Int
    BY <2>1, DelayIsInt
  <2>3. /\ phase' \in {"idle", "wait"}
        /\ batch' = batch /\ attempt' = attempt /\ bearer' = bearer
        /\ phase' = "wait" => attempt # C!Attempts
        /\ delay' \in Int /\ delay' =< MaxDelay
        /\ result' \in [verdict : C!Verdicts, posted : Nat, failed : Nat]
    BY <2>1, <2>2, ClientData DEF C!RetryOrFail, C!LastAttempt, C!End
  <2>4. /\ reply' \in [kind : C!AnswerKinds \cup {"none"}, after : C!RetryAfterHeaders]
        /\ taken' \subseteq [request : sent', answer : C!AnswerKinds \cup {"timeout"}]
    BY <2>1, ClientData DEF C!Take
  <2>5. QED
    BY <2>1, <2>3, <2>4 DEF C!Phases, C!Requests
<1>6. CASE C!PostCanceled \/ C!PostUnreachable
  <2>1. /\ phase' = "idle"
        /\ result' \in {C!Thrown("faulted"), C!Thrown("canceled")}
        /\ reply' = C!NoReply
        /\ UNCHANGED <<batch, attempt, bearer, delay, cancelled, tokenLive, wire, stored,
                       called, sent, late, taken>>
    BY <1>6 DEF C!PostCanceled, C!PostUnreachable, C!End, C!history
  <2>2. QED
    BY <2>1, ClientData DEF C!Phases, C!Requests
<1>7. CASE C!WaitElapses
  <2>1. /\ phase = "wait" /\ phase' = "loop" /\ attempt' = attempt + 1
        /\ UNCHANGED <<batch, bearer, delay, result, cancelled, tokenLive, wire, stored, reply,
                       called, sent, late, taken>>
    BY <1>7 DEF C!WaitElapses, C!service, C!history
  <2>2. attempt' \in 0 .. C!Attempts /\ attempt' >= 1
    BY <2>1
  <2>3. QED
    BY <2>1, <2>2 DEF C!Phases, C!Requests
<1>8. CASE C!BeginAttempt
  <2>1. /\ phase = "loop" /\ phase' = "send"
        /\ UNCHANGED <<batch, attempt, bearer, delay, result, cancelled, tokenLive, wire, stored,
                       reply, called, sent, late, taken>>
    BY <1>8 DEF C!BeginAttempt, C!service, C!history
  <2>2. QED
    BY <2>1 DEF C!Phases, C!Requests
<1>9. QED
  BY <1>1, <1>2, <1>3, <1>4, <1>5, <1>6, <1>7, <1>8 DEF C!CallStep

\* So does a new call, for a batch of executions ...
LEMMA SubmitTypes ==
  ASSUME C!TypeOK, AttemptInv, NEW STATE b, b \in SUBSET Executions, C!Submit(b)
  PROVE  C!TypeOK' /\ AttemptInv'
<1>1. /\ batch' = b /\ called' = called \cup {b} /\ attempt' = 1 /\ result' = C!Pending
      /\ phase' \in {"auth", "loop"}
      /\ UNCHANGED <<bearer, delay, cancelled, tokenLive, wire, stored, reply, sent, late,
                   taken>>
  BY DEF C!Submit, C!service
<1>2. attempt' \in 0 .. C!Attempts
  BY <1>1, SomeAttempts
<1>3. C!Pending \in [verdict : C!Verdicts, posted : Nat, failed : Nat]
  BY ClientData
<1>4. called' \subseteq SUBSET Executions
  BY <1>1 DEF C!TypeOK
<1>5. phase' \in C!Phases
  BY <1>1 DEF C!Phases
<1>6. C!TypeOK'
  BY <1>1, <1>2, <1>3, <1>4, <1>5 DEF C!TypeOK
<1>7. AttemptInv'
  BY <1>1 DEF AttemptInv
<1>8. QED
  BY <1>6, <1>7

\* ... and the service, which answers what has been sent.
LEMMA ServiceTypes ==
  ASSUME C!TypeOK, AttemptInv, C!TokenExpires \/ \E r \in wire : C!ServiceHandles(r)
  PROVE  C!TypeOK' /\ AttemptInv' /\ UNCHANGED <<phase, batch, cancelled>>
<1> USE DEF C!TypeOK, AttemptInv
<1>1. CASE C!TokenExpires
  BY <1>1 DEF C!TokenExpires, C!client, C!history, C!Requests, C!Current
<1>2. ASSUME NEW r \in wire, C!ServiceHandles(r)
      PROVE  C!TypeOK' /\ AttemptInv' /\ UNCHANGED <<phase, batch, cancelled>>
  <2>1. stored' \subseteq sent
    BY <1>2 DEF C!ServiceHandles, C!ServiceAccepts, C!ServiceRejects, C!ServiceFails,
       C!ServiceAnswerLost
  <2>2. reply' \in [kind : C!AnswerKinds \cup {"none"}, after : C!RetryAfterHeaders]
    <3>1. C!NoReply.after \in C!RetryAfterHeaders
      BY DEF C!NoReply, C!RetryAfterHeaders
    <3>2. QED
      BY <1>2, <3>1, ClientData DEF C!ServiceHandles, C!ServiceAccepts, C!ServiceRejects,
         C!ServiceFails, C!ServiceAnswerLost, C!Deliver, C!AnswerKinds
  <2>3. QED
    BY <1>2, <2>1, <2>2 DEF C!ServiceHandles, C!client, C!history, C!Current
<1>3. QED
  BY <1>1, <1>2


\* Every step of the process keeps the types of its parts.
LEMMA TypesKeep ==
  TypesInv /\ DiscoveryInv /\ CallInv /\ RefusalInv /\ CollectedInv /\ ExitInv /\ [Next]_vars
    => TypesInv'
<1> SUFFICES ASSUME TypesInv, DiscoveryInv, CallInv, RefusalInv, CollectedInv, ExitInv, [Next]_vars
             PROVE  TypesInv'
  OBVIOUS
<1>0. /\ process \in {"starting", "running", "exited"} /\ exitCode \in {0, 2, 3, 4}
      /\ D!TypeOK /\ I!TypeOK /\ C!TypeOK /\ AttemptInv /\ OutcomeInv /\ ResultsInv
      /\ phase # "idle" => pc = "await" /\ batch = groups[current] /\ process = "running"
  BY DEF TypesInv, TypeOK, DiscoveryInv
<1>1. I!TypeOK' /\ OutcomeInv'
  BY <1>0, ImporterStep, PipelineTypes
<1>2. cancelled' \in BOOLEAN
  BY <1>1 DEF I!TypeOK
<1>3. UNCHANGED search => D!TypeOK'
  BY <1>0, <1>2 DEF search, D!TypeOK, D!Place
<1>4. UNCHANGED caller => C!TypeOK' /\ AttemptInv'
  BY <1>0, <1>2 DEF caller, C!TypeOK, C!Requests, AttemptInv, C!Current
<1>5. CASE RejectConfiguration \/ Start
  <2>1. phase = "idle" /\ UNCHANGED <<search, caller>>
    BY <1>0, <1>5 DEF RejectConfiguration, Start, ExitInv
  <2>2. phase' = "idle"
    BY <2>1 DEF caller
  <2>3. process' \in {"starting", "running", "exited"} /\ exitCode' \in {0, 2, 3, 4}
    BY <1>0, <1>5 DEF RejectConfiguration, Start
  <2>4. QED
    BY <1>1, <1>3, <1>4, <2>1, <2>2, <2>3 DEF TypesInv, TypeOK
<1>6. CASE Exit
  <2>1. /\ pc = "ended" /\ outcome \in {"returned", "canceled", "faulted"} /\ exit \in {0, 2, 3}
    BY <1>0, <1>6 DEF Exit, I!TypeOK, OutcomeInv
  <2>2. process' = "exited" /\ exitCode' \in {0, 2, 3, 4} /\ UNCHANGED <<search, caller>>
    BY <1>6, <2>1 DEF Exit, ExitCodeOf
  <2>3. phase' = "idle"
    BY <1>0, <2>1, <2>2 DEF caller
  <2>4. QED
    BY <1>1, <1>3, <1>4, <2>2, <2>3 DEF TypesInv, TypeOK
<1>7. CASE SearchStep \/ StdinStep
  <2>1. D!TypeOK' /\ UNCHANGED <<program, pipeline, caller>>
    BY <1>0, <1>7, SearchTypes DEF SearchStep, StdinStep
  <2>2. QED
    BY <1>0, <1>1, <1>4, <2>1 DEF program, pipeline, caller, TypesInv, TypeOK
<1>8. CASE Discover \/ PipelineStep
  <2>1. pc # "await" /\ UNCHANGED <<program, search, caller>>
    BY <1>8, GroupsRest DEF Discover, I!Discover, I!DiscoverCanceled, I!DiscoverFails, PipelineStep
  <2>2. phase' = "idle"
    BY <1>0, <2>1 DEF caller
  <2>3. QED
    BY <1>0, <1>1, <1>3, <1>4, <2>1, <2>2 DEF program, TypesInv, TypeOK
<1>9. ASSUME NEW s \in Scenarios, SubmitGroup(s)
      PROVE  TypesInv'
  <2>1. /\ process = "running" /\ pc = "submit" /\ pc' = "await" /\ current' = s /\ groups' = groups
        /\ C!Submit(groups[s]) /\ batch' = groups[s] /\ UNCHANGED <<program, search>>
    BY <1>9 DEF SubmitGroup, I!SubmitGroup, C!Submit, I!collecting
  <2>2. groups[s] \in SUBSET Executions
    BY <1>0, <2>1, GroupsAreExecutions
  <2>3. C!TypeOK' /\ AttemptInv'
    BY <1>0, <2>1, <2>2, SubmitTypes
  <2>4. QED
    BY <1>0, <1>1, <1>3, <2>1, <2>3 DEF program, TypesInv, TypeOK
<1>10. CASE ClientStep
  <2>1. C!TypeOK' /\ AttemptInv' /\ UNCHANGED <<program, search, pipeline>> /\ batch' = batch
        /\ phase # "idle"
    BY <1>0, <1>10, CallTypes, CallSteps DEF ClientStep
  <2>2. QED
    BY <1>0, <1>1, <1>3, <2>1 DEF program, pipeline, TypesInv, TypeOK
<1>11. CASE ClientReturns
  <2>1. phase = "idle" /\ UNCHANGED <<program, search, caller>>
    BY <1>11 DEF ClientReturns
  <2>2. phase' = "idle"
    BY <2>1 DEF caller
  <2>3. QED
    BY <1>0, <1>1, <1>3, <1>4, <2>1, <2>2 DEF program, TypesInv, TypeOK
<1>12. CASE CancelKeyPress \/ UNCHANGED vars \/ Gone
  <2>1. UNCHANGED <<program, search, pipeline, caller>>
    BY <1>12 DEF CancelKeyPress, Gone, vars
  <2>2. QED
    BY <1>0, <1>1, <1>3, <1>4, <2>1 DEF program, pipeline, caller, TypesInv, TypeOK
<1>13. CASE ServiceStep
  <2>1. C!TypeOK' /\ AttemptInv' /\ UNCHANGED <<program, search, pipeline, phase, batch>>
    BY <1>0, <1>13, ServiceTypes DEF ServiceStep
  <2>2. QED
    BY <1>0, <1>1, <1>3, <2>1 DEF program, pipeline, TypesInv, TypeOK
<1>14. QED
  BY <1>5, <1>6, <1>7, <1>8, <1>9, <1>10, <1>11, <1>12, <1>13 DEF Next, ProcessStep

\* Every part keeps its types in the process, the client is at work only while
\* the pipeline awaits it with the group it was given, and the exit code is one
\* of the four there are.
THEOREM RunTyped == Spec => []TypeOK
<1> DEFINE Inv == CollectedInv /\ ExitInv /\ TypesInv
<1>1. TypesInv => TypeOK
  BY DEF TypesInv
<1>2. Init => Inv
  BY CollectedInit, TypesInit
<1>3. Inv /\ VerdictsInv /\ CallInv /\ RefusalInv /\ DiscoveryInv /\ [Next]_vars => Inv'
  BY CollectedKeeps, ExitKeeps, TypesKeep DEF DiscoveryInv
<1>4. DiscoveryInv => ResultsInv
  BY DEF DiscoveryInv
<1>5. QED
  BY <1>1, <1>2, <1>3, <1>4, AnswersInit, VerdictsInit, CountsKeep, CallInit, CallKeeps,
     RefusalInit, RefusalKeeps, DiscoveryInit, DiscoveryStep, PTL DEF Spec
=============================================================================
