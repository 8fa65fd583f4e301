----------------------------- MODULE ImportRun -----------------------------
(***************************************************************************)
(* The whole process: Program.cs starts the pipeline of Importer, the       *)
(* pipeline has InputDiscovery find its files and hands each group to the   *)
(* AquaClient, and Program turns the way the pipeline ended into the exit    *)
(* code of the process.  They share the CancellationToken.                  *)
(***************************************************************************)
EXTENDS Integers, Sequences, FiniteSets

CONSTANTS
    Null, Scenarios, OptionSets,                                  \* Importer
    Retries, RetryAfters, BackoffCap, MaxDelay,                   \* AquaClient
    Names, Blank, Places, TempFile, Layouts, Fold,                \* InputDiscovery
    Content,        \* place -> what the parser makes of the file there
    MaxFiles

VARIABLES
    process, exitCode,      \* Program: its progress and Environment.ExitCode
    layout, at, path, entry, results,                             \* InputDiscovery
    options, pc, files, file, pos, groups, mapped, skipped, todo, current,
    posted, failed, outcome, exit, verdicts,                      \* Importer
    phase, batch, attempt, bearer, delay, result,
    tokenLive, wire, stored, reply, called, sent, late, taken,    \* AquaClient
    cancelled               \* the CancellationTokenSource

D == INSTANCE InputDiscovery

ASSUME LayoutsAssumption == Layouts \subseteq D!LayoutType /\ TempFile \in Places

\* No layout stands for more than MaxFiles files, so these are the lists of files
\* discovery may yield, and the positions of their test cases.
ASSUME MaxFilesAssumption ==
    MaxFiles \in Nat /\ \A l \in Layouts : Cardinality(D!Wanted(l)) =< MaxFiles

Inputs == UNION {[1 .. n -> {Content[p] : p \in Places}] : n \in 0 .. MaxFiles}
Executions == (1 .. MaxFiles) \X UNION {1 .. Len(Content[p].tests) : p \in Places}

I == INSTANCE Importer

ASSUME ContentAssumption == IsFiniteSet(Places) /\ Content \in [Places -> I!Files]

C == INSTANCE AquaClient

\* The kinds of the configured values: what the binding of the options leaves of them.
ASSUME ConfigurationAssumption ==
    /\ OptionSets \subseteq I!Options
    /\ Retries \in Int /\ RetryAfters \subseteq Nat
    /\ BackoffCap \in Nat /\ MaxDelay \in Nat /\ BackoffCap =< MaxDelay

program  == <<process, exitCode>>
search   == <<layout, at, path, entry, results>>
pipeline == <<options, pc, files, file, pos, groups, mapped, skipped, todo, current,
              posted, failed, outcome, exit, verdicts>>
caller   == <<phase, batch, attempt, bearer, delay, result, tokenLive, wire, stored,
              reply, called, sent, late, taken>>
vars     == <<program, search, pipeline, caller, cancelled>>

----------------------------------------------------------------------------
Init ==
    /\ process = "starting"
    /\ exitCode = 0
    /\ D!Init
    /\ I!Init
    /\ C!Init

\* ValidateConfiguration finds an error, or a part of the importer cannot be
\* constructed: exit code 4 and no run.
RejectConfiguration ==
    /\ process = "starting"
    /\ process' = "exited"
    /\ exitCode' = 4
    /\ UNCHANGED <<search, pipeline, caller, cancelled>>

\* The host is built, Ctrl-C is redirected and RunAsync is called.
Start ==
    /\ process = "starting"
    /\ process' = "running"
    /\ UNCHANGED <<exitCode, search, pipeline, caller, cancelled>>

\* The handlers around RunAsync: an OperationCanceledException is taken for a
\* cancellation by the user, any other exception for an unexpected error.
ZeroUnlessFaulted(how) == IF how = "faulted" THEN 4 ELSE 0   \* mutant: result dropped
ExitCodeOf(how) ==
    CASE how = "returned" -> exit
      [] how = "canceled" -> 0
      [] how = "faulted"  -> 4

\* mutant: RunAsync is not awaited
ExitUnawaited ==
    /\ process = "running"
    /\ process' = "exited"
    /\ exitCode' = exit
    /\ UNCHANGED <<search, pipeline, caller, cancelled>>

Exit ==
    /\ process = "running"
    /\ pc = "ended"
    /\ process' = "exited"
    /\ exitCode' = ExitCodeOf(outcome)
    /\ UNCHANGED <<search, pipeline, caller, cancelled>>

----------------------------------------------------------------------------
\* The pipeline has called DiscoverAsync, which searches by itself ...
SearchStep ==
    /\ process = "running"
    /\ D!LoopStep
    /\ UNCHANGED <<program, pipeline, caller>>

\* ... or depends on whoever writes the standard input.
StdinStep ==
    /\ process = "running"
    /\ D!StdinEnds \/ D!StdinThrows
    /\ UNCHANGED <<program, pipeline, caller>>

\* It has ended: its files, or its exception, are the pipeline's.
Discover ==
    /\ process = "running"
    /\ \/ /\ at = "returned"
          /\ files' = [i \in 1 .. Len(results) |-> Content[results[i]]]
          /\ I!Discover
       \/ at = "canceled" /\ I!DiscoverCanceled
       \/ at = "faulted" /\ I!DiscoverFails
    /\ UNCHANGED <<program, search, caller>>

\* A step of the pipeline between calls of the client.
PipelineStep ==
    /\ process = "running"
    /\ I!PipelineStep
    /\ UNCHANGED <<program, search, caller>>

\* The pipeline calls SubmitExecutionsAsync with the next group.
\* mutant: every collected execution in one call
SubmitAll(s) ==
    /\ process = "running"
    /\ I!SubmitGroup(s)
    /\ C!Submit(I!ExecutionsOf(Scenarios))
    /\ UNCHANGED <<program, search>>

SubmitGroup(s) ==
    /\ process = "running"
    /\ I!SubmitGroup(s)
    /\ C!Submit(groups[s])
    /\ UNCHANGED <<program, search>>

\* The client works on the call.
ClientStep ==
    /\ C!CallStep
    /\ UNCHANGED <<program, search, pipeline>>

\* The call has ended: the pipeline takes its result or its exception.
\* mutant: every result counts as posted
AllCountAsPosted ==
    /\ pc = "await"
    /\ phase = "idle"
    /\ \/ result.verdict \in {"success", "failure"} /\ I!GroupPosted(result.posted)
       \/ result.verdict \in {"canceled", "faulted"} /\ I!GroupThrows(result.verdict)
    /\ UNCHANGED <<program, search, caller>>

ClientReturns ==
    /\ pc = "await"
    /\ phase = "idle"
    /\ \/ result.verdict = "success" /\ I!GroupPosted(result.posted)
       \/ result.verdict = "failure" /\ I!GroupFailed(result.failed)
       \/ result.verdict \in {"canceled", "faulted"} /\ I!GroupThrows(result.verdict)
    /\ UNCHANGED <<program, search, caller>>

CancelKeyPress ==
    /\ process = "running"
    /\ ~cancelled
    /\ cancelled' = TRUE
    /\ UNCHANGED <<program, search, pipeline, caller>>

\* The service may still handle requests after the process has gone.
ServiceStep ==
    /\ C!TokenExpires \/ \E r \in wire : C!ServiceHandles(r)
    /\ UNCHANGED <<program, search, pipeline>>

Gone == process = "exited" /\ UNCHANGED vars

ProcessStep ==
    \/ RejectConfiguration \/ Start \/ Exit
    \/ SearchStep \/ Discover \/ PipelineStep
    \/ \E s \in Scenarios : SubmitGroup(s)
    \/ ClientStep \/ ClientReturns

Next == ProcessStep \/ StdinStep \/ CancelKeyPress \/ ServiceStep \/ Gone

\* The process runs as long as it can: each of its waits for the service ends
\* by itself (see AquaClient), the service need not answer.  Nobody is obliged
\* to close the standard input.
Spec == Init /\ [][Next]_vars /\ WF_vars(ProcessStep)

----------------------------------------------------------------------------
(* Properties.                                                              *)

\* The parts keep their types, and the pipeline awaits the client whenever
\* the client is at work.
TypeOK ==
    /\ process \in {"starting", "running", "exited"}
    /\ exitCode \in {0, 2, 3, 4}
    /\ D!TypeOK
    /\ I!TypeOK
    /\ C!TypeOK
    /\ phase # "idle" => pc = "await" /\ batch = groups[current] /\ process = "running"

\* Every POST carries the whole group of one scenario, each attempt of it the
\* same executions: no request mixes scenarios, splits a group or holds a
\* group that was not complete when it was sent.
PostsCarryGroups == \A r \in sent : \E s \in Scenarios : r.batch = groups[s]

\* What the run counts as posted has been recorded by the service; what it
\* counts as failed was refused or met errors to the last attempt.
CountsAreEarned ==
    \A s \in Scenarios :
        /\ verdicts[s] = "success" => \E r \in stored : r.batch = groups[s]
        /\ verdicts[s] = "failure" =>
              \/ \E t \in taken : t.request.batch = groups[s] /\ t.answer = "rejected"
              \/ \A n \in 1 .. C!Attempts : C!Unsettled(C!Request(groups[s], n))

\* What discovery returns is found by the paths, each file once.
DiscoversExactly == D!DiscoversExactly

\* A run that has returned 0 and was no dry run has left every test case in the
\* service: those of the files it has discovered, and with them those of every
\* file its paths stand for, unless another of these files differs from it in
\* nothing but case.
ZeroMeansRecorded ==
    process = "exited" /\ outcome = "returned" /\ exitCode = 0 /\ ~options.dryRun =>
        LET recorded == UNION {r.batch : r \in stored}
            wanted == D!Wanted(layout) IN
        /\ recorded = I!Positions
        /\ \A p \in wanted :
             (\A q \in wanted : Fold[q] = Fold[p] => q = p) =>
               \E f \in DOMAIN results :
                 results[f] = p /\ {f} \X (1 .. Len(Content[p].tests)) \subseteq recorded

\* A dry run, and a run that a strict policy refuses for a test case anywhere in
\* its files, send nothing, not even a request for a token.
RefusalsAreSilent ==
    \/ options.dryRun
    \/ I!FailsUnmapped /\ I!MappedOf(I!Readable) # I!Readable
    => sent = {} /\ ~bearer /\ phase = "idle"

\* The process refines the pipeline with an abstract client: the real client
\* honours the contract Importer assumes of it, so every invariant of Importer
\* holds of the process.
ImplementsImporter == I!Safety

\* The process exits, unless it waits for an end of the standard input for ever.
ProcessExits == <>(process = "exited") \/ <>[](process = "running" /\ at = "stdin")

\* docs/requirements.md:135: exit code 0 is success.  Unless the user has
\* cancelled, a run that exits with it has recorded every group.
ZeroIsSuccess ==
    process = "exited" /\ exitCode = 0 /\ ~cancelled /\ ~options.dryRun =>
        \A s \in I!Keys : \E r \in stored : r.batch = groups[s]
=============================================================================
