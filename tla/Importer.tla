------------------------------ MODULE Importer ------------------------------
(***************************************************************************)
(* One run of the import pipeline (Services/Importer.cs): discover the      *)
(* input files, parse each, resolve the ids of every test case, collect the *)
(* mapped ones by scenario, and only then submit one group per scenario.    *)
(*                                                                         *)
(* The collaborators are abstract here: discovery yields any list of files  *)
(* in Inputs, parsing yields the test cases of a well-formed file, and a    *)
(* call of the aqua client ends with a result of either verdict or an       *)
(* exception.  A test case is the list of ids the resolvers and the parser  *)
(* found for it; a collected execution is the position <<f, t>> of its test *)
(* case: test case t of file f.                                             *)
(***************************************************************************)
EXTENDS Integers, Sequences, FiniteSets

CONSTANTS
    Null,           \* no id
    Scenarios,      \* the scenario ids that occur
    Inputs,         \* the lists of files discovery may yield
    OptionSets      \* the BehaviorOptions to consider

Ids == Nat \cup {Null}

\* scenName, scenAlt: what the scenario resolver finds in the name and in
\* "class.name"; caseProp: the case_id property; caseName, caseAlt as above.
TestCases == [scenName : Scenarios \cup {Null}, scenAlt : Scenarios \cup {Null},
              caseProp : Int \cup {Null}, caseName : Ids, caseAlt : Ids]
Files == [wellFormed : BOOLEAN, tests : Seq(TestCases)]
Options == [dryRun : BOOLEAN, skipUnmapped : BOOLEAN, failOnUnmapped : BOOLEAN]

ASSUME NullAssumption == Null \notin Int
ASSUME ScenariosAssumption == Scenarios \subseteq Nat /\ IsFiniteSet(Scenarios)
ASSUME InputsAssumption == \A input \in Inputs : input \in Seq(Files)
ASSUME OptionSetsAssumption == OptionSets \subseteq Options

VARIABLES
    options,        \* _behavior
    pc,             \* where RunAsync is
    files,          \* the discovered files
    file,           \* the file the foreach of AggregateAsync is at
    pos,            \* the test case the foreach of AggregateFileAsync is at
    groups,         \* scenarioToExecutions
    mapped, skipped,        \* the counters of the same names
    todo,           \* groups the foreach of SubmitScenarioGroupsAsync has not reached
    current,        \* the group it is submitting
    posted, failed,         \* posted and failedPosts
    outcome,        \* how RunAsync ended: returned, canceled or faulted
    exit,           \* the exit code it returned
    cancelled,      \* the CancellationToken
    verdicts        \* history: the verdict of each group's call

collecting  == <<files, file, pos, groups, mapped, skipped>>
submitting  == <<todo, current, posted, failed, verdicts>>
ending      == <<outcome, exit>>
pipeline    == <<options, pc, collecting, submitting, ending>>
vars        == <<pipeline, cancelled>>

----------------------------------------------------------------------------
(* Resolution of the ids of one test case: ProcessResult.                   *)

Coalesce(a, b) == IF a # Null THEN a ELSE b

ScenarioId(t) == Coalesce(t.scenName, t.scenAlt)

CaseId(t) == Coalesce(t.caseProp, Coalesce(t.caseName, t.caseAlt))

IsMapped(t) ==
    /\ ScenarioId(t) # Null /\ ScenarioId(t) >= 0
    /\ CaseId(t) # Null /\ CaseId(t) > 0

TestAt(r) == files[r[1]].tests[r[2]]

\* The keys of the dictionary, which holds no empty list.
Keys == {s \in Scenarios : groups[s] # {}}

SkippedExit == IF skipped > 0 THEN 2 ELSE 0

----------------------------------------------------------------------------
Init ==
    /\ options \in OptionSets
    /\ pc = "discover"
    /\ files = <<>>
    /\ file = 1
    /\ pos = 1
    /\ groups = [s \in Scenarios |-> {}]
    /\ mapped = 0 /\ skipped = 0
    /\ todo = {} /\ current = Null
    /\ posted = 0 /\ failed = 0
    /\ verdicts = [s \in Scenarios |-> "none"]
    /\ outcome = "none" /\ exit = 0
    /\ cancelled = FALSE

\* RunAsync returns an exit code, or an exception leaves it.
Return(code) ==
    /\ pc' = "ended"
    /\ outcome' = "returned"
    /\ exit' = code

Throw(kind) ==
    /\ pc' = "ended"
    /\ outcome' = kind
    /\ exit' = exit

----------------------------------------------------------------------------
(* DiscoverAndTagAsync.                                                     *)

Discover ==
    /\ pc = "discover"
    /\ files' \in Inputs
    /\ pc' = "file"
    /\ UNCHANGED <<options, file, pos, groups, mapped, skipped, submitting, ending, cancelled>>

\* The token is checked for every path and file.
DiscoverCanceled ==
    /\ pc = "discover"
    /\ cancelled
    /\ Throw("canceled")
    /\ UNCHANGED <<options, collecting, submitting, cancelled>>

\* A directory that cannot be enumerated: nothing catches the exception.
DiscoverFails ==
    /\ pc = "discover"
    /\ Throw("faulted")
    /\ UNCHANGED <<options, collecting, submitting, cancelled>>

----------------------------------------------------------------------------
(* AggregateAsync and AggregateFileAsync.                                   *)

BeginFile ==
    /\ pc = "file"
    /\ file =< Len(files)
    /\ ~cancelled
    /\ pc' = "parse"
    /\ UNCHANGED <<options, collecting, submitting, ending, cancelled>>

\* Both loops check the token at the head of every round.
LoopCanceled ==
    /\ \/ pc = "file" /\ file =< Len(files)
       \/ pc = "test" /\ pos =< Len(files[file].tests)
    /\ cancelled
    /\ Throw("canceled")
    /\ UNCHANGED <<options, collecting, submitting, cancelled>>

Parse ==
    /\ pc = "parse"
    /\ files[file].wellFormed
    /\ pc' = "test"
    /\ UNCHANGED <<options, collecting, submitting, ending, cancelled>>

\* TryParseFileAsync turns every exception into exit code 2: malformed XML, a
\* file that cannot be opened any more, and a cancellation during the parse.
\* mutant: the file is tried again
ParseRetried ==
    /\ pc = "parse"
    /\ ~files[file].wellFormed \/ cancelled
    /\ pc' = "file"
    /\ UNCHANGED <<options, collecting, submitting, ending, cancelled>>

ParseFails ==
    /\ pc = "parse"
    /\ ~files[file].wellFormed \/ cancelled
    /\ Return(2)
    /\ UNCHANGED <<options, collecting, submitting, cancelled>>

NextTest == pos' = pos + 1 /\ UNCHANGED <<pc, files, file>>

\* A test case with both ids joins the group of its scenario.
LostGroup(s) == [groups EXCEPT ![s] = {<<file, pos>>}]      \* mutant: list replaced
AddExecutionToScenarioGroup(s) == [groups EXCEPT ![s] = @ \cup {<<file, pos>>}]

MapTest ==
    LET t == files[file].tests[pos] IN
    /\ pc = "test"
    /\ pos =< Len(files[file].tests)
    /\ ~cancelled
    /\ IsMapped(t)
    /\ groups' = AddExecutionToScenarioGroup(ScenarioId(t))
    /\ mapped' = mapped + 1
    /\ NextTest
    /\ UNCHANGED <<options, skipped, submitting, ending, cancelled>>

\* fail-on-unmapped is looked at only when skip-unmapped is off.
FailsUnmapped == ~options.skipUnmapped /\ options.failOnUnmapped

SkipTest ==
    /\ pc = "test"
    /\ pos =< Len(files[file].tests)
    /\ ~cancelled
    /\ ~IsMapped(files[file].tests[pos])
    /\ ~FailsUnmapped
    /\ skipped' = skipped + 1
    /\ NextTest
    /\ UNCHANGED <<options, groups, mapped, submitting, ending, cancelled>>

\* mutant: the refusal ends the file and not the run
RefusalSkipsFile ==
    /\ pc = "test"
    /\ pos =< Len(files[file].tests)
    /\ ~cancelled
    /\ ~IsMapped(files[file].tests[pos])
    /\ FailsUnmapped
    /\ pc' = "file"
    /\ file' = file + 1
    /\ pos' = 1
    /\ UNCHANGED <<options, files, groups, mapped, skipped, submitting, ending, cancelled>>

FailTest ==
    /\ pc = "test"
    /\ pos =< Len(files[file].tests)
    /\ ~cancelled
    /\ ~IsMapped(files[file].tests[pos])
    /\ FailsUnmapped
    /\ Return(2)
    /\ UNCHANGED <<options, collecting, submitting, cancelled>>

EndFile ==
    /\ pc = "test"
    /\ pos > Len(files[file].tests)
    /\ pc' = "file"
    /\ file' = file + 1
    /\ pos' = 1
    /\ UNCHANGED <<options, files, groups, mapped, skipped, submitting, ending, cancelled>>

----------------------------------------------------------------------------
(* RunAsync after the aggregation, and SubmitScenarioGroupsAsync.           *)

Collected == pc = "file" /\ file > Len(files)

HandleDryRun ==
    /\ Collected
    /\ options.dryRun
    /\ Return(SkippedExit)
    /\ UNCHANGED <<options, collecting, submitting, cancelled>>

BeginSubmit ==
    /\ Collected
    /\ ~options.dryRun
    /\ pc' = "submit"
    /\ todo' = Keys
    /\ UNCHANGED <<options, collecting, current, posted, failed, verdicts, ending, cancelled>>

\* The foreach hands the next group to the client.
SubmitGroup(s) ==
    /\ pc = "submit"
    /\ s \in todo
    /\ pc' = "await"
    /\ todo' = todo \ {s}
    /\ current' = s
    /\ UNCHANGED <<options, collecting, posted, failed, verdicts, ending, cancelled>>

\* SubmitExecutionsAsync returns a result: the counters take its numbers and
\* the loop goes on, whatever the verdict.
StopAtFailure == {}                                         \* mutant: break after a failure
AfterFailure == todo

GroupPosted(n) ==
    /\ pc = "await"
    /\ pc' = "submit"
    /\ posted' = posted + n
    /\ verdicts' = [verdicts EXCEPT ![current] = "success"]
    /\ UNCHANGED <<options, collecting, todo, current, failed, ending, cancelled>>

\* mutant: a failed call counts once, not once per execution
CallCounted(n) ==
    /\ pc = "await"
    /\ pc' = "submit"
    /\ failed' = failed + 1
    /\ todo' = AfterFailure
    /\ verdicts' = [verdicts EXCEPT ![current] = "failure"]
    /\ UNCHANGED <<options, collecting, current, posted, ending, cancelled>>

GroupFailed(n) ==
    /\ pc = "await"
    /\ pc' = "submit"
    /\ failed' = failed + n
    /\ todo' = AfterFailure
    /\ verdicts' = [verdicts EXCEPT ![current] = "failure"]
    /\ UNCHANGED <<options, collecting, current, posted, ending, cancelled>>

\* An exception of the client leaves the loop and RunAsync.
GroupThrows(kind) ==
    /\ pc = "await"
    /\ Throw(kind)
    /\ UNCHANGED <<options, collecting, submitting, cancelled>>

\* 3 if any execution could not be posted, else 2 if any test was skipped.
SkippedFirst == IF skipped > 0 THEN 2 ELSE IF failed > 0 THEN 3 ELSE 0    \* mutant
SubmittedExit == IF failed > 0 THEN 3 ELSE SkippedExit

EndSubmit ==
    /\ pc = "submit"
    /\ todo = {}
    /\ Return(SubmittedExit)
    /\ UNCHANGED <<options, collecting, submitting, cancelled>>

----------------------------------------------------------------------------
\* The contract of IAquaClient: a result counts the executions of its group.
ClientEnds ==
    \/ GroupPosted(Cardinality(groups[current]))
    \/ GroupFailed(Cardinality(groups[current]))
    \/ \E kind \in {"canceled", "faulted"} : GroupThrows(kind)

CancelKeyPress ==
    /\ ~cancelled
    /\ cancelled' = TRUE
    /\ UNCHANGED pipeline

\* The steps RunAsync takes by itself, those it takes without the client, and
\* all its steps.
PipelineStep ==
    \/ BeginFile \/ LoopCanceled \/ Parse \/ ParseFails
    \/ MapTest \/ SkipTest \/ FailTest \/ EndFile
    \/ HandleDryRun \/ BeginSubmit
    \/ EndSubmit

LocalStep == Discover \/ DiscoverCanceled \/ DiscoverFails \/ PipelineStep

RunStep == LocalStep \/ \E s \in Scenarios : SubmitGroup(s)

Ended == pc = "ended" /\ UNCHANGED vars

Next == RunStep \/ (pc = "await" /\ ClientEnds) \/ CancelKeyPress \/ Ended

\* RunAsync runs as long as it can and the client ends every call (CallsEnd
\* of AquaClient).  Nobody is obliged to cancel.
Safety == Init /\ [][Next]_vars
Spec == Safety /\ WF_vars(RunStep) /\ WF_vars(pc = "await" /\ ClientEnds)

----------------------------------------------------------------------------
(* Properties.                                                              *)

PCs == {"discover", "file", "parse", "test", "submit", "await", "ended"}

\* Every variable holds a value of its kind, and the two loops stay within
\* the files and test cases there are.
TypeOK ==
    /\ options \in Options
    /\ pc \in PCs
    /\ files \in Seq(Files)
    /\ file \in 1 .. Len(files) + 1
    /\ pc \in {"parse", "test"} => file =< Len(files)
    /\ pos \in Nat \ {0}
    /\ pc = "test" => pos =< Len(files[file].tests) + 1
    /\ groups \in [Scenarios -> SUBSET (Nat \X Nat)]
    /\ mapped \in Nat /\ skipped \in Nat
    /\ todo \subseteq Scenarios
    /\ current \in Scenarios \cup {Null}
    /\ pc = "await" => current \in Scenarios
    /\ posted \in Nat /\ failed \in Nat
    /\ outcome \in {"none", "returned", "canceled", "faulted"}
    /\ exit \in {0, 2, 3}
    /\ cancelled \in BOOLEAN
    /\ verdicts \in [Scenarios -> {"none", "success", "failure"}]

\* The test cases of the discovered files, and those the loops have passed.
Positions == UNION {{f} \X (1 .. Len(files[f].tests)) : f \in 1 .. Len(files)}
Read == {r \in Positions : r[1] < file \/ (r[1] = file /\ r[2] < pos)}

\* The test cases there are to read: a malformed file yields none.
Readable == {r \in Positions : files[r[1]].wellFormed}

MappedOf(S) == {r \in S : IsMapped(TestAt(r))}
InScenario(S, s) == {r \in MappedOf(S) : ScenarioId(TestAt(r)) = s}

\* At every point of the run, what has been collected for a scenario is
\* exactly the mapped test cases of that scenario read so far: none is lost,
\* repeated or filed under another scenario.
GroupsExact == \A s \in Scenarios : groups[s] = InScenario(Read, s)

\* The counters of the summary are the numbers of test cases they stand for.
CountersExact ==
    /\ mapped = Cardinality(MappedOf(Read))
    /\ skipped = Cardinality(Read \ MappedOf(Read))

GroupsWith(verdict) == {s \in Scenarios : verdicts[s] = verdict}
ExecutionsOf(S) == UNION {groups[s] : s \in S}

\* What the run reports as posted and failed is what the calls of the client
\* reported, each group counted once.
PostsExact ==
    /\ posted = Cardinality(ExecutionsOf(GroupsWith("success")))
    /\ failed = Cardinality(ExecutionsOf(GroupsWith("failure")))

\* The summary of the run is right at every moment: each of its counters is
\* the number of test cases it stands for.
CountsExact == CountersExact /\ PostsExact

\* Nothing is submitted before every test case has been read, and in a strict
\* run found mapped: an unmapped test case in the last file leaves the groups of
\* the first with the service untouched.  A dry run submits nothing at all.
SubmitsOnlyComplete ==
    pc \in {"submit", "await"} \/ GroupsWith("none") # Scenarios =>
        /\ ~options.dryRun
        /\ Readable \subseteq Read
        /\ FailsUnmapped => MappedOf(Readable) = Readable

\* Every group gets its turn: a run that returns after submitting has a
\* verdict for each group, a failed one not excepted, and accounts for every
\* mapped test case.
EveryGroupTried ==
    outcome = "returned" /\ ~options.dryRun /\ file > Len(files) =>
        /\ \A s \in Keys : verdicts[s] # "none"
        /\ posted + failed = mapped

\* What an exit code lets a CI job conclude: 0 that every test case was read,
\* mapped and (dry runs aside) recorded, 3 that some were refused.
ExitMeaning ==
    outcome = "returned" =>
        /\ exit = 0 => /\ Read = Positions /\ MappedOf(Positions) = Positions
                       /\ options.dryRun \/ posted = Cardinality(Positions)
        /\ exit = 3 <=> GroupsWith("failure") # {}

\* Where the loops stand: what lies behind was well formed, a loop position
\* starts at the first test case, and a strict run has skipped nothing.
ReadInv ==
    /\ pc = "discover" => files = <<>> /\ file = 1
    /\ pc # "test" /\ pc # "ended" => pos = 1
    /\ file > Len(files) => pos = 1
    /\ \A f \in 1 .. Len(files) : f < file => files[f].wellFormed
    /\ pc = "test" => files[file].wellFormed
    /\ FailsUnmapped => skipped = 0

\* Where the submission stands: it follows a complete collection, and every
\* group is still to do, at the client, or has its verdict.
SubmitInv ==
    /\ pc \in {"submit", "await"} \/ GroupsWith("none") # Scenarios =>
         ~options.dryRun /\ file > Len(files)
    /\ pc \in {"discover", "file", "parse", "test"} => GroupsWith("none") = Scenarios
    /\ \A s \in Scenarios : verdicts[s] # "none" => s \in Keys
    /\ \A s \in todo : s \in Keys /\ verdicts[s] = "none"
    /\ pc \in {"discover", "file", "parse", "test"} => todo = {}
    /\ pc = "submit" => \A s \in Keys : s \in todo \/ verdicts[s] # "none"
    /\ pc = "await" => /\ current \in Keys \ todo /\ verdicts[current] = "none"
                       /\ \A s \in Keys : s \in todo \/ s = current \/ verdicts[s] # "none"

\* How RunAsync returned: early, from a dry run, or after the last group.
EndInv ==
    /\ outcome = "none" <=> pc # "ended"
    /\ outcome = "returned" =>
         \/ file =< Len(files) /\ exit = 2 /\ GroupsWith("none") = Scenarios
         \/ file > Len(files) /\ options.dryRun /\ exit = SkippedExit
         \/ /\ file > Len(files) /\ ~options.dryRun /\ exit = SubmittedExit
            /\ \A s \in Keys : verdicts[s] # "none"

\* The inductive invariant behind the properties above.
IInv ==
    /\ TypeOK
    /\ GroupsExact
    /\ CountersExact
    /\ PostsExact
    /\ ReadInv
    /\ SubmitInv
    /\ EndInv

\* The run ends, whatever the client answers and wherever the user cancels.
RunEnds == <>(pc = "ended")

\* docs/requirements.md:136: exit code 2 is "parsing/mapping issues but completed
\* (when not configured to fail)": every test case that can be read has been, and
\* the mapped ones (dry runs aside) have been handed to the client.
IssuesAreCompleted ==
    outcome = "returned" /\ exit = 2 /\ ~options.failOnUnmapped /\ ~cancelled =>
        /\ Readable \subseteq Read
        /\ options.dryRun \/ MappedOf(Readable) \subseteq
                                ExecutionsOf(GroupsWith("success") \cup GroupsWith("failure"))

\* Program.cs:163-167: a run the user cancels is canceled gracefully (exit
\* code 0): it does not end as a run with parsing issues.
CancelIsGraceful ==
    outcome = "returned" /\ exit = 2 /\ (\A f \in 1 .. Len(files) : files[f].wellFormed)
      => skipped > 0 \/ FailsUnmapped
=============================================================================
