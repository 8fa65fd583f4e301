# Verification of the aqua examples

TLA+ models of the programs in this repository, the TLC configurations that
check them on small instances, and TLAPS proofs of the central results for
every instance. The repository holds three unrelated parts:

- `JUnitXmlImporter/`: a .NET command line tool that reads JUnit XML files and
  records their test cases as executions in aqua;
- `python/`: a REST client generated from an OpenAPI document, and samples that
  call it;
- `integration examples/python-selenium/`: an example test and the scripts with
  which an aqua agent runs it.

The first two are modelled, the third is not (section 5).

## 1. Inventory

Paths are relative to `src/JUnitXmlImporter/JUnitXmlImporter/` unless they
start elsewhere; `aqua_rest_api_client/` lies in
`src/python/python_aqua_client/aqua-rest-api-client/`.

| Component | State it keeps | Operations | Correct when |
|---|---|---|---|
| Process (`Program.cs`) | options, the `CancellationTokenSource`, the exit code | read and validate the options, start the run, cancel on Ctrl-C, turn the end of the run into an exit code | the exit code says what happened; nothing is sent after a refused configuration |
| Input discovery (`Services/InputDiscovery.cs`, `FileSystem/`) | the set of paths found, a temporary file | expand files, folders, the standard input | every wanted file is found once |
| Import pipeline (`Services/Importer.cs`) | the files, the position in them, the groups by scenario, four counters | discover, parse each file, resolve ids, group, submit one group after the other, return an exit code | groups are exactly the mapped test cases; nothing is submitted before all is read, or from an input a strict policy refuses; every group gets its turn; counters and exit code agree with what happened |
| JUnit parser (`Services/JUnitParser.cs`) | the reader's position, the suite timestamp, the locals of four nested loops | read suites, test cases, issues, properties; skip the rest | each test case once, with its own outcome, details, case id and start |
| Aqua client (`Aqua/AquaClient.cs`) | the bearer token; per call the attempt and the batch | authenticate once, POST a batch, retry with waits | success means recorded; a failure means refused or exhausted; settled batches are not repeated; at most one request leaves after a cancellation; every call ends |
| Id resolvers (`Services/*Resolver.cs`) | a compiled pattern | text to id | the id the pattern defines |
| Logging, redaction, telemetry, clock | counters nobody reads back | log, count | (not part of the results) |
| Generated REST client (`aqua_rest_api_client/`) | a class keeps the attributes of one JSON object; a call keeps nothing | 666 model classes: `from_dict`, the constructor, attributes, `obj[key]`, `to_dict`; 408 endpoints: build the request, send, parse the answer | what is read, changed and written back reaches the service as it is meant; a call tells success from failure |
| Agent scripts (`integration examples/.../aqua-scripts/`) | the checkout, a `fail` marker, the files to attach | set up, run, attach, report | the exit status is that of this run |
| Samples, generator script, workflow | none | linear | |

How they interact. `Program` builds the object graph and calls
`Importer.RunAsync` with the cancellation token. `RunAsync` calls discovery,
then for each file the parser, then for each test case the resolvers; only when
all files have been read it hands each group to
`AquaClient.SubmitExecutionsAsync` and awaits the result. A call ends with a
result (success or failure, with counts) or with an exception; exceptions pass
through `RunAsync` to the handlers in `Program`. The client talks to the aqua
service over HTTP. The only concurrency inside the process is Ctrl-C, whose
handler cancels the token at any moment; outside, the service handles requests
at its own pace, also after the client has given up on them and after the
process has gone.

The generated client is used by programs of its own: an endpoint function
builds a request from its arguments, sends it through httpx and makes an object
of a model class of the answer. Programs read, change and write back objects
the service holds, possibly several of them the same one.

What is hard to test: cancellation between any two steps; a request that is
recorded although its answer is late or lost; the retry loop at its limits; a
token that expires between two groups; one file or group of several failing; a
cursor that is moved by nested loops; paths that name the same file twice; the
difference between a value that is absent, null, empty or falsy; an answer that
cannot be read after the request has been carried out. Section 7 and the
hazards in `PROJECT.json` list them at their lines.

## 2. Modules

| Module | Models | Uses |
|---|---|---|
| `AquaClient` | `Aqua/AquaClient.cs` and, as its environment, the service and the network | instantiates `Delivery` |
| `Delivery` | what `IAquaClient` promises a caller | |
| `Importer` | `Services/Importer.cs` with abstract collaborators | |
| `InputDiscovery` | `Services/InputDiscovery.cs` over a description of the file system | |
| `ImportRun` | `Program.cs` around discovery, pipeline and client | instantiates `InputDiscovery`, `Importer` and `AquaClient` over shared variables |
| `JUnitParser` | `Services/JUnitParser.cs` over the nodes an `XmlReader` delivers | |
| `RestCodec` | what `from_dict`, the constructor and `to_dict` of a generated class do with each kind of field | |
| `RestEdit` | programs that change an object of the service through the client | extends `RestCodec` |
| `RestEndpoint` | what an endpoint function sends and what it makes of an answer | extends `RestCodec` |
| `RestCall` | one call of an endpoint function | extends `RestEndpoint` |
| `Rest*Schemas`, `Rest*Endpoints` | the catalogue: one definition per model class and per endpoint | extend `RestCodec`, `RestEndpoint` |
| `RestCatalogue` | all of them by name, and what they must satisfy | extends the catalogue |
| `*Proofs` | theorems | extend the module they are about |
| `MC*` | values of the constants for TLC | extend the module they instantiate |

Each module names the code it stands for at its definitions; the exact lines
are in `PROJECT.json`. A definition whose comment begins with *mutant* is the
one after it with a plausible mistake; no specification uses it.

### AquaClient

`phase` is the program counter of `SubmitExecutionsAsync`: `auth` in
`EnsureAuthenticatedAsync`, `loop` at the head of an attempt, `send` between its
check of the token and the moment the request leaves, `post` while the answer is
awaited, `wait` in `DelayWithBackoffAsync`. The user may cancel in any of them:
in `send` the request may leave all the same (`SendPost`) or `SendAsync` may
notice (`SendCanceled`). A request is a batch and an attempt number. `wire`
holds the requests the service has not handled, `stored` those it has recorded;
the service may handle a request at any time, also long after the client timed
out, answer with success, refusal or a transient error, fail after having
recorded the executions, or have its answer lost. An answer reaches the client
only while it awaits that very request. `taken`, `sent` and `late` are history;
`late` holds the requests that left after the cancellation.

Abstracted: the payload is the set of executions (its layout is the same for
every attempt, as it is serialised once per call); of the durations only the
comparison with the limits matters, so `BackoffCap` and `MaxDelay` are
constants. `End(Thrown("canceled"))` is an `OperationCanceledException`,
`"faulted"` any other exception.

### Importer

`pc` follows `RunAsync`; `file` and `pos` are the two `foreach` loops; an
execution is named by its position `<<file, test case>>`, so that equal test
cases stay apart. The parser appears as its result: a file is well formed, with
a list of test cases, or not. A test case is what the resolvers and the parser
find for it. `GroupPosted`, `GroupFailed` and `GroupThrows` are the ends of the
awaited client call; `ClientEnds` is the contract the pipeline relies on.

The dictionary of groups is a function from scenarios to sets. Its order of
enumeration is left open (`SubmitGroup` picks any group), which covers the
insertion order of the code.

### InputDiscovery

`at` says in which of the two nested loops `DiscoverAsync` is, or that it reads
the standard input, or how it has ended; `results` is the `HashSet` in the
order in which it will be enumerated. A *layout* describes the configured paths
and what the file system and the console answer. The two tests for the search
pattern are two parts of it, because they differ: a named file is matched by a
regular expression that ignores case, the files of a folder by
`Directory.EnumerateFiles`. `Fold` is what `StringComparer.OrdinalIgnoreCase`
makes of a path. `Wanted` says what the paths stand for without the loops.

### ImportRun

The variables of all three parts: the search of discovery before the pipeline
takes its result (`Discover` is a step of the pipeline that maps the places
found to the contents of their files), the pipeline's call joined to the
client's (`SubmitGroup` is a step of both, `ClientReturns` takes the result),
one token for all, and the exit code. Of the validation of the options only its
two outcomes are modelled.

### JUnitParser

`at` is the position of the reader in the sequence of nodes, `mode` the loop
that reads. One action is one `ReadAsync` with what the loop does to the node;
`SkipOther` is `SkipAsync`, which leaves the reader on the node *behind* the
skipped element. A document that is not well formed delivers its nodes up to
the error. What the reader guarantees of the nodes is an assumption on
`Documents`, which the theorems use and TLC evaluates: `Nested` (depths grow
behind a start tag with content and shrink at an end tag) and `Matched` (the
first end tag at the depth of a start tag has its name, and only a document that
is not well formed may lack it). `ReadingOf` says what a document means without a cursor: the last
issue among the children decides the outcome, the texts inside it are the
details, the first integer `case_id` of the last `properties` element is the
case id.

### The REST client

The generated code is long and regular: every model class and every endpoint
function follows the same few patterns, field by field and parameter by
parameter. `RestCodec` and `RestEndpoint` hold the patterns, once; the
catalogue says of each class which pattern each of its fields follows and what
becomes of undeclared keys, and of each endpoint its method, path, parameters,
body and documented answers. A definition of the catalogue is therefore a few
lines, and it stands for `to_dict` and `from_dict` of its class, or for
`_get_kwargs` and `_parse_response` of its endpoint.

A JSON value is reduced to what the patterns tell apart: null, 0, an empty
list, two ordinary values, one its class does not write back as read, and one
of a wrong type. `UNSET` is a value of an attribute, not of a document.

`RestEdit`: a program reads an object or builds one, sets attributes or items,
and writes; several programs may interleave. The service merges what it is
sent into what it holds. `RestCall`: the arguments are made a request, or
`_get_kwargs` raises; httpx sends it; the service may act early, late, never,
or after the timeout; the answer has any status and any body, and is parsed,
ignored or raises. `sync`, `sync_detailed` and their asyncio twins do the same
and are one model.

`RestCatalogue` has TLC evaluate that the catalogue is well formed: every class
that is named exists, no two endpoints send the same kind of request, and no
endpoint parses a success and a failure to the same kind of value.

## 3. Runs

Passing runs:

| Run | Instance | Shows |
|---|---|---|
| `client_safety` | 2 executions, 2 attempts, spans 0, 5 s and one too long for `Task.Delay`, cap 500 ms | success is recorded, failures are exhausted, repetitions are earned, at most one request leaves after a cancellation, refinement of `Delivery`, every call ends |
| `importer_safety` | files of up to 3 test cases, pairs of files of up to 1, all options | groups, counters, submissions, exit codes; the run ends |
| `parser_safety` | 2789 documents | the loops find what the document says, results are in order, the parse ends |
| `importrun_safety` | 9 layouts with their files, 3 option sets, 2 attempts | each wanted file is found once, whole groups are sent, counts and exit code 0 are earned, dry and strictly refused runs are silent; the process implements `Importer` and exits |
| `rest_models` | all 666 classes; two programs on `ApiDashboardNG` | what is read and written back differs only as the properties name, changes arrive, writing fails only over the program's own None, losses happen once, who undoes whose change |
| `rest_calls` | all 408 endpoints, every kind of argument and answer | a refused call never acts, a result tells success from failure except where it says so, faithful answers arrive, calls end |

Runs that find a disagreement of the code with a document or comment of the
repository:

| Run | What the repository says | What the code does |
|---|---|---|
| `client_duplicates` | one execution per mapped test is created (`docs/requirements.md:333-335`) | a retry after a timeout stores the batch twice |
| `importer_malformed` | 2: parsing/mapping issues but completed, when not configured to fail (`requirements.md:136`) | a malformed file ends the run: the files behind it are not read, and the test cases before it are not submitted |
| `importer_cancel` | graceful cancellation, exit code 0 (`Program.cs:163-167`) | during a parse: exit code 2 |
| `importrun_exit_zero` | 0: success (`requirements.md:135`) | a token request that times out exits with 0 |
| `parser_foreign` | others such as system-out are skipped (`JUnitParser.cs:112`) | the following test cases are swallowed |
| `rest_dashboard` | null leaves a collection unchanged (docstring of `update_dashboard`) | what was read as null is written back as an empty list, and the collection is gone |

Disagreements the models follow without a run of their own, as they show in one
step of the code: the date form of Retry-After is ignored (`AquaClient.cs:206`,
against `requirements.md:83`); a 429 or 5xx of the token endpoint is not retried
(`AquaClient.cs:237-245`, against `requirements.md:342-343`); fail-on-unmapped
has no effect while skip-unmapped is on, its default, so that a run with
unmapped test cases ends with the exit code of its submission
(`Importer.cs:206-218`, against "exits with code 2 or 4",
`requirements.md:338-339`); ids are looked for in the class name and in a
`case_id` property too (`Importer.cs:200-202`, against `requirements.md:66`);
the timestamp of a nested suite outlives the suite (`JUnitParser.cs:45`, against
`docs/plan.md:105`). Of the REST client: `sync` returns the error model of a
documented failure, where its README speaks of parsed data or None; the timeout
of `client.py:15-16` is one of httpx, which counts for each piece of an answer
and not for the whole.

The properties of the passing runs claim nothing for these cases: they say of a
Retry-After date, of a malformed file and of a run with both policies on neither
that the code is right nor that it is wrong.

A token that has expired is not renewed, so the later groups of the run are
refused with 401 and count as failed. `docs/plan.md:126` foresees a refresh "if
needed (optional)", so that this is a choice and no disagreement.

What discovery does and no document judges: a path that does not exist is one
line in the log, and the run goes on without it and may exit with 0; of two
files whose paths differ in case only the first is imported, also where the
file system keeps them apart.

### Bounds

- Two attempts are the least with a retry, and enough for a second request to
  follow a late one if the check of the token let it. The length of a wait
  matters only where `Task.Delay` refuses it: one span is beyond the limit and
  one within. The proofs cover every number, cap and span.
- Two executions give one batch of two, or two batches one after the other: the
  least in which a late request of an earlier call meets a later call.
- The test cases of `MCImporter` are those the policies tell apart: mapped by
  name, by class name or by property, without scenario, without case id, and
  unmapped by a property of 0. Three in a file and two files let a failure come
  before, between and after mapped ones. The proofs cover every input.
- Scenario 0 is included, as the code accepts it (`scenarioId < 0` is refused).
- Documents: three children per test case are enough for one to be skipped, the
  next to be lost and a third to be read; three test cases for one to be
  swallowed and the next to be taken for its content. Every prefix of the
  smaller documents is there as a truncated file. The proofs cover every
  document.
- Layouts: a file found by name and in its folder, a blank path, a file with an
  unmapped test case, a malformed file behind a good one, two files equal up to
  case, a missing path and a refused file, no path at all, and the standard
  input with a report, blank, or not redirected. No layout stands for more than
  two files (`MaxFiles`), which is the least for two groups in two files. The
  proofs cover every layout.
- Executions are never submitted twice by the caller, as the pipeline submits
  each group once.
- `rest_models` varies one key per kind of field of a class, in an object that
  is otherwise full or bare: the patterns treat each key by itself.
  `MaxChanges` is 1 for TLC; the theorems cover any number. Two programs
  interleave on `ApiDashboardNG`, the class of a dashboard; one works on each
  other class.
  `ExamplesHaveEveryKind`, which TLC evaluates, says that the classes varied in
  full have every kind of field any class has.
- `rest_calls` sets all parameters of an endpoint to one kind of value at a
  time, where it may be passed, as the filter looks at each by itself. The
  statuses are all documented ones, three that Python knows and no endpoint
  documents, and one that Python does not know.

### Fairness

- `AquaClient`: weak fairness of the steps of a call. `HttpClient.Timeout` ends
  every request and `Task.Delay` every wait, whatever the service does. Nothing
  is assumed of the service, the user or the caller.
- `Importer`: weak fairness of the pipeline's own steps and of the end of the
  client's call, which `CallsEnd` shows for the client.
- `ImportRun`: weak fairness of the process, the search of discovery included,
  and not of the end of the standard input, which is up to whoever writes it:
  `ProcessExits` leaves out the run that waits for it for ever. A cancellation
  is not counted on there either, as a read of the console need not notice it.
- `JUnitParser`: weak fairness of the loops.
- `RestCall`: weak fairness of the caller's steps, the timeout of httpx among
  them; the service owes nothing. `RestEdit` states no liveness.

Deadlock is not checked in the two REST runs: a program or a call is over and
nothing is left to do.

## 4. Proofs

The assumptions are those named at the constants of the modules; TLC evaluates
them in every run.

`AquaClientProofs`, for any finite set of executions, any configured number of
attempts, any spans, cap and limit:

- `ClientInvariant`: `IInv` is inductive. `SuccessIsStored`,
  `FailureIsExhausted` and `RepeatsAreEarned` are not inductive by themselves:
  they need `PhaseInv` (what each phase knows of the request it awaits),
  `SentInv` (the requests sent for a batch are those of the attempts so far) and
  `BehindInv` (each attempt behind the loop met a transient answer or a
  timeout).
- `ClientTypes`, `ClientSuccess`, `ClientFailure`, `ClientRepeats` follow from it.
- `ClientQuiet`: `OneLatePost` is not inductive by itself. `LateInv` adds that
  after a late request the client is cancelled and not in `send`, which it can
  only enter through the check of the token.
- `ClientImplementsDelivery`: initial states map to initial states, and every
  step to a step of `Delivery` or to a stutter, under `Limit <- Attempts`,
  `copies <- stored`.

`ImporterProofs`, for any inputs, any finite set of scenarios and any options:

- `ImporterInvariant`: `IInv` is inductive. Its parts are the types,
  `GroupsExact`, `CountersExact`, `PostsExact`, `ReadInv` (what lies behind the
  loops was well formed), `SubmitInv` (a group is to do, at the client, or has
  its verdict) and `EndInv` (the three ways of returning). The steps are sorted
  into kinds by what they leave alone (`StepKinds`), and each part is proved
  over the kinds; the sums rest on the disjointness of the groups
  (`GroupsAdd`).
- `ImporterTypes`, `ImporterGroups`, `ImporterCounters` are conjuncts of it.
- `ImporterSubmitsOnlyComplete`, `ImporterTriesEveryGroup` and
  `ImporterExitMeaning` follow with `ReadAll` (past the last file everything has
  been read) and `VerdictsCover` (the verdicts cover the mapped test cases).

`ImportRunProofs`, for any layouts and contents of files and any configuration
of the client:

- `RunDiscovers`: `DiscoveryInv` is inductive. It adds to `DiscoversExactly`
  that the results are wanted and distinct up to case (`ResultsInv`) and that
  everything behind the two loops has a result (`LoopInv`).
- `RunCarriesGroups`: `CallInv` is inductive: the client works on the group the
  pipeline awaits, and before the submission, while groups still grow, nothing
  has been sent.
- `RunImplementsImporter`: every step of the process is one of `Importer` or a
  stutter. It rests on `ResultsInv` (the files found are no more than the layout
  stands for, by an injection, so that they are one of the inputs) and `CallInv`
  (a call ends with the counts of its own group). The theorems about `Importer`
  are therefore theorems about the process.
- `RunRefuses`: `RefusalInv` is inductive: nothing leaves the process before
  the loops have passed every test case, and what they have passed was
  acceptable. (It also knows that the loops have passed no malformed file, which
  the theorem does not claim.)

`ImportRunCountProofs`, about the same: `RunEarnsCounts`. Its invariant has two
halves. `AnswersInv` is what a call knows of its batch (the answers taken are
those of the attempts behind it; an accepting answer is for a recorded batch;
the result of an ended call is earned). `VerdictsInv` is what the pipeline
keeps of the calls: a later call is for another batch, so that its answers
leave the earlier verdicts true.

In the same module:

- `RunZeroMeansRecorded`. Exit code 0 is read off counters, so the invariant has
  to say what the counters stand for: `CollectedInv` (with nothing skipped, every
  test case behind the loops is in a group; every group is still to do, at the
  client or has its verdict; a failure counts), `ExitInv` (the exit code of the
  process is that of the pipeline) and `StoredInv` (the service holds nothing
  that was not sent). With `VerdictsInv` a group that succeeded is recorded, with
  `DiscoveryInv` the files are those the paths stand for.
- `RunTyped`: `TypeOK` needs where the retry loop stands (`AttemptInv`: at least
  one attempt, fewer than the limit in a wait, and what is awaited has been sent)
  and that a pipeline at its end has an outcome (`OutcomeInv`). It is proved over
  the steps of the three parts; `ConfigurationAssumption` names what the
  configuration may be (any whole number of retries, as the code raises it to 1
  at least).

`JUnitParserProofs`, for any set of documents a reader may deliver, of any
length and depth:

- `ParserTyped` and `ParserOrdersCases`: `OrderInv` is inductive. It adds that the
  loops read a test case that has content and lies behind all results.
- `ParserReadsExactly`: `ExactInv` is inductive, with `OrderInv`. It says what each
  loop knows in the middle of a document (`LoopRead`): the issue in the locals is
  the last child of that kind so far with the texts in it so far (`IssueRead`), the
  case id is the first of the last `properties` (`CaseIdRead`), and the cursor is
  between two children, or inside one that was left before its end tag
  (`Between`): `ReadPropertiesForCaseIdAsync` returns at the first case id, and
  the loop of the test case goes through the rest of that element. The reading of
  a document is by sets of positions, not by recursion; the induction over its
  nodes is by the smallest position that breaks a claim (`Smallest`, from the
  well-foundedness of `<` on the naturals), as in `InsideDepth` (what follows the
  nodes of an open element lies deeper than the element).
- The first attempt at `OrderKeeps` failed at `Step`, whose value of `element'`
  was a CASE with overlapping arms: TLC takes the first arm that is true, a proof
  may not. It is one IF now.

`RestCodecProofs`, for every class the patterns can describe: `ReadBack` (what
`from_dict` accepts it accepts again after `to_dict`) and `NewReadBack` (so it
does of what the constructor makes).

`RestEditProofs`, for any classes, programs and number of changes: `Traced`, the
inductive invariant by which every object comes from its answer or its
constructor through the program's own changes alone, and from it all
properties of `rest_models`, the two action properties included.

`RestCallProofs`, for any endpoints, classes, arguments and statuses: `Traced`,
by which request and outcome are what the arguments and the answer make of
them, and from it the safety properties of `rest_calls`.

Model-checked only:

- liveness (`CallsEnd`, `RunEnds`, `ProcessExits`,
  `ParseEnds`, `CallEnds`): not provable with the provers used here;
- the well-formedness of the catalogue, which is evaluated as it stands.

## 5. Not modelled

- The layout of payloads and the texts of messages; the number and date formats
  of the parser, which appear as what they parse to; `MapStatus` and the
  conversion of durations, which would need properties about the payload.
- The reading of the configuration: precedence of the sources, placeholders and
  the switches of the command line. It is a pass of library calls
  (`ConfigurationBuilder`) whose behaviour is not in the repository.
- The id resolvers: regular expressions from the configuration. `Importer`
  takes any result of theirs.
- Logging, redaction, telemetry, clock: no effect on the run.
- The agent scripts: a dozen commands in a row, whose only state is the work
  directory. Their two hazards are listed.
- The Selenium example, the Python samples, the generator script and the
  workflow: linear programs that keep nothing.
- Of the generated client, `AuthenticatedClient` and `Client` beyond the flag
  and the timeout: they pass their settings to httpx.

## 6. Plan

Done, in this order: `AquaClient` and `Delivery`, `AquaClientProofs`,
`Importer`, `ImporterProofs`, `ImportRun`, `JUnitParser`; then the REST client
(`RestCodec`, `RestEdit`, `RestEndpoint`, `RestCall`, the catalogue, their
proofs), `InputDiscovery` and its composition into `ImportRun`, and
`ImportRunProofs` with `ImportRunCountProofs`; then `RunZeroMeansRecorded`,
`RunTyped` and `JUnitParserProofs`, with which every safety property of a
passing run is a theorem.

Left, by importance: the command line and its precedence; the resolvers over short texts; the agent
scripts interrupted at any command.

## 7. Hazards

`PROJECT.json` lists them with the properties that would notice them. By
theme:

- **What the service has recorded and what the client knows** may differ in one
  direction only: success is never reported wrongly (`SuccessIsStored`,
  `CountsAreEarned`), but what is reported as failed, cancelled or not at all
  may have been recorded, and more than once.
- **Cancellation** is one token checked at many places, and no check is one with
  the step that follows it: one request may still leave and no more
  (`OneLatePost`), but the end of the run is told wrongly in both directions
  (`CancelIsGraceful`, `ZeroIsSuccess`).
- **All or nothing** is what a strict run asks of reading
  (`SubmitsOnlyComplete`, `RefusalsAreSilent`); a malformed file imposes it on
  every run (`IssuesAreCompleted` is violated). It does not hold for submitting
  (`EveryGroupTried` holds for runs that return, an exception leaves the
  remaining groups out).
- **The same file twice, or not at all**: a set without regard to case decides
  (`DiscoversExactly`), and a run that exits with 0 says nothing of the paths
  that were not there (`ZeroMeansRecorded`).
- **The reader is shared** by nested loops, each of which must leave it where
  the next expects it.
- **Absent, null, empty and falsy** are four things in JSON and one in Python:
  the properties of `RestEdit` name where the generated code mixes them up.
- **What was carried out and what the caller is told** differ when an answer
  cannot be read (`FaithfulAnswersArrive` says when it can) and when None stands
  for more than one status (`ResultTellsSuccess`).
