--------------------------- MODULE ImporterProofs ---------------------------
(***************************************************************************)
(* Proofs about Importer, for every set of inputs, scenarios and options.   *)
(***************************************************************************)
EXTENDS Importer, FiniteSetTheorems, TLAPS

----------------------------------------------------------------------------
(* The test cases of the files and those the loops have passed.             *)

\* A position is a test case of one of the files.
LEMMA PositionElement ==
  ASSUME NEW r
  PROVE  r \in Positions <=> 
           \E f \in 1 .. Len(files) : \E t \in 1 .. Len(files[f].tests) : r = <<f, t>>
  BY DEF Positions

(* A position is a pair of a file's number and a test case's number in that file. *)
LEMMA PositionParts ==
  ASSUME NEW r \in Positions
  PROVE  /\ r = <<r[1], r[2]>>
         /\ r[1] \in 1 .. Len(files)
         /\ r[2] \in 1 .. Len(files[r[1]].tests)
  BY PositionElement

\* There are finitely many.
LEMMA PositionsFinite ==
  ASSUME TypeOK
  PROVE  IsFiniteSet(Positions)
<1> DEFINE At(f) == {f} \X (1 .. Len(files[f].tests))
           Parts == {At(f) : f \in 1 .. Len(files)}
<1>1. Len(files) \in Nat /\ \A f \in 1 .. Len(files) : Len(files[f].tests) \in Nat
  BY DEF TypeOK, Files
<1>2. ASSUME NEW f \in 1 .. Len(files)
      PROVE  IsFiniteSet(At(f))
  <2>1. IsFiniteSet({f})
    BY FS_Singleton, Zenon
  <2>2. IsFiniteSet(1 .. Len(files[f].tests))
    <3>1. Len(files[f].tests) \in Int /\ 1 \in Int
      BY <1>1
    <3>2. QED
      BY <3>1, FS_Interval
  <2>3. QED
    BY <2>1, <2>2, FS_Product
<1>3. IsFiniteSet(Parts)
  <2>1. IsFiniteSet(1 .. Len(files))
    BY <1>1, FS_Interval
  <2>2. [f \in 1 .. Len(files) |-> At(f)] \in Surjection(1 .. Len(files), Parts)
    BY DEF Surjection
  <2> HIDE DEF Parts
  <2>3. QED
    BY <2>1, <2>2, FS_Surjection
<1>4. Positions = UNION Parts
  BY DEF Positions
<1>5. \A S \in Parts : IsFiniteSet(S)
  BY <1>2
<1> HIDE DEF Parts
<1>6. QED
  BY <1>3, <1>4, <1>5, FS_UNION

(* The test cases read so far, those mapped and those skipped are finite sets: the counters are
   their cardinalities. *)
LEMMA ReadFinite ==
  ASSUME TypeOK
  PROVE  /\ IsFiniteSet(Read)
         /\ IsFiniteSet(MappedOf(Read))
         /\ IsFiniteSet(Read \ MappedOf(Read))
<1>1. Read \subseteq Positions /\ MappedOf(Read) \subseteq Read
  BY DEF Read, MappedOf
<1>2. QED
  BY <1>1, PositionsFinite, FS_Subset

\* The loops stand at a file and, unless it is done, at a test case of it.
LEMMA LoopPosition ==
  ASSUME TypeOK, pc \in {"parse", "test"}
  PROVE  /\ file \in 1 .. Len(files) /\ file \in Nat
         /\ files[file] \in Files
         /\ files[file].tests \in Seq(TestCases)
         /\ Len(files[file].tests) \in Nat
<1>1. files \in Seq(Files) /\ file \in 1 .. Len(files) + 1 /\ file =< Len(files)
  BY DEF TypeOK
<1>2. Len(files) \in Nat
  BY <1>1
<1>3. file \in 1 .. Len(files) /\ file \in Nat
  BY <1>1, <1>2
<1>4. files[file] \in Files
  BY <1>1, <1>3
<1>5. files[file].tests \in Seq(TestCases)
  BY <1>4 DEF Files
<1>6. QED
  BY <1>3, <1>4, <1>5

\* Passing the test case at the loop position adds it to those read.
LEMMA ReadNext ==
  ASSUME TypeOK, pc = "test", pos =< Len(files[file].tests), pos' = pos + 1,
         UNCHANGED <<files, file>>
  PROVE  /\ Read' = Read \cup {<<file, pos>>}
         /\ <<file, pos>> \notin Read
         /\ <<file, pos>> \in Positions
<1>1. file \in 1 .. Len(files) /\ pos \in 1 .. Len(files[file].tests)
  BY DEF TypeOK, Files
<1>2. <<file, pos>> \in Positions
  BY <1>1, PositionElement
<1>3. Positions' = Positions
  BY DEF Positions
<1>4. <<file, pos>> \notin Read
  BY <1>1 DEF Read
<1>5. ASSUME NEW r \in Positions
      PROVE  (r[1] < file \/ (r[1] = file /\ r[2] < pos + 1))
               <=> (r[1] < file \/ (r[1] = file /\ r[2] < pos)) \/ r = <<file, pos>>
  <2>1. r = <<r[1], r[2]>> /\ r[1] \in Int /\ r[2] \in Int
    BY PositionParts
  <2>2. QED
    BY <1>1, <2>1
<1>6. QED
  BY <1>2, <1>3, <1>4, <1>5 DEF Read

\* Ending a file changes nothing of what has been read.
LEMMA ReadEndFile ==
  ASSUME TypeOK, pc = "test", pos > Len(files[file].tests), file' = file + 1, pos' = 1,
         UNCHANGED files
  PROVE  Read' = Read
<1>1. file \in 1 .. Len(files) /\ pos \in Nat /\ Len(files[file].tests) \in Nat
  BY DEF TypeOK, Files
<1>2. Positions' = Positions
  BY DEF Positions
<1>3. ASSUME NEW r \in Positions
      PROVE  (r[1] < file + 1 \/ (r[1] = file + 1 /\ r[2] < 1))
               <=> (r[1] < file \/ (r[1] = file /\ r[2] < pos))
  <2>1. r[1] \in 1 .. Len(files) /\ r[2] \in 1 .. Len(files[r[1]].tests)
    BY PositionParts
  <2>2. QED
    BY <1>1, <2>1
<1>4. QED
  BY <1>2, <1>3 DEF Read

\* At the end of the list of files everything has been read.
LEMMA ReadAll ==
  ASSUME TypeOK, file > Len(files)
  PROVE  Read = Positions
<1>1. ASSUME NEW r \in Positions
      PROVE  r[1] < file
  BY PositionParts DEF TypeOK
<1>2. QED
  BY <1>1 DEF Read

\* A mapped test case belongs to one of the scenarios.
LEMMA MappedScenario ==
  ASSUME TypeOK, NEW r \in MappedOf(Positions)
  PROVE  ScenarioId(TestAt(r)) \in Scenarios
<1>1. r[1] \in 1 .. Len(files) /\ r[2] \in 1 .. Len(files[r[1]].tests)
  BY PositionParts DEF MappedOf
<1>2. TestAt(r) \in TestCases
  <2>1. files[r[1]] \in Files
    BY <1>1 DEF TypeOK
  <2>2. files[r[1]].tests \in Seq(TestCases)
    BY <2>1 DEF Files
  <2>3. QED
    BY <1>1, <2>2 DEF TestAt
<1>3. ScenarioId(TestAt(r)) \in Scenarios \cup {Null}
  BY <1>2 DEF TestCases, ScenarioId, Coalesce
<1>4. QED
  BY <1>3 DEF MappedOf, IsMapped

----------------------------------------------------------------------------
(* The steps by what they do to the collection and the submission.          *)

\* Only the place in the control flow or the token changes.
Moves ==
    /\ \/ pc' = pc /\ UNCHANGED ending
       \/ pc = "file" /\ pc' = "parse" /\ file =< Len(files) /\ UNCHANGED ending
       \/ pc = "parse" /\ pc' = "test" /\ files[file].wellFormed /\ UNCHANGED ending
    /\ cancelled' \in BOOLEAN
    /\ UNCHANGED <<options, collecting, submitting>>

\* RunAsync ends with an exception.
Throws ==
    /\ pc # "ended"
    /\ \E kind \in {"canceled", "faulted"} : Throw(kind)
    /\ UNCHANGED <<options, collecting, submitting, cancelled>>

\* RunAsync returns: during the collection, after a dry run, after the last
\* group.
Returns ==
    /\ \/ pc \in {"parse", "test"} /\ file =< Len(files) /\ Return(2)
       \/ Collected /\ options.dryRun /\ Return(SkippedExit)
       \/ pc = "submit" /\ todo = {} /\ Return(SubmittedExit)
    /\ UNCHANGED <<options, collecting, submitting, cancelled>>

\* The client returns a result for the group at hand.
Counts ==
    LET n == Cardinality(groups[current]) IN
    GroupPosted(n) \/ GroupFailed(n)

Kinds ==
    \/ Moves \/ Throws \/ Returns
    \/ Discover \/ MapTest \/ SkipTest \/ EndFile
    \/ BeginSubmit \/ (\E s \in Scenarios : SubmitGroup(s)) \/ Counts

\* Every step is of one of these kinds.
LEMMA StepKinds == TypeOK /\ [Next]_vars => Kinds
<1> SUFFICES ASSUME TypeOK, [Next]_vars
             PROVE  Kinds
  OBVIOUS
<1>1. CASE UNCHANGED vars \/ Ended \/ CancelKeyPress \/ BeginFile \/ Parse
  <2>1. Moves
    BY <1>1 DEF vars, pipeline, Ended, CancelKeyPress, BeginFile, Parse, Moves, TypeOK
  <2>2. QED
    BY <2>1 DEF Kinds
<1>2. CASE DiscoverCanceled \/ DiscoverFails \/ LoopCanceled
           \/ (\E kind \in {"canceled", "faulted"} : GroupThrows(kind))
  <2>1. Throws
    BY <1>2 DEF DiscoverCanceled, DiscoverFails, LoopCanceled, GroupThrows, Throws
  <2>2. QED
    BY <2>1 DEF Kinds
<1>3. CASE ParseFails \/ FailTest \/ HandleDryRun \/ EndSubmit
  <2>1. Returns
    BY <1>3 DEF ParseFails, FailTest, HandleDryRun, EndSubmit, Returns, TypeOK
  <2>2. QED
    BY <2>1 DEF Kinds
<1>4. CASE pc = "await" /\ ClientEnds
  BY <1>2, <1>4 DEF ClientEnds, Counts, Kinds
<1>5. QED
  BY <1>1, <1>2, <1>3, <1>4 DEF Next, RunStep, LocalStep, PipelineStep, Kinds

\* A group has a natural number of executions.
LEMMA GroupCount ==
  ASSUME TypeOK, GroupsExact, NEW S \in SUBSET Scenarios
  PROVE  /\ IsFiniteSet(ExecutionsOf(S))
         /\ Cardinality(ExecutionsOf(S)) \in Nat
         /\ \A s \in S : IsFiniteSet(groups[s]) /\ Cardinality(groups[s]) \in Nat
<1>1. ExecutionsOf(S) \subseteq Read /\ \A s \in S : groups[s] \subseteq Read
  BY DEF ExecutionsOf, GroupsExact, InScenario, MappedOf
<1>2. QED
  BY <1>1, ReadFinite, FS_Subset, FS_CardinalityType

(* Every step of the pipeline keeps its types. *)
LEMMA TypeStep == TypeOK /\ GroupsExact /\ ReadInv /\ Kinds => TypeOK'
<1> SUFFICES ASSUME TypeOK, GroupsExact, ReadInv, Kinds
             PROVE  TypeOK'
  OBVIOUS
<1> USE DEF TypeOK
<1>1. CASE Moves
  <2>1. UNCHANGED <<options, collecting, submitting>> /\ cancelled' \in BOOLEAN /\ UNCHANGED ending
    BY <1>1 DEF Moves
  <2>2. pc' \in PCs /\ (pc' = "await" => pc = "await")
        /\ (pc' \in {"parse", "test"} => file =< Len(files))
    BY <1>1 DEF Moves, PCs
  <2>3. pc' = "test" => pos =< Len(files[file].tests) + 1
    <3>1. CASE pc = "test"
      BY <3>1
    <3>2. CASE pc = "parse"
      BY <3>2, LoopPosition DEF ReadInv
    <3>3. QED
      BY <1>1, <3>1, <3>2 DEF Moves
  <2>4. QED
    BY <2>1, <2>2, <2>3 DEF collecting, submitting, ending
<1>2. CASE Throws
  BY <1>2 DEF Throws, Throw, collecting, submitting, PCs
<1>3. CASE Returns
  BY <1>3 DEF Returns, Return, SkippedExit, SubmittedExit, collecting, submitting, PCs
<1>4. CASE Discover
  <2>1. files' \in Seq(Files)
    BY <1>4, InputsAssumption DEF Discover
  <2>2. 1 \in 1 .. Len(files') + 1
    BY <2>1
  <2>3. file = 1
    BY <1>4 DEF Discover, ReadInv
  <2>4. QED
    BY <1>4, <2>3, <2>1, <2>2 DEF Discover, submitting, ending, PCs
<1>5. CASE MapTest
  <2>1. file \in Nat /\ pos \in Nat \ {0} /\ Len(files[file].tests) \in Nat
    BY <1>5, LoopPosition DEF MapTest
  <2>2. <<file, pos>> \in Nat \X Nat
    BY <2>1
  <2>3. groups' \in [Scenarios -> SUBSET (Nat \X Nat)]
    BY <1>5, <2>2 DEF MapTest, AddExecutionToScenarioGroup
  <2>4. /\ pc = "test" /\ pos =< Len(files[file].tests)
        /\ pos' = pos + 1 /\ mapped' = mapped + 1
        /\ UNCHANGED <<options, pc, files, file, skipped, submitting, ending, cancelled>>
    BY <1>5 DEF MapTest, NextTest
  <2>5. pos' \in Nat \ {0} /\ pos' =< Len(files[file].tests) + 1 /\ mapped' \in Nat
    BY <2>1, <2>4
  <2>6. QED
    BY <2>3, <2>4, <2>5 DEF submitting, ending
<1>6. CASE SkipTest
  <2>1. file \in Nat /\ pos \in Nat \ {0} /\ Len(files[file].tests) \in Nat
    BY <1>6, LoopPosition DEF SkipTest
  <2>2. /\ pc = "test" /\ pos =< Len(files[file].tests)
        /\ pos' = pos + 1 /\ skipped' = skipped + 1
        /\ UNCHANGED <<options, pc, files, file, groups, mapped, submitting, ending, cancelled>>
    BY <1>6 DEF SkipTest, NextTest
  <2>3. pos' \in Nat \ {0} /\ pos' =< Len(files[file].tests) + 1 /\ skipped' \in Nat
    BY <2>1, <2>2
  <2>4. QED
    BY <2>2, <2>3 DEF submitting, ending
<1>7. CASE EndFile
  BY <1>7 DEF EndFile, submitting, ending, PCs
<1>8. CASE BeginSubmit
  BY <1>8 DEF BeginSubmit, Keys, collecting, ending, PCs
<1>9. ASSUME NEW s \in Scenarios, SubmitGroup(s)
      PROVE  TypeOK'
  BY <1>9 DEF SubmitGroup, collecting, ending, PCs
<1>10. CASE Counts
  <2>1. current \in Scenarios
    BY <1>10 DEF Counts, GroupPosted, GroupFailed
  <2>2. Cardinality(groups[current]) \in Nat
    BY <2>1, GroupCount
  <2>3. CASE GroupPosted(Cardinality(groups[current]))
    BY <2>1, <2>2, <2>3 DEF GroupPosted, collecting, ending, PCs
  <2>4. CASE GroupFailed(Cardinality(groups[current]))
    BY <2>1, <2>2, <2>4 DEF GroupFailed, AfterFailure, collecting, ending, PCs
  <2>5. QED
    BY <1>10, <2>3, <2>4 DEF Counts
<1>11. QED
  BY <1>1, <1>2, <1>3, <1>4, <1>5, <1>6, <1>7, <1>8, <1>9, <1>10 DEF Kinds

----------------------------------------------------------------------------
(* Preservation of the parts of the invariant.                              *)

\* The steps of the collection leave the submission alone and the other way
\* round.
LEMMA CollectionRests ==
  ASSUME TypeOK, Moves \/ Throws \/ Returns \/ BeginSubmit
                   \/ (\E s \in Scenarios : SubmitGroup(s)) \/ Counts
  PROVE  UNCHANGED collecting /\ Read' = Read /\ Keys' = Keys
<1>1. UNCHANGED collecting
  BY DEF Moves, Throws, Returns, BeginSubmit, SubmitGroup, Counts, GroupPosted, GroupFailed
<1>2. QED
  BY <1>1 DEF collecting, Read, Positions, Keys

(* Reading and mapping leave the submission alone. *)
LEMMA SubmissionRests ==
  ASSUME Moves \/ Throws \/ Returns \/ Discover \/ MapTest \/ SkipTest \/ EndFile
  PROVE  UNCHANGED submitting
  BY DEF Moves, Throws, Returns, Discover, MapTest, SkipTest, EndFile

\* What is mapped, and where to, is a matter of the files alone.
LEMMA SelectionRests ==
  ASSUME UNCHANGED files, NEW CONSTANT S
  PROVE  MappedOf(S)' = MappedOf(S) /\ \A s : InScenario(S, s)' = InScenario(S, s)
  BY DEF MappedOf, InScenario, TestAt

(* The discovery happens before any test case is read. *)
LEMMA ReadDiscover ==
  ASSUME TypeOK, ReadInv, Discover
  PROVE  Read = {} /\ Read' = {}
<1>1. files = <<>> /\ file = 1 /\ pos = 1 /\ UNCHANGED <<file, pos>> /\ files' \in Seq(Files)
  BY InputsAssumption DEF Discover, ReadInv
<1>2. Read = {}
  <2>1. Positions = {}
    BY <1>1, PositionElement
  <2>2. QED
    BY <2>1 DEF Read
<1>3. Read' = {}
  <2>1. Read' = {r \in Positions' : r[1] < 1 \/ (r[1] = 1 /\ r[2] < 1)}
    BY <1>1 DEF Read
  <2>2. \A r \in Positions' : r[1] \in 1 .. Len(files') /\ r[2] \in Nat \ {0}
    BY <1>1 DEF Positions
  <2>3. QED
    BY <1>1, <2>1, <2>2
<1>4. QED
  BY <1>2, <1>3

(* Every step keeps the groups exact: the mapped test cases read so far, by scenario. *)
LEMMA GroupsStep == TypeOK /\ GroupsExact /\ ReadInv /\ Kinds => GroupsExact'
<1> SUFFICES ASSUME TypeOK, GroupsExact, ReadInv, Kinds
             PROVE  GroupsExact'
  OBVIOUS
<1>1. CASE Moves \/ Throws \/ Returns \/ BeginSubmit
             \/ (\E s \in Scenarios : SubmitGroup(s)) \/ Counts
  <2>1. UNCHANGED <<groups, files>> /\ Read' = Read
    BY <1>1, CollectionRests DEF collecting
  <2>2. QED
    BY <2>1 DEF GroupsExact, InScenario, MappedOf, TestAt
<1>2. CASE Discover
  <2>1. Read = {} /\ Read' = {} /\ groups' = groups
    BY <1>2, ReadDiscover DEF Discover
  <2>2. QED
    BY <2>1 DEF GroupsExact, InScenario, MappedOf
<1>3. CASE EndFile
  <2>1. Read' = Read /\ UNCHANGED <<groups, files>>
    BY <1>3, ReadEndFile DEF EndFile
  <2>2. QED
    BY <2>1 DEF GroupsExact, InScenario, MappedOf, TestAt
<1>4. CASE SkipTest
  <2>1. Read' = Read \cup {<<file, pos>>} /\ UNCHANGED <<groups, files>>
    BY <1>4, ReadNext DEF SkipTest, NextTest
  <2>2. ~IsMapped(TestAt(<<file, pos>>))
    BY <1>4 DEF SkipTest, TestAt
  <2>3. QED
    BY <2>1, <2>2 DEF GroupsExact, InScenario, MappedOf, TestAt
<1>5. CASE MapTest
  <2> DEFINE here == <<file, pos>>
             sc == ScenarioId(TestAt(here))
  <2>1. Read' = Read \cup {here} /\ UNCHANGED files
    BY <1>5, ReadNext DEF MapTest, NextTest
  <2>2. IsMapped(TestAt(here)) /\ groups' = [groups EXCEPT ![sc] = @ \cup {here}]
    BY <1>5 DEF MapTest, TestAt, AddExecutionToScenarioGroup
  <2>3. groups \in [Scenarios -> SUBSET (Nat \X Nat)]
    BY DEF TypeOK
  <2>4. ASSUME NEW s \in Scenarios
        PROVE  groups'[s] = IF s = sc THEN groups[s] \cup {here} ELSE groups[s]
    BY <2>2, <2>3
  <2>5. ASSUME NEW s \in Scenarios
        PROVE  InScenario(Read, s)'
                 = IF s = sc THEN InScenario(Read, s) \cup {here} ELSE InScenario(Read, s)
    BY <2>1, <2>2 DEF InScenario, MappedOf, TestAt
  <2> HIDE DEF here, sc
  <2>6. QED
    BY <2>4, <2>5 DEF GroupsExact
<1>6. QED
  BY <1>1, <1>2, <1>3, <1>4, <1>5 DEF Kinds

(* Every step keeps the counters of the summary equal to the test cases they count. *)
LEMMA CountersStep == TypeOK /\ CountersExact /\ ReadInv /\ Kinds => CountersExact'
<1> SUFFICES ASSUME TypeOK, CountersExact, ReadInv, Kinds
             PROVE  CountersExact'
  OBVIOUS
<1>1. CASE Moves \/ Throws \/ Returns \/ BeginSubmit
             \/ (\E s \in Scenarios : SubmitGroup(s)) \/ Counts
  <2>1. UNCHANGED <<mapped, skipped, files>> /\ Read' = Read
    BY <1>1, CollectionRests DEF collecting
  <2>2. QED
    BY <2>1 DEF CountersExact, MappedOf, TestAt
<1>2. CASE Discover
  <2>1. Read = {} /\ Read' = {} /\ UNCHANGED <<mapped, skipped>>
    BY <1>2, ReadDiscover DEF Discover
  <2>2. QED
    BY <2>1 DEF CountersExact, MappedOf
<1>3. CASE EndFile
  <2>1. Read' = Read /\ UNCHANGED <<mapped, skipped, files>>
    BY <1>3, ReadEndFile DEF EndFile
  <2>2. QED
    BY <2>1 DEF CountersExact, MappedOf, TestAt
<1>4. CASE SkipTest
  <2> DEFINE here == <<file, pos>>
  <2>1. Read' = Read \cup {here} /\ here \notin Read /\ UNCHANGED <<mapped, files>>
        /\ skipped' = skipped + 1
    BY <1>4, ReadNext DEF SkipTest, NextTest
  <2>2. ~IsMapped(TestAt(here))
    BY <1>4 DEF SkipTest, TestAt
  <2>3. MappedOf(Read)' = MappedOf(Read)
    BY <2>1, <2>2 DEF MappedOf, TestAt
  <2>4. (Read \ MappedOf(Read))' = (Read \ MappedOf(Read)) \cup {here}
        /\ here \notin Read \ MappedOf(Read)
    BY <2>1, <2>2, <2>3 DEF MappedOf
  <2> HIDE DEF here
  <2>5. Cardinality((Read \ MappedOf(Read))') = Cardinality(Read \ MappedOf(Read)) + 1
    BY <2>4, ReadFinite, FS_AddElement
  <2>6. QED
    BY <2>1, <2>3, <2>5 DEF CountersExact
<1>5. CASE MapTest
  <2> DEFINE here == <<file, pos>>
  <2>1. Read' = Read \cup {here} /\ here \notin Read /\ UNCHANGED <<skipped, files>>
        /\ mapped' = mapped + 1
    BY <1>5, ReadNext DEF MapTest, NextTest
  <2>2. IsMapped(TestAt(here))
    BY <1>5 DEF MapTest, TestAt
  <2>3. MappedOf(Read)' = MappedOf(Read) \cup {here} /\ here \notin MappedOf(Read)
    BY <2>1, <2>2 DEF MappedOf, TestAt
  <2>4. (Read \ MappedOf(Read))' = Read \ MappedOf(Read)
    BY <2>1, <2>3
  <2> HIDE DEF here
  <2>5. Cardinality(MappedOf(Read)') = Cardinality(MappedOf(Read)) + 1
    BY <2>3, ReadFinite, FS_AddElement
  <2>6. QED
    BY <2>1, <2>4, <2>5 DEF CountersExact
<1>6. QED
  BY <1>1, <1>2, <1>3, <1>4, <1>5 DEF Kinds

(* Every step keeps what is known of the loops: what lies behind was well formed. *)
LEMMA ReadStep == TypeOK /\ ReadInv /\ Kinds => ReadInv'
<1> SUFFICES ASSUME TypeOK, ReadInv, Kinds
             PROVE  ReadInv'
  OBVIOUS
<1> USE DEF ReadInv, FailsUnmapped
<1>1. CASE Moves
  <2>1. UNCHANGED <<options, files, file, pos, skipped>>
    BY <1>1 DEF Moves, collecting
  <2>2. QED
    BY <1>1, <2>1 DEF Moves
<1>2. CASE Throws
  BY <1>2, LoopPosition DEF Throws, Throw, collecting
<1>3. CASE Returns
  BY <1>3 DEF Returns, Return, collecting
<1>4. CASE Discover
  <2>1. file' = 1 /\ pos' = 1 /\ pc' = "file" /\ UNCHANGED <<options, skipped>>
    BY <1>4 DEF Discover
  <2>2. files' \in Seq(Files)
    BY <1>4, InputsAssumption DEF Discover
  <2>3. QED
    BY <2>1, <2>2
<1>5. CASE MapTest
  <2>1. pc = "test" /\ UNCHANGED <<options, pc, files, file, skipped>>
    BY <1>5 DEF MapTest, NextTest
  <2>2. file =< Len(files) /\ file \in Nat /\ Len(files) \in Nat
    BY <2>1, LoopPosition DEF TypeOK
  <2>3. QED
    BY <2>1, <2>2
<1>6. CASE SkipTest
  <2>1. pc = "test" /\ UNCHANGED <<options, pc, files, file>> /\ ~FailsUnmapped
    BY <1>6 DEF SkipTest, NextTest
  <2>2. file =< Len(files) /\ file \in Nat /\ Len(files) \in Nat
    BY <2>1, LoopPosition DEF TypeOK
  <2>3. QED
    BY <2>1, <2>2
<1>7. CASE EndFile
  <2>1. pc = "test" /\ pc' = "file" /\ file' = file + 1 /\ pos' = 1
        /\ UNCHANGED <<options, files, skipped>>
    BY <1>7 DEF EndFile
  <2>2. file \in Nat /\ Len(files) \in Nat
    BY <2>1, LoopPosition DEF TypeOK
  <2>3. QED
    BY <2>1, <2>2
<1>8. CASE BeginSubmit \/ (\E s \in Scenarios : SubmitGroup(s)) \/ Counts
  <2>1. UNCHANGED <<options, files, file, pos, skipped>>
        /\ pc \in {"file", "submit", "await"} /\ pc' \in {"submit", "await"}
    BY <1>8 DEF BeginSubmit, Collected, SubmitGroup, Counts, GroupPosted, GroupFailed, collecting
  <2>2. QED
    BY <2>1
<1>9. QED
  BY <1>1, <1>2, <1>3, <1>4, <1>5, <1>6, <1>7, <1>8 DEF Kinds

(* Every step keeps what is known while the pipeline submits its groups. *)
LEMMA SubmitStep == TypeOK /\ SubmitInv /\ Kinds => SubmitInv'
<1> SUFFICES ASSUME TypeOK, SubmitInv, Kinds
             PROVE  SubmitInv'
  OBVIOUS
<1> USE DEF SubmitInv, GroupsWith
<1>1. CASE Moves \/ Throws \/ Returns
  <2>1. UNCHANGED <<options, todo, current, verdicts, files, file>> /\ Keys' = Keys
    BY <1>1, CollectionRests DEF Moves, Throws, Returns, collecting, submitting
  <2>2. /\ pc' \in {"submit", "await"} => pc' = pc
        /\ pc' \in {"discover", "file", "parse", "test"} =>
             pc \in {"discover", "file", "parse", "test"}
    BY <1>1 DEF Moves, Throws, Returns, Throw, Return
  <2>3. QED
    BY <2>1, <2>2
<1>2. CASE Discover \/ MapTest \/ SkipTest \/ EndFile
  <2>1. UNCHANGED <<todo, current, verdicts>>
    BY <1>2, SubmissionRests DEF submitting
  <2>2. /\ pc \in {"discover", "file", "parse", "test"}
        /\ pc' \in {"discover", "file", "parse", "test"}
    BY <1>2 DEF Discover, MapTest, SkipTest, NextTest, EndFile
  <2>3. todo' = {} /\ \A s \in Scenarios : verdicts'[s] = "none"
    BY <2>1, <2>2
  <2>4. QED
    BY <2>2, <2>3
<1>3. CASE BeginSubmit
  <2>1. \A s \in Scenarios : verdicts'[s] = "none"
    BY <1>3 DEF BeginSubmit, Collected
  <2>2. todo' = Keys /\ Keys' = Keys
    BY <1>3 DEF BeginSubmit, Keys, collecting
  <2>3. pc' = "submit" /\ ~options'.dryRun /\ file' > Len(files')
    BY <1>3 DEF BeginSubmit, Collected, collecting
  <2>4. \A s \in Keys : s \in Scenarios
    BY DEF Keys
  <2>5. QED
    BY <2>1, <2>2, <2>3, <2>4
<1>4. ASSUME NEW s \in Scenarios, SubmitGroup(s)
      PROVE  SubmitInv'
  BY <1>4 DEF SubmitGroup, Keys, collecting
<1>5. CASE Counts
  BY <1>5 DEF Counts, GroupPosted, GroupFailed, AfterFailure, Keys, collecting, TypeOK
<1>6. QED
  BY <1>1, <1>2, <1>3, <1>4, <1>5 DEF Kinds

\* The groups are disjoint, so their executions add up.
LEMMA GroupsAdd ==
  ASSUME TypeOK, GroupsExact, NEW S \in SUBSET Scenarios, NEW s \in Scenarios \ S
  PROVE  Cardinality(ExecutionsOf(S \cup {s}))
           = Cardinality(ExecutionsOf(S)) + Cardinality(groups[s])
<1> DEFINE E == ExecutionsOf(S)
           G == groups[s]
<1>1. ExecutionsOf(S \cup {s}) = E \cup G
  BY DEF ExecutionsOf
<1>2. E \cap G = {}
  BY DEF ExecutionsOf, GroupsExact, InScenario
<1>3. /\ IsFiniteSet(E) /\ Cardinality(E) \in Nat
      /\ IsFiniteSet(G) /\ Cardinality(G) \in Nat
  <2>1. {s} \in SUBSET Scenarios /\ s \in {s}
    OBVIOUS
  <2>2. QED
    BY <2>1, GroupCount
<1> HIDE DEF E, G
<1>4. Cardinality(E \cap G) = 0
  BY <1>2, FS_EmptySet
<1>5. Cardinality(E \cup G) = Cardinality(E) + Cardinality(G) - Cardinality(E \cap G)
  BY <1>3, FS_Union, Zenon
<1>6. Cardinality(E \cup G) = Cardinality(E) + Cardinality(G)
  BY <1>3, <1>4, <1>5
<1>7. QED
  BY <1>1, <1>6 DEF E, G

(* Every step keeps the counters of posted and failed executions equal to the groups with
   that verdict. *)
LEMMA PostsStep ==
  TypeOK /\ GroupsExact /\ PostsExact /\ SubmitInv /\ Kinds => PostsExact'
<1> SUFFICES ASSUME TypeOK, GroupsExact, PostsExact, SubmitInv, Kinds
             PROVE  PostsExact'
  OBVIOUS
<1>1. CASE Moves \/ Throws \/ Returns \/ BeginSubmit \/ (\E s \in Scenarios : SubmitGroup(s))
  <2>1. UNCHANGED groups
    BY <1>1, CollectionRests DEF collecting
  <2>2. UNCHANGED <<posted, failed, verdicts>>
    BY <1>1, SubmissionRests DEF submitting, BeginSubmit, SubmitGroup
  <2>3. QED
    BY <2>1, <2>2 DEF PostsExact, ExecutionsOf, GroupsWith
<1>2. CASE Discover \/ MapTest \/ SkipTest \/ EndFile
  <2>1. UNCHANGED <<posted, failed, verdicts>>
    BY <1>2, SubmissionRests DEF submitting
  <2>2. GroupsWith("none") = Scenarios
    BY <1>2 DEF SubmitInv, Discover, MapTest, SkipTest, EndFile
  <2>3. /\ GroupsWith("success") = {} /\ GroupsWith("success")' = {}
        /\ GroupsWith("failure") = {} /\ GroupsWith("failure")' = {}
    BY <2>1, <2>2 DEF GroupsWith
  <2>4. ExecutionsOf({}) = {} /\ ExecutionsOf({})' = {}
    BY DEF ExecutionsOf
  <2>5. QED
    BY <2>1, <2>3, <2>4 DEF PostsExact
<1>3. CASE Counts
  <2> DEFINE n == Cardinality(groups[current])
  <2>1. UNCHANGED groups
    BY <1>3, CollectionRests DEF collecting
  <2>2. current \in Scenarios /\ verdicts[current] = "none"
    BY <1>3 DEF Counts, GroupPosted, GroupFailed, TypeOK, SubmitInv
  <2>3. verdicts \in [Scenarios -> {"none", "success", "failure"}]
    BY DEF TypeOK
  <2>4. \A S \in SUBSET Scenarios : ExecutionsOf(S)' = ExecutionsOf(S)
    BY <2>1 DEF ExecutionsOf
  <2>5. /\ GroupsWith("success") \in SUBSET Scenarios /\ current \notin GroupsWith("success")
        /\ GroupsWith("failure") \in SUBSET Scenarios /\ current \notin GroupsWith("failure")
    BY <2>2 DEF GroupsWith
  <2>6. CASE GroupPosted(n)
    <3>1. posted' = posted + n /\ failed' = failed
          /\ verdicts' = [verdicts EXCEPT ![current] = "success"]
      BY <2>6 DEF GroupPosted
    <3>2. /\ GroupsWith("success")' = GroupsWith("success") \cup {current}
          /\ GroupsWith("failure")' = GroupsWith("failure")
      BY <2>2, <2>3, <3>1 DEF GroupsWith
    <3>3. Cardinality(ExecutionsOf(GroupsWith("success") \cup {current}))
            = Cardinality(ExecutionsOf(GroupsWith("success"))) + n
      BY <2>2, <2>5, GroupsAdd
    <3> HIDE DEF n
    <3>4. QED
      BY <2>1, <2>5, <3>1, <3>2, <3>3 DEF PostsExact, ExecutionsOf
  <2>7. CASE GroupFailed(n)
    <3>1. failed' = failed + n /\ posted' = posted
          /\ verdicts' = [verdicts EXCEPT ![current] = "failure"]
      BY <2>7 DEF GroupFailed
    <3>2. /\ GroupsWith("failure")' = GroupsWith("failure") \cup {current}
          /\ GroupsWith("success")' = GroupsWith("success")
      BY <2>2, <2>3, <3>1 DEF GroupsWith
    <3>3. Cardinality(ExecutionsOf(GroupsWith("failure") \cup {current}))
            = Cardinality(ExecutionsOf(GroupsWith("failure"))) + n
      BY <2>2, <2>5, GroupsAdd
    <3> HIDE DEF n
    <3>4. QED
      BY <2>1, <2>5, <3>1, <3>2, <3>3 DEF PostsExact, ExecutionsOf
  <2>8. QED
    BY <1>3, <2>6, <2>7 DEF Counts
<1>4. QED
  BY <1>1, <1>2, <1>3 DEF Kinds

(* Every step keeps what the exit code says of the run. *)
LEMMA EndStep == TypeOK /\ SubmitInv /\ EndInv /\ Kinds => EndInv'
<1> SUFFICES ASSUME TypeOK, SubmitInv, EndInv, Kinds
             PROVE  EndInv'
  OBVIOUS
<1> USE DEF EndInv, GroupsWith
<1>1. CASE Moves
  <2>1. UNCHANGED <<options, collecting, submitting, ending>> /\ Keys' = Keys
    BY <1>1, CollectionRests DEF Moves
  <2>2. pc' = "ended" <=> pc = "ended"
    BY <1>1 DEF Moves
  <2>3. QED
    BY <2>1, <2>2 DEF collecting, submitting, ending, SkippedExit, SubmittedExit
<1>2. CASE Throws
  BY <1>2 DEF Throws, Throw
<1>3. CASE Returns
  <2>1. UNCHANGED <<options, collecting, submitting>> /\ Keys' = Keys
    BY <1>3, CollectionRests DEF Returns
  <2>2. UNCHANGED <<options, files, file, skipped, failed, verdicts>>
    BY <2>1 DEF collecting, submitting
  <2>3. CASE pc \in {"parse", "test"} /\ file =< Len(files) /\ Return(2)
    BY <2>2, <2>3 DEF Return, SubmitInv
  <2>4. CASE Collected /\ options.dryRun /\ Return(SkippedExit)
    BY <2>2, <2>4 DEF Return, Collected, SkippedExit
  <2>5. CASE pc = "submit" /\ todo = {} /\ Return(SubmittedExit)
    BY <2>1, <2>2, <2>5 DEF Return, SubmittedExit, SkippedExit, SubmitInv
  <2>6. QED
    BY <1>3, <2>3, <2>4, <2>5 DEF Returns
<1>4. CASE Discover \/ MapTest \/ SkipTest \/ EndFile \/ BeginSubmit
             \/ (\E s \in Scenarios : SubmitGroup(s)) \/ Counts
  <2>1. pc # "ended" /\ pc' # "ended" /\ UNCHANGED ending
    BY <1>4 DEF Discover, MapTest, SkipTest, NextTest, EndFile, BeginSubmit, Collected,
                SubmitGroup, Counts, GroupPosted, GroupFailed
  <2>2. QED
    BY <2>1 DEF ending
<1>5. QED
  BY <1>1, <1>2, <1>3, <1>4 DEF Kinds

----------------------------------------------------------------------------

(* The initial states of the pipeline satisfy the inductive invariant. *)
LEMMA InitInv == Init => IInv
<1> SUFFICES ASSUME Init
             PROVE  IInv
  OBVIOUS
<1>1. files = <<>> /\ file = 1 /\ pos = 1 /\ Len(files) = 0
  BY DEF Init
<1>2. Positions = {}
  BY <1>1, PositionElement
<1>3. Read = {} /\ MappedOf(Read) = {}
  BY <1>2 DEF Read, MappedOf
<1>4. TypeOK
  <2>1. options \in Options
    BY OptionSetsAssumption DEF Init
  <2>2. files \in Seq(Files) /\ file \in 1 .. Len(files) + 1
    BY <1>1
  <2>3. groups \in [Scenarios -> SUBSET (Nat \X Nat)]
        /\ verdicts \in [Scenarios -> {"none", "success", "failure"}]
    BY DEF Init
  <2>4. /\ pc \in PCs /\ pc \notin {"parse", "test", "await"}
        /\ pos \in Nat \ {0} /\ mapped \in Nat /\ skipped \in Nat
        /\ todo \subseteq Scenarios /\ current \in Scenarios \cup {Null}
    BY DEF Init, PCs
  <2>5. /\ posted \in Nat /\ failed \in Nat
        /\ outcome \in {"none", "returned", "canceled", "faulted"}
        /\ exit \in {0, 2, 3} /\ cancelled \in BOOLEAN
    BY DEF Init
  <2>6. QED
    BY <2>1, <2>2, <2>3, <2>4, <2>5 DEF TypeOK
<1>5. GroupsExact
  BY <1>3 DEF GroupsExact, InScenario, Init, MappedOf
<1>6. CountersExact
  BY <1>3, FS_EmptySet DEF CountersExact, Init
<1>7. PostsExact
  <2>1. GroupsWith("success") = {} /\ GroupsWith("failure") = {}
    BY DEF GroupsWith, Init
  <2>2. ExecutionsOf({}) = {}
    BY DEF ExecutionsOf
  <2>3. QED
    BY <2>1, <2>2, FS_EmptySet DEF PostsExact, Init
<1>8. ReadInv
  BY <1>1 DEF ReadInv, Init
<1>9. SubmitInv /\ EndInv
  BY DEF SubmitInv, EndInv, GroupsWith, Init
<1>10. QED
  BY <1>4, <1>5, <1>6, <1>7, <1>8, <1>9 DEF IInv

(* Every step of the pipeline keeps the inductive invariant. *)
LEMMA StepInv == IInv /\ [Next]_vars => IInv'
<1> SUFFICES ASSUME IInv, [Next]_vars
             PROVE  IInv'
  OBVIOUS
<1>1. Kinds
  BY StepKinds DEF IInv
<1>2. QED
  BY <1>1, TypeStep, GroupsStep, CountersStep, PostsStep, ReadStep, SubmitStep, EndStep DEF IInv

\* In every behaviour of the pipeline, with or without fairness, the inductive
\* invariant holds: collection, counters, submission and ending agree.
THEOREM ImporterInvariant == Safety => []IInv
  BY InitInv, StepInv, PTL DEF Safety

\* The types of Importer.
THEOREM ImporterTypes == Safety => []TypeOK
<1>1. IInv => TypeOK
  BY DEF IInv
<1>2. QED
  BY <1>1, ImporterInvariant, PTL

\* The groups of AddExecutionToScenarioGroup are exactly the mapped test cases
\* read so far, by scenario.
THEOREM ImporterGroups == Safety => []GroupsExact
<1>1. IInv => GroupsExact
  BY DEF IInv
<1>2. QED
  BY <1>1, ImporterInvariant, PTL

\* The counters of the summary are the numbers of test cases they stand for.
THEOREM ImporterCounters == Safety => []CountsExact
<1>1. IInv => CountsExact
  BY DEF IInv, CountsExact
<1>2. QED
  BY <1>1, ImporterInvariant, PTL

\* A strict run that has not been refused has read mapped test cases only.
LEMMA StrictMapped ==
  ASSUME IInv, FailsUnmapped
  PROVE  MappedOf(Read) = Read
<1>1. IsFiniteSet(Read \ MappedOf(Read))
  BY ReadFinite DEF IInv
<1>2. Cardinality(Read \ MappedOf(Read)) = 0
  BY DEF IInv, CountersExact, ReadInv
<1>3. Read \ MappedOf(Read) = {}
  BY <1>1, <1>2, FS_EmptySet
<1>4. QED
  BY <1>3 DEF MappedOf

\* Nothing is submitted before every test case has been read and, in a strict
\* run, found mapped.
THEOREM ImporterSubmitsOnlyComplete == Safety => []SubmitsOnlyComplete
<1>1. IInv => SubmitsOnlyComplete
  <2> SUFFICES ASSUME IInv, pc \in {"submit", "await"} \/ GroupsWith("none") # Scenarios
               PROVE  /\ ~options.dryRun
                      /\ Readable \subseteq Read
                      /\ FailsUnmapped => MappedOf(Readable) = Readable
    BY DEF SubmitsOnlyComplete
  <2>1. ~options.dryRun /\ file > Len(files)
    BY DEF IInv, SubmitInv
  <2>2. Read = Positions
    BY <2>1, ReadAll DEF IInv
  <2>3. Readable \subseteq Read
    BY <2>2 DEF Readable
  <2>4. ASSUME FailsUnmapped
        PROVE  MappedOf(Readable) = Readable
    BY <2>3, <2>4, StrictMapped DEF MappedOf
  <2>5. QED
    BY <2>1, <2>3, <2>4
<1>2. QED
  BY <1>1, ImporterInvariant, PTL

\* When every group has its verdict, the groups counted as posted and those
\* counted as failed make up all mapped test cases of the input.
LEMMA VerdictsCover ==
  ASSUME IInv, file > Len(files), \A s \in Keys : verdicts[s] # "none"
  PROVE  /\ MappedOf(Positions)
              = ExecutionsOf(GroupsWith("success")) \cup ExecutionsOf(GroupsWith("failure"))
         /\ posted + failed = mapped
<1> DEFINE Won == ExecutionsOf(GroupsWith("success"))
           Lost == ExecutionsOf(GroupsWith("failure"))
<1>1. TypeOK /\ GroupsExact /\ CountersExact /\ PostsExact
  BY DEF IInv
<1>2. Read = Positions
  BY <1>1, ReadAll
<1>3. Won \cup Lost \subseteq MappedOf(Positions)
  BY <1>1, <1>2 DEF GroupsExact, ExecutionsOf, GroupsWith, InScenario
<1>4. ASSUME NEW r \in MappedOf(Positions)
      PROVE  r \in Won \cup Lost
  <2> DEFINE s == ScenarioId(TestAt(r))
  <2>1. s \in Scenarios
    BY <1>1, MappedScenario
  <2>2. r \in groups[s]
    BY <1>1, <1>2, <2>1 DEF GroupsExact, InScenario
  <2> HIDE DEF s
  <2>3. verdicts[s] \in {"success", "failure"}
    BY <1>1, <2>1, <2>2 DEF Keys, TypeOK
  <2>4. QED
    BY <2>1, <2>2, <2>3 DEF ExecutionsOf, GroupsWith
<1>5. Won \cap Lost = {}
  BY <1>1 DEF GroupsExact, ExecutionsOf, GroupsWith, InScenario
<1>6. /\ IsFiniteSet(Won) /\ Cardinality(Won) \in Nat
      /\ IsFiniteSet(Lost) /\ Cardinality(Lost) \in Nat
  <2>1. GroupsWith("success") \in SUBSET Scenarios /\ GroupsWith("failure") \in SUBSET Scenarios
    BY DEF GroupsWith
  <2>2. QED
    BY <1>1, <2>1, GroupCount
<1>7. MappedOf(Positions) = Won \cup Lost
  BY <1>3, <1>4
<1>8. Cardinality(Won \cup Lost) = Cardinality(Won) + Cardinality(Lost)
  <2>1. Cardinality(Won \cap Lost) = 0
    BY <1>5, FS_EmptySet
  <2> HIDE DEF Won, Lost
  <2>2. Cardinality(Won \cup Lost)
          = Cardinality(Won) + Cardinality(Lost) - Cardinality(Won \cap Lost)
    BY <1>6, FS_Union, Zenon
  <2>3. QED
    BY <2>1, <2>2, <1>6
<1>9. QED
  BY <1>1, <1>2, <1>7, <1>8 DEF CountersExact, PostsExact

\* A run that returns after submitting has tried every group and accounts for
\* every mapped test case.
THEOREM ImporterTriesEveryGroup == Safety => []EveryGroupTried
<1>1. IInv => EveryGroupTried
  <2> SUFFICES ASSUME IInv, outcome = "returned", ~options.dryRun, file > Len(files)
               PROVE  (\A s \in Keys : verdicts[s] # "none") /\ posted + failed = mapped
    BY DEF EveryGroupTried
  <2>1. Len(files) \in Nat /\ file \in Nat
    BY DEF IInv, TypeOK
  <2>2. \A s \in Keys : verdicts[s] # "none"
    BY <2>1 DEF IInv, EndInv
  <2>3. QED
    BY <2>2, VerdictsCover
<1>2. QED
  BY <1>1, ImporterInvariant, PTL

\* What the exit codes 0 and 3 let a CI job conclude.
THEOREM ImporterExitMeaning == Safety => []ExitMeaning
<1>1. IInv => ExitMeaning
  <2> SUFFICES ASSUME IInv, outcome = "returned"
               PROVE  /\ exit = 0 => /\ Read = Positions /\ MappedOf(Positions) = Positions
                                     /\ options.dryRun \/ posted = Cardinality(Positions)
                      /\ exit = 3 <=> GroupsWith("failure") # {}
    BY DEF ExitMeaning
  <2>1. TypeOK /\ GroupsExact /\ CountersExact /\ PostsExact /\ SubmitInv /\ EndInv
    BY DEF IInv
  <2>2. /\ GroupsWith("failure") \in SUBSET Scenarios
        /\ \A s \in GroupsWith("failure") : groups[s] # {}
    BY <2>1 DEF GroupsWith, SubmitInv, Keys
  <2>3. failed > 0 <=> GroupsWith("failure") # {}
    <3> DEFINE Lost == ExecutionsOf(GroupsWith("failure"))
    <3>1. IsFiniteSet(Lost) /\ Cardinality(Lost) \in Nat
      BY <2>1, <2>2, GroupCount
    <3>2. Lost = {} <=> GroupsWith("failure") = {}
      BY <2>2 DEF ExecutionsOf
    <3>3. Cardinality(Lost) = 0 <=> Lost = {}
      BY <3>1, FS_EmptySet
    <3>4. failed = Cardinality(Lost)
      BY <2>1 DEF PostsExact
    <3> HIDE DEF Lost
    <3>5. QED
      BY <3>1, <3>2, <3>3, <3>4
  <2>4. ASSUME file > Len(files), skipped = 0
        PROVE  Read = Positions /\ MappedOf(Positions) = Positions
    <3>1. Read = Positions
      BY <2>1, <2>4, ReadAll
    <3>2. IsFiniteSet(Read \ MappedOf(Read))
      BY <2>1, ReadFinite
    <3>3. Read \ MappedOf(Read) = {}
      BY <2>1, <2>4, <3>2, FS_EmptySet DEF CountersExact
    <3>4. QED
      BY <3>1, <3>3 DEF MappedOf
  <2>5. CASE file =< Len(files) /\ exit = 2 /\ GroupsWith("none") = Scenarios
    BY <2>5 DEF GroupsWith
  <2>6. CASE file > Len(files) /\ options.dryRun /\ exit = SkippedExit
    <3>1. exit # 3 /\ (exit = 0 => skipped = 0)
      BY <2>1, <2>6 DEF SkippedExit, TypeOK
    <3>2. GroupsWith("failure") = {}
      BY <2>1, <2>6 DEF SubmitInv, GroupsWith
    <3>3. QED
      BY <2>4, <2>6, <3>1, <3>2
  <2>7. CASE /\ file > Len(files) /\ ~options.dryRun /\ exit = SubmittedExit
             /\ \A s \in Keys : verdicts[s] # "none"
    <3>1. (exit = 3 <=> failed > 0) /\ (exit = 0 => skipped = 0 /\ failed = 0)
      BY <2>1, <2>7 DEF SubmittedExit, SkippedExit, TypeOK
    <3>2. posted + failed = mapped
      BY <2>7, VerdictsCover
    <3>3. mapped = Cardinality(MappedOf(Positions))
      BY <2>1, <2>7, ReadAll DEF CountersExact
    <3>4. posted \in Nat
      BY <2>1 DEF TypeOK
    <3>5. QED
      BY <2>3, <2>4, <2>7, <3>1, <3>2, <3>3, <3>4
  <2>8. QED
    BY <2>1, <2>5, <2>6, <2>7 DEF EndInv
<1>2. QED
  BY <1>1, ImporterInvariant, PTL
=============================================================================
