---------------------------- MODULE JUnitParser ----------------------------
(***************************************************************************)
(* Parsing of one JUnit XML file (Services/JUnitParser.cs): a cursor, the   *)
(* XmlReader, moves over the nodes of a document, and nested loops collect   *)
(* the test cases from what passes by.                                      *)
(*                                                                         *)
(* A document is the sequence of nodes the reader delivers (comments and     *)
(* whitespace left out); in one that is not well formed it delivers the      *)
(* nodes before the error and then throws.  A test case, an issue and a text *)
(* are named by the position of their node.                                 *)
(***************************************************************************)
EXTENDS Integers, Sequences, FiniteSets

CONSTANTS
    Null,           \* no timestamp, no case id
    Documents       \* the documents to parse

Times == {"none", "finite", "unbounded"}

\* named: the name attribute is not blank.  stamp: the timestamp of a suite.
\* time: what the time attribute parses to, unbounded when no TimeSpan holds
\* it.  id: the value of a property named case_id, if it is an integer.
Nodes == [type : {"start", "end", "text"}, name : STRING, depth : Nat, empty : BOOLEAN,
          named : BOOLEAN, stamp : Nat \cup {Null}, time : Times, id : Int \cup {Null}]

FirstOf(S) == CHOOSE i \in S : \A k \in S : i =< k

HasContent(n) == n.type = "start" /\ ~n.empty
EndTags(ns, i) == {j \in i + 1 .. Len(ns) : ns[j].type = "end" /\ ns[j].depth = ns[i].depth}

\* What a reader guarantees of the nodes ns of a document: an element with
\* content lies one deeper than its start tag, up to the end tag, which has the
\* same name; only a document that is not well formed may lack the end tag.
DepthAfter(n) == IF HasContent(n) THEN n.depth + 1 ELSE n.depth

Nested(ns) ==
    \A k \in 1 .. Len(ns) - 1 :
        ns[k + 1].depth = DepthAfter(ns[k]) - (IF ns[k + 1].type = "end" THEN 1 ELSE 0)

Matched(d) ==
    \A i \in 1 .. Len(d.nodes) :
        HasContent(d.nodes[i]) =>
            IF EndTags(d.nodes, i) = {}
            THEN ~d.wellFormed
            ELSE d.nodes[FirstOf(EndTags(d.nodes, i))].name = d.nodes[i].name

ASSUME NullAssumption == Null \notin Int
ASSUME DocumentsAssumption ==
    /\ Documents \subseteq [nodes : Seq(Nodes), wellFormed : BOOLEAN]
    /\ \A d \in Documents : Nested(d.nodes) /\ Matched(d)

VARIABLES
    document,       \* the file
    at,             \* the position of the reader, 0 before the first node
    mode,           \* the loop that reads: of ParseAsync ("document"), ReadTestCaseAsync,
                    \* ReadIssueNodeAsync, ReadPropertiesForCaseIdAsync; "done", "failed"
    stamp,          \* currentSuiteTimestamp
    current,        \* the locals of ReadTestCaseAsync
    element,        \* the element the innermost loop reads
    results,        \* the list of the same name
    cancelled       \* the CancellationToken

vars == <<document, at, mode, stamp, current, element, results, cancelled>>

nodes == document.nodes
next == nodes[at + 1]
HasNext == at < Len(nodes)

Issues == [failure |-> "Failed", error |-> "Error", skipped |-> "Skipped", ignored |-> "Skipped"]
IssueNames == DOMAIN Issues
SuiteNames == {"testsuite", "suite"}

IsStart(n, names) == n.type = "start" /\ n.name \in names
IsForeign(n) == n.type = "start" /\ n.name \notin IssueNames \cup {"properties"}
HoldsCaseId(n) == IsStart(n, {"property"}) /\ n.id # Null
EndsAt(n, i) == n.type = "end" /\ n.depth = nodes[i].depth

\* The end tag of the element that starts at i.
Ends(i) == EndTags(nodes, i)
EndOf(i) == FirstOf(Ends(i))

Opened(i) == [at |-> i, outcome |-> "Passed", issue |-> 0, details |-> {}, caseId |-> Null]
NoCase == Opened(0)

----------------------------------------------------------------------------
Init ==
    /\ document \in Documents
    /\ at = 0
    /\ mode = "document"
    /\ stamp = Null
    /\ current = NoCase
    /\ element = 0
    /\ results = <<>>
    /\ cancelled = FALSE

\* ParseAsync wraps every exception: the caller gets no results.
Throw ==
    /\ mode' = "failed"
    /\ UNCHANGED <<document, at, stamp, current, element, results, cancelled>>

Reading == mode \notin {"done", "failed"}

\* A file that cannot be opened, the token, which every loop checks after
\* every node, and the end of a document that is not well formed.
ReadFails ==
    /\ Reading
    /\ \/ at = 0 /\ mode = "document"
       \/ HasNext /\ cancelled
       \/ ~HasNext /\ ~document.wellFormed
    /\ Throw

\* The reader delivers the next node, or the one d positions ahead.
Advance(d) ==
    /\ HasNext
    /\ ~cancelled
    /\ at' = at + d
    /\ UNCHANGED <<document, cancelled>>

\* The loop m reads on, with the locals c of the test case; a loop that begins
\* reads the content of the element just met.
Step(d, m, c) ==
    /\ Advance(d)
    /\ mode' = m
    /\ current' = c
    /\ element' = IF m = mode THEN element
                  ELSE IF m \in {"issue", "properties"} THEN at + 1 ELSE 0
    /\ UNCHANGED <<stamp, results>>

\* The next node is a start tag of that name and loop m will see it.
Meets(m, names) == mode = m /\ HasNext /\ IsStart(next, names)

----------------------------------------------------------------------------
(* ParseAsync.                                                              *)

PassDocumentNode ==
    /\ mode = "document"
    /\ HasNext
    /\ ~IsStart(next, SuiteNames \cup {"testcase"})
    /\ Step(1, mode, current)

ReadSuite ==
    /\ Meets("document", SuiteNames)
    /\ Advance(1)
    /\ stamp' = next.stamp
    /\ UNCHANGED <<mode, current, element, results>>

BeginCase ==
    /\ Meets("document", {"testcase"})
    /\ ~next.empty
    /\ Step(1, "testcase", Opened(at + 1))

\* The end of ReadTestCaseAsync.  The sum for FinishedAt comes first and may
\* throw; a test case without a name is dropped.
Overflows(c) == nodes[c.at].time = "unbounded" /\ stamp # Null

Result(c) ==
    [at |-> c.at, outcome |-> c.outcome, issue |-> c.issue, details |-> c.details,
     caseId |-> c.caseId, started |-> stamp]

NamelessToo(c) == Append(results, Result(c))               \* mutant: no guard on the name
Collected(c) == IF nodes[c.at].named THEN Append(results, Result(c)) ELSE results

Close(c) ==
    /\ ~Overflows(c)
    /\ results' = Collected(c)
    /\ mode' = "document"
    /\ current' = NoCase
    /\ UNCHANGED <<stamp, element>>

ReadEmptyCase ==
    /\ Meets("document", {"testcase"})
    /\ next.empty
    /\ Advance(1)
    /\ Close(Opened(at + 1))

ParseReturns ==
    /\ mode = "document"
    /\ ~HasNext
    /\ document.wellFormed
    /\ mode' = "done"
    /\ UNCHANGED <<document, at, stamp, current, element, results, cancelled>>

----------------------------------------------------------------------------
(* ReadTestCaseAsync.                                                       *)

\* The loop ends at the end tag of the test case, or with the document.
AtCaseEnd == next.name = "testcase" /\ EndsAt(next, current.at)
AtDocumentEnd == ~HasNext /\ document.wellFormed

EndCase ==
    /\ mode = "testcase"
    /\ Advance(1)
    /\ AtCaseEnd
    /\ Close(current)

\* mutant: the loop waits for an end tag that never comes
WaitForEndTag ==
    /\ mode = "testcase"
    /\ AtDocumentEnd
    /\ UNCHANGED vars

EndCaseWithDocument ==
    /\ mode = "testcase"
    /\ AtDocumentEnd
    /\ Close(current)
    /\ UNCHANGED <<document, at, cancelled>>

FinishedAtOverflows ==
    /\ \/ Meets("document", {"testcase"}) /\ next.empty /\ ~cancelled /\ Overflows(Opened(at + 1))
       \/ /\ mode = "testcase"
          /\ Overflows(current)
          /\ AtDocumentEnd \/ (HasNext /\ ~cancelled /\ AtCaseEnd)
    /\ Throw

\* Text, end tags of inner elements, and empty elements of no interest.
PassCaseNode ==
    /\ mode = "testcase"
    /\ HasNext
    /\ \/ next.type # "start" /\ ~AtCaseEnd
       \/ IsForeign(next) /\ next.empty
    /\ Step(1, mode, current)

WithIssue(i) ==
    [current EXCEPT !.outcome = Issues[nodes[i].name], !.issue = i, !.details = {}]
WithCaseId(id) == [current EXCEPT !.caseId = id]

\* failure and error: the texts inside become the details.
ReadIssue ==
    /\ Meets("testcase", {"failure", "error"})
    /\ Step(1, IF next.empty THEN mode ELSE "issue", WithIssue(at + 1))

\* skipped and ignored: the message only, and one node more of the content.
ReadSkipped ==
    /\ Meets("testcase", {"skipped", "ignored"})
    /\ next.empty \/ at + 2 =< Len(nodes)
    /\ Step(IF next.empty THEN 1 ELSE 2, mode, WithIssue(at + 1))

EmptyProperties ==
    /\ Meets("testcase", {"properties"})
    /\ next.empty
    /\ Step(1, mode, WithCaseId(Null))

BeginProperties ==
    /\ Meets("testcase", {"properties"})
    /\ ~next.empty
    /\ Step(1, "properties", current)

\* Any other element with content: SkipAsync leaves the reader on the node
\* after the end tag, and the loop reads on from there.
MeetsForeign == mode = "testcase" /\ HasNext /\ IsForeign(next) /\ ~next.empty
BeforeTheLast(i) == Ends(i) # {} /\ EndOf(i) < Len(nodes)

\* mutant: no look at what follows the element
SkipBlindly ==
    /\ MeetsForeign
    /\ Ends(at + 1) # {}
    /\ Step(EndOf(at + 1) + 1 - at, mode, current)

SkipOther ==
    /\ MeetsForeign
    /\ BeforeTheLast(at + 1)
    /\ Step(EndOf(at + 1) + 1 - at, mode, current)

\* SkipAsync and the extra read of a skipped element meet the error of a
\* document that is not well formed.
SkipFails ==
    /\ \/ MeetsForeign /\ ~BeforeTheLast(at + 1)
       \/ Meets("testcase", {"skipped", "ignored"}) /\ ~next.empty /\ at + 2 > Len(nodes)
    /\ Throw

----------------------------------------------------------------------------
(* ReadIssueNodeAsync.                                                      *)

IssueText ==
    /\ mode = "issue"
    /\ HasNext
    /\ next.type = "text"
    /\ Step(1, mode, [current EXCEPT !.details = @ \cup {at + 1}])

PassIssueNode ==
    /\ mode = "issue"
    /\ HasNext
    /\ next.type # "text"
    /\ ~EndsAt(next, element)
    /\ Step(1, mode, current)

\* mutant: the end tag of an inner element ends the issue
EndIssueEarly ==
    /\ mode = "issue"
    /\ HasNext
    /\ next.type = "end"
    /\ Step(1, "testcase", current)

EndIssue ==
    /\ mode = "issue"
    /\ HasNext
    /\ EndsAt(next, element)
    /\ Step(1, "testcase", current)

----------------------------------------------------------------------------
(* ReadPropertiesForCaseIdAsync: the first case_id that is an integer.      *)

PassProperty ==
    /\ mode = "properties"
    /\ HasNext
    /\ ~EndsAt(next, element)
    /\ ~HoldsCaseId(next)
    /\ Step(1, mode, current)

ReadCaseId ==
    /\ mode = "properties"
    /\ HasNext
    /\ HoldsCaseId(next)
    /\ Step(1, "testcase", WithCaseId(next.id))

EndProperties ==
    /\ mode = "properties"
    /\ HasNext
    /\ EndsAt(next, element)
    /\ Step(1, "testcase", WithCaseId(Null))

----------------------------------------------------------------------------
CancelKeyPress ==
    /\ Reading
    /\ ~cancelled
    /\ cancelled' = TRUE
    /\ UNCHANGED <<document, at, mode, stamp, current, element, results>>

ParseStep ==
    \/ ReadFails
    \/ PassDocumentNode \/ ReadSuite \/ BeginCase \/ ReadEmptyCase \/ ParseReturns
    \/ EndCase \/ EndCaseWithDocument \/ FinishedAtOverflows \/ PassCaseNode
    \/ ReadIssue \/ ReadSkipped \/ EmptyProperties \/ BeginProperties
    \/ SkipOther \/ SkipFails
    \/ IssueText \/ PassIssueNode \/ EndIssue
    \/ PassProperty \/ ReadCaseId \/ EndProperties

Ended == ~Reading /\ UNCHANGED vars

Next == ParseStep \/ CancelKeyPress \/ Ended

\* ParseAsync runs as long as it can; nobody is obliged to cancel.
Spec == Init /\ [][Next]_vars /\ WF_vars(ParseStep)

----------------------------------------------------------------------------
(* What a document says, read off its nodes without a cursor.               *)

LastOf(S) == CHOOSE i \in S : \A k \in S : k =< i

\* Element i has content, and its end tag is not among the nodes up to n.
Open(i, n) == HasContent(nodes[i]) /\ \A j \in Ends(i) : j > n
Inside(i) == {k \in i + 1 .. Len(nodes) : Open(i, k)}
Children(i, names) ==
    {k \in Inside(i) : IsStart(nodes[k], names) /\ nodes[k].depth = nodes[i].depth + 1}

\* The test cases of a report, none of them inside another, and its suites.
IsCase(i) == IsStart(nodes[i], {"testcase"})
InCase(k) == \E i \in 1 .. k - 1 : IsCase(i) /\ Open(i, k)
SuitesBefore(i) == {k \in 1 .. i : IsStart(nodes[k], SuiteNames) /\ ~InCase(k)}

IssueOf(i) ==
    LET issues == Children(i, IssueNames)
    IN  IF issues = {} THEN 0 ELSE LastOf(issues)

OutcomeOf(issue) == IF issue = 0 THEN "Passed" ELSE Issues[nodes[issue].name]

DetailsOf(issue) ==
    IF issue # 0 /\ nodes[issue].name \in {"failure", "error"}
    THEN {k \in Inside(issue) : nodes[k].type = "text"}
    ELSE {}

CaseIdsOf(i) ==
    LET lists == Children(i, {"properties"})
    IN  IF lists = {} THEN {} ELSE {k \in Inside(LastOf(lists)) : HoldsCaseId(nodes[k])}
CaseIdOf(i) == IF CaseIdsOf(i) = {} THEN Null ELSE nodes[FirstOf(CaseIdsOf(i))].id

StampOf(suites) == IF suites = {} THEN Null ELSE nodes[LastOf(suites)].stamp

ReadingOf(i) ==
    [at |-> i, outcome |-> OutcomeOf(IssueOf(i)), issue |-> IssueOf(i),
     details |-> DetailsOf(IssueOf(i)), caseId |-> CaseIdOf(i),
     started |-> StampOf(SuitesBefore(i))]

\* The test cases with a name that end at or before position n.
CasesUpTo(n) == {i \in 1 .. n : IsCase(i) /\ ~InCase(i) /\ nodes[i].named /\ ~Open(i, n)}

\* What the methods for skipped and for properties leave of element c to the
\* loop of ReadTestCaseAsync, as if it were not inside c.
LeftOf(c) ==
    {k \in Inside(c) :
        \/ nodes[c].name \in {"skipped", "ignored"} /\ k > c + 1
        \/ nodes[c].name = "properties" /\ \E q \in c + 1 .. k - 1 : HoldsCaseId(nodes[q])}

\* The elements up to n that this loop skips or takes for a child: children with
\* content that it does not know, and all but empty unknown ones of what is left.
ForeignUpTo(n) ==
    {k \in 1 .. n :
        \E i \in 1 .. k - 1 :
            /\ IsCase(i) /\ ~InCase(i) /\ Open(i, k)
            /\ nodes[k].type = "start"
            /\ \/ IsForeign(nodes[k]) /\ HasContent(nodes[k]) /\ nodes[k].depth = nodes[i].depth + 1
               \/ /\ ~(IsForeign(nodes[k]) /\ nodes[k].empty)
                  /\ \E c \in Children(i, {"skipped", "ignored", "properties"}) : k \in LeftOf(c)}

Found == {results[k] : k \in 1 .. Len(results)}

----------------------------------------------------------------------------
(* Properties.                                                              *)

\* Every variable holds a value of its kind; the reader stays within the
\* document and the loops read elements of it.
TypeOK ==
    /\ at \in 0 .. Len(nodes)
    /\ mode \in {"document", "testcase", "issue", "properties", "done", "failed"}
    /\ stamp \in Nat \cup {Null}
    /\ current.at \in 0 .. at /\ current.issue \in 0 .. at /\ current.details \subseteq 1 .. at
    /\ current.caseId \in Int \cup {Null}
    /\ element \in 0 .. at
    /\ mode \in {"testcase", "issue", "properties"} => current.at > 0
    /\ mode \in {"issue", "properties"} <=> element > 0 /\ Reading
    /\ cancelled \in BOOLEAN

\* As long as no test case holds an element that is skipped or taken for a
\* child of the test case, the streaming loops find exactly what the document
\* says: each test case once, with its outcome, details, case id and start.
ExactBeforeForeign ==
    mode \in {"document", "done"} /\ ForeignUpTo(at) = {} =>
        Found = {ReadingOf(i) : i \in CasesUpTo(at)}

\* Whatever the document, results name test cases of it, in document order,
\* none twice and none without a name.
CasesInOrder ==
    /\ \A r \in Found : r.at \in 1 .. Len(nodes) /\ IsCase(r.at) /\ nodes[r.at].named
    /\ \A j, k \in 1 .. Len(results) : j < k => results[j].at < results[k].at

\* The parse ends, also when the end tag its loop waits for has been skipped.
ParseEnds == <>(mode \in {"done", "failed"})

\* JUnitParser.cs:112: elements such as system-out are skipped, and nothing
\* else with them: every test case is reported, with the outcome of its own.
EveryCaseReported ==
    mode = "done" =>
        \A i \in CasesUpTo(Len(nodes)) :
            \E r \in Found : r.at = i /\ r.outcome = ReadingOf(i).outcome
=============================================================================
