-------------------------- MODULE JUnitParserProofs --------------------------
(***************************************************************************)
(* Proofs about JUnitParser, for every document a reader may deliver.       *)
(*                                                                         *)
(* What is known of a document is induction over its nodes, by the smallest *)
(* position that would break it (Smallest); what the loops know of it is an  *)
(* invariant of the cursor.                                                 *)
(***************************************************************************)
EXTENDS JUnitParser, WellFoundedInduction, TLAPS

\* A set of numbers that is not empty has a smallest element.
LEMMA Smallest ==
  ASSUME NEW S, S \subseteq Nat, S # {}
  PROVE  \E m \in S : \A k \in S : m =< k
<1> DEFINE R == {p \in Nat \X Nat : p[1] < p[2]}
<1>1. IsWellFoundedOn(R, Nat)
  BY NatLessThanWellFounded DEF OpToRel
<1>2. \A m, k \in Nat : <<k, m>> \in R <=> k < m
  OBVIOUS
<1> HIDE DEF R
<1>3. PICK m \in S : \A k \in S : <<k, m>> \notin R
  BY <1>1, WFMin
<1>4. \A k \in S : m =< k
  <2> SUFFICES ASSUME NEW k \in S PROVE m =< k
    OBVIOUS
  <2>1. m \in Nat /\ k \in Nat /\ ~(k < m)
    BY <1>2, <1>3
  <2>2. QED
    BY <2>1
<1>5. QED
  BY <1>4

\* FirstOf is the smallest element, where there is one.
LEMMA FirstIs ==
  ASSUME NEW S, S \subseteq Nat, NEW x \in S, \A k \in S : x =< k
  PROVE  FirstOf(S) = x
<1>1. FirstOf(S) \in S /\ \A k \in S : FirstOf(S) =< k
  BY DEF FirstOf
<1>2. x =< FirstOf(S) /\ FirstOf(S) =< x /\ x \in Nat /\ FirstOf(S) \in Nat
  BY <1>1
<1>3. QED
  BY <1>1, <1>2

\* LastOf is the greatest element, where there is one.
LEMMA LastIs ==
  ASSUME NEW S, S \subseteq Nat, NEW x \in S, \A k \in S : k =< x
  PROVE  LastOf(S) = x
<1>1. LastOf(S) \in S /\ \A k \in S : k =< LastOf(S)
  BY DEF LastOf
<1>2. x =< LastOf(S) /\ LastOf(S) =< x /\ x \in Nat /\ LastOf(S) \in Nat
  BY <1>1
<1>3. QED
  BY <1>1, <1>2

----------------------------------------------------------------------------
(* Documents.                                                               *)

\* The parts of a document.
LEMMA DocumentParts ==
  ASSUME document \in Documents
  PROVE  /\ document.wellFormed \in BOOLEAN /\ nodes \in Seq(Nodes) /\ Len(nodes) \in Nat
         /\ \A k \in 1 .. Len(nodes) : nodes[k] \in Nodes /\ nodes[k].depth \in Nat
         /\ Nested(nodes) /\ Matched(document)
<1>1. document \in [nodes : Seq(Nodes), wellFormed : BOOLEAN]
      /\ Nested(nodes) /\ Matched(document)
  BY DocumentsAssumption DEF nodes
<1>2. nodes \in Seq(Nodes)
  BY <1>1 DEF nodes
<1>3. \A k \in 1 .. Len(nodes) : nodes[k] \in Nodes
  BY <1>2
<1>4. \A k \in 1 .. Len(nodes) : nodes[k].depth \in Nat
  BY <1>3 DEF Nodes
<1>5. QED
  BY <1>1, <1>2, <1>3, <1>4

\* An element that is open has its start tag, and no end tag so far; it stays
\* open until its end tag is passed, and never opens again.
LEMMA OpenSteps ==
  ASSUME document \in Documents, NEW i \in Nat, NEW n \in Nat
  PROVE  /\ Open(i, n + 1) => Open(i, n)
         /\ \A m \in Nat : m =< n /\ Open(i, n) => Open(i, m)
         /\ Open(i, n) /\ i =< n /\ n < Len(nodes) =>
              (Open(i, n + 1) <=> ~EndsAt(nodes[n + 1], i))
         /\ n =< i => (Open(i, n) <=> HasContent(nodes[i]))
<1> Len(nodes) \in Nat
  BY DocumentParts
<1>1. Ends(i) = {j \in i + 1 .. Len(nodes) : EndsAt(nodes[j], i)}
  BY DEF Ends, EndTags, EndsAt
<1>2. \A j \in Ends(i) : j \in Nat /\ j > i
  BY <1>1
<1>3. \A j \in Ends(i) : j > n /\ j # n + 1 => j > n + 1
  BY <1>2
<1>4. n < Len(nodes) /\ i =< n => (n + 1 \in Ends(i) <=> EndsAt(nodes[n + 1], i))
  BY <1>1
<1>5. \A j \in Ends(i) : j > n + 1 => j > n
  BY <1>2
<1>6. \A j \in Ends(i) : \A m \in Nat : m =< n /\ j > n => j > m
  BY <1>2
<1>7. n =< i => \A j \in Ends(i) : j > n
  BY <1>2
<1>8. ~(n + 1 > n + 1)
  OBVIOUS
<1>9. QED
  BY <1>3, <1>4, <1>5, <1>6, <1>7, <1>8 DEF Open

\* The next node lies as deep as the tags before it say.
LEMMA NextDepth ==
  ASSUME document \in Documents, NEW n \in 1 .. Len(nodes), n < Len(nodes)
  PROVE  /\ nodes[n + 1].type = "end" => nodes[n + 1].depth = DepthAfter(nodes[n]) - 1
         /\ nodes[n + 1].type # "end" => nodes[n + 1].depth = DepthAfter(nodes[n])
         /\ nodes[n].depth \in Nat /\ nodes[n + 1].depth \in Nat /\ DepthAfter(nodes[n]) \in Nat
         /\ nodes[n].depth =< DepthAfter(nodes[n])
<1>1. n \in 1 .. Len(nodes) - 1 /\ n + 1 \in 1 .. Len(nodes)
  BY DocumentParts
<1>2. nodes[n].depth \in Nat /\ nodes[n + 1].depth \in Nat
  BY <1>1, DocumentParts
<1>3. nodes[n + 1].depth
        = DepthAfter(nodes[n]) - (IF nodes[n + 1].type = "end" THEN 1 ELSE 0)
  BY <1>1, DocumentParts DEF Nested
<1>4. DepthAfter(nodes[n]) \in {nodes[n].depth, nodes[n].depth + 1}
  BY DEF DepthAfter
<1>5. QED
  BY <1>2, <1>3, <1>4

\* What follows the nodes of an open element lies deeper than the element.
LEMMA InsideDepth ==
  ASSUME document \in Documents, NEW i \in 1 .. Len(nodes), NEW n \in i .. Len(nodes), Open(i, n)
  PROVE  DepthAfter(nodes[n]) > nodes[i].depth
<1> DEFINE T == {m \in i .. n : ~(DepthAfter(nodes[m]) > nodes[i].depth)}
<1>1. CASE T = {}
  BY <1>1
<1>2. CASE T # {}
  <2>1. PICK m \in T : \A k \in T : m =< k
    <3>1. T \subseteq Nat
      OBVIOUS
    <3>2. QED
      BY <1>2, <3>1, Smallest
  <2>2. Len(nodes) \in Nat /\ m \in 1 .. Len(nodes) /\ i \in Nat /\ n \in Nat /\ m \in Nat
        /\ nodes[i].depth \in Nat
    BY DocumentParts
  <2>3. HasContent(nodes[i])
    BY DEF Open
  <2>4. m # i
    BY <2>2, <2>3 DEF DepthAfter
  <2> DEFINE k == m - 1
  <2>5. k \in i .. n /\ k \in 1 .. Len(nodes) /\ k < Len(nodes) /\ k \notin T /\ m = k + 1
    BY <2>1, <2>2, <2>4
  <2>6. DepthAfter(nodes[k]) > nodes[i].depth
    BY <2>5
  <2>7. Open(i, k) /\ Open(i, k + 1)
    BY <2>2, <2>5, OpenSteps
  <2> HIDE DEF k
  <2>8. ~EndsAt(nodes[k + 1], i)
    BY <2>2, <2>5, <2>7, OpenSteps
  <2>9. nodes[k + 1].depth > nodes[i].depth
    BY <2>2, <2>5, <2>6, <2>8, NextDepth DEF EndsAt
  <2>10. nodes[k + 1].depth =< DepthAfter(nodes[k + 1])
    BY <2>2, <2>5, DocumentParts DEF DepthAfter
  <2>11. DepthAfter(nodes[k + 1]) \in Nat
    BY <2>2, <2>5, DocumentParts DEF DepthAfter
  <2>12. nodes[k + 1].depth \in Nat
    BY <2>2, <2>5, DocumentParts
  <2>13. DepthAfter(nodes[k + 1]) > nodes[i].depth
    BY <2>2, <2>9, <2>10, <2>11, <2>12
  <2>14. ~(DepthAfter(nodes[m]) > nodes[i].depth)
    BY <2>1
  <2>15. QED
    BY <2>5, <2>13, <2>14
<1>3. QED
  BY <1>1, <1>2

\* The nodes of an element lie deeper than it, and its end tag as deep.
LEMMA OpenDepth ==
  ASSUME document \in Documents, NEW i \in 1 .. Len(nodes), NEW n \in i .. Len(nodes),
         n < Len(nodes), Open(i, n)
  PROVE  /\ Open(i, n + 1) => nodes[n + 1].depth > nodes[i].depth
         /\ ~Open(i, n + 1) => nodes[n + 1].depth = nodes[i].depth /\ nodes[n + 1].type = "end"
<1>1. DepthAfter(nodes[n]) > nodes[i].depth
  BY InsideDepth
<1>2. Len(nodes) \in Nat /\ n \in Nat /\ i \in Nat /\ i =< n /\ n \in 1 .. Len(nodes)
      /\ nodes[i].depth \in Nat
  BY DocumentParts
<1>3. Open(i, n + 1) <=> ~EndsAt(nodes[n + 1], i)
  BY <1>2, OpenSteps
<1>4. QED
  BY <1>1, <1>2, <1>3, NextDepth DEF EndsAt

----------------------------------------------------------------------------
(* Types, and the order of the results.                                     *)

Outcomes == {"Passed", "Failed", "Error", "Skipped"}
Locals == [at : Nat, outcome : Outcomes, issue : Nat, details : SUBSET Nat,
           caseId : Int \cup {Null}]
Readings == [at : Nat, outcome : Outcomes, issue : Nat, details : SUBSET Nat,
             caseId : Int \cup {Null}, started : Nat \cup {Null}]
CaseModes == {"testcase", "issue", "properties"}

\* The loops read test cases of the document, each behind the results so far.
OrderInv ==
    /\ document \in Documents
    /\ TypeOK
    /\ current \in Locals
    /\ mode \in CaseModes => IsCase(current.at) /\ HasContent(nodes[current.at])
    /\ results \in Seq(Readings)
    /\ \A k \in 1 .. Len(results) :
         /\ results[k].at \in 1 .. at /\ IsCase(results[k].at) /\ nodes[results[k].at].named
         /\ mode \in CaseModes => results[k].at < current.at
    /\ \A j, k \in 1 .. Len(results) : j < k => results[j].at < results[k].at

\* Before the first node there is nothing.
LEMMA OrderInit == Init => OrderInv
<1> SUFFICES ASSUME Init PROVE OrderInv
  OBVIOUS
<1>1. document \in Documents /\ at = 0 /\ mode = "document" /\ stamp = Null
      /\ current = NoCase /\ element = 0 /\ results = <<>> /\ cancelled = FALSE
  BY DEF Init
<1>2. Len(nodes) \in Nat
  BY <1>1, DocumentParts
<1>3. current \in Locals
  BY <1>1 DEF NoCase, Opened, Locals, Outcomes
<1>4. /\ current.at = 0 /\ current.issue = 0 /\ current.details = {} /\ current.caseId = Null
  BY <1>1 DEF NoCase, Opened
<1>5. TypeOK
  <2>1. at \in 0 .. Len(nodes) /\ current.at \in 0 .. at /\ current.issue \in 0 .. at
        /\ element \in 0 .. at /\ ~(element > 0)
    BY <1>1, <1>2, <1>4
  <2>2. stamp \in Nat \cup {Null} /\ current.caseId \in Int \cup {Null} /\ cancelled \in BOOLEAN
    BY <1>1, <1>4
  <2>3. mode = "document" /\ current.details \subseteq 1 .. at
    BY <1>1, <1>4
  <2>4. QED
    BY <2>1, <2>2, <2>3 DEF TypeOK
<1>6. QED
  BY <1>1, <1>3, <1>5 DEF OrderInv, CaseModes

\* What is said of the nodes is said of the same document in every state.
LEMMA NodesRest ==
  ASSUME UNCHANGED document
  PROVE  nodes' = nodes /\ \A i : IsCase(i)' = IsCase(i)
  BY DEF nodes, IsCase

\* A step inside the loops, whatever it does with the locals.
LEMMA StepOrder ==
  ASSUME OrderInv, Reading, NEW d \in Nat \ {0}, NEW m, NEW c \in Locals, Step(d, m, c),
         at + d =< Len(nodes), c.issue =< at + d, c.details \subseteq 1 .. at + d,
         \/ m = mode
         \/ mode \in {"document", "issue", "properties"} /\ m = "testcase"
         \/ mode = "testcase" /\ m \in {"issue", "properties"},
         \/ mode = "document" /\ m = "document" /\ c = current
         \/ mode \in CaseModes /\ m \in CaseModes /\ c.at = current.at
         \/ /\ mode = "document" /\ m = "testcase" /\ c.at = at + 1
            /\ IsCase(at + 1) /\ HasContent(nodes[at + 1])
  PROVE  OrderInv'
<1>1. /\ at' = at + d /\ mode' = m /\ current' = c
      /\ element' = IF m = mode THEN element
                    ELSE IF m \in {"issue", "properties"} THEN at + 1 ELSE 0
      /\ UNCHANGED <<document, cancelled, stamp, results>>
  BY DEF Step, Advance
<1>2. /\ Len(nodes) \in Nat /\ at \in Nat /\ document \in Documents
  BY DocumentParts DEF OrderInv, TypeOK
<1>3. nodes' = nodes /\ \A i : IsCase(i)' = IsCase(i)
  BY <1>1, NodesRest
<1>4. c.at \in 0 .. at + 1 /\ (m \in CaseModes => c.at > 0) /\ c.caseId \in Int \cup {Null}
      /\ c.issue \in Nat /\ c.at \in Nat
  BY <1>2 DEF OrderInv, TypeOK, Locals, CaseModes
<1>5. /\ element' \in 0 .. at + 1
      /\ m \in {"issue", "properties"} <=> element' > 0
      /\ m \in {"document", "testcase", "issue", "properties"}
  <2>1. CASE m = mode
    BY <1>1, <1>2, <2>1 DEF OrderInv, TypeOK, Reading
  <2>2. CASE m # mode /\ m \in {"issue", "properties"}
    BY <1>1, <1>2, <2>2
  <2>3. CASE m # mode /\ m = "testcase"
    BY <1>1, <1>2, <2>3
  <2>4. QED
    BY <2>1, <2>2, <2>3
<1>6. TypeOK'
  BY <1>1, <1>2, <1>3, <1>4, <1>5 DEF OrderInv, TypeOK, CaseModes, Reading
<1>7. m \in CaseModes => IsCase(c.at) /\ HasContent(nodes[c.at])
  BY DEF OrderInv, CaseModes
<1>8. \A k \in 1 .. Len(results) :
        /\ results[k].at \in 1 .. at + d /\ IsCase(results[k].at) /\ nodes[results[k].at].named
        /\ m \in CaseModes => results[k].at < c.at
  BY <1>2 DEF OrderInv, CaseModes
<1>9. \A j, k \in 1 .. Len(results) : j < k => results[j].at < results[k].at
  BY DEF OrderInv
<1>10. /\ results' \in Seq(Readings) /\ current' \in Locals
  BY <1>1 DEF OrderInv
<1>11. QED
  BY <1>1, <1>2, <1>3, <1>6, <1>7, <1>8, <1>9, <1>10 DEF OrderInv

\* The end of a test case that lies behind the results so far.
LEMMA CloseOrder ==
  ASSUME OrderInv, mode \in {"document", "testcase"}, NEW c \in Locals, Close(c),
         UNCHANGED <<document, cancelled>>, at' \in {at, at + 1}, at' =< Len(nodes),
         c.at \in 1 .. at', IsCase(c.at), \A k \in 1 .. Len(results) : results[k].at < c.at
  PROVE  OrderInv'
<1>1. /\ mode' = "document" /\ current' = NoCase /\ UNCHANGED <<document, cancelled, stamp, element>>
      /\ results' = IF nodes[c.at].named THEN Append(results, Result(c)) ELSE results
  BY DEF Close, Collected
<1>2. /\ Len(nodes) \in Nat /\ at \in Nat /\ at' \in Nat /\ at =< at' /\ document \in Documents
      /\ stamp \in Nat \cup {Null} /\ results \in Seq(Readings) /\ Len(results) \in Nat
  BY DocumentParts DEF OrderInv, TypeOK
<1>3. nodes' = nodes /\ \A i : IsCase(i)' = IsCase(i)
  BY <1>1, NodesRest
<1>4. TypeOK'
  BY <1>1, <1>2, <1>3 DEF OrderInv, TypeOK, NoCase, Opened, Reading
<1>5. current' \in Locals
  BY <1>1 DEF NoCase, Opened, Locals, Outcomes
<1>6. Result(c) \in Readings /\ Result(c).at = c.at
  BY <1>2 DEF Result, Readings, Locals
<1>7. CASE ~nodes[c.at].named
  <2>1. results' = results
    BY <1>1, <1>7
  <2>2. QED
    BY <1>1, <1>2, <1>3, <1>4, <1>5, <2>1 DEF OrderInv, CaseModes
<1>8. CASE nodes[c.at].named
  <2> DEFINE n == Len(results)
  <2>1. results' = Append(results, Result(c))
    BY <1>1, <1>8
  <2>2. /\ results' \in Seq(Readings) /\ Len(results') = n + 1
        /\ \A k \in 1 .. n : results'[k] = results[k]
        /\ results'[n + 1] = Result(c)
    BY <1>2, <1>6, <2>1
  <2>3. \A k \in 1 .. n + 1 : k \in 1 .. n \/ k = n + 1
    BY <1>2
  <2>4. \A k \in 1 .. n + 1 :
          results'[k].at \in 1 .. at' /\ IsCase(results'[k].at) /\ nodes[results'[k].at].named
    <3>1. \A k \in 1 .. n :
            results[k].at \in 1 .. at' /\ IsCase(results[k].at) /\ nodes[results[k].at].named
      BY <1>2 DEF OrderInv
    <3>2. QED
      BY <1>6, <1>8, <2>2, <2>3, <3>1
  <2>5. \A j, k \in 1 .. n + 1 : j < k => results'[j].at < results'[k].at
    <3>1. \A j, k \in 1 .. n : j < k => results[j].at < results[k].at
      BY DEF OrderInv
    <3>2. \A j \in 1 .. n + 1 : \A k \in 1 .. n + 1 :
            j < k => j \in 1 .. n /\ (k \in 1 .. n \/ k = n + 1)
      BY <1>2
    <3>3. QED
      BY <1>6, <2>2, <3>1, <3>2
  <2>6. QED
    BY <1>1, <1>2, <1>3, <1>4, <1>5, <2>2, <2>4, <2>5 DEF OrderInv, CaseModes
<1>9. QED
  BY <1>7, <1>8

\* A step that reads nothing.
LEMMA RestOrder ==
  ASSUME OrderInv, UNCHANGED <<document, at, stamp, current, element, results>>,
         \/ mode' = mode /\ cancelled' \in BOOLEAN
         \/ Reading /\ mode' \in {"done", "failed"} /\ cancelled' = cancelled
  PROVE  OrderInv'
<1>1. nodes' = nodes /\ \A i : IsCase(i)' = IsCase(i)
  BY NodesRest
<1>2. TypeOK'
  BY <1>1 DEF OrderInv, TypeOK, Reading
<1>3. QED
  BY <1>1, <1>2 DEF OrderInv, CaseModes

\* Skipping ends behind the end tag, within the document.
LEMMA SkipBounds ==
  ASSUME document \in Documents, NEW i \in 1 .. Len(nodes), BeforeTheLast(i)
  PROVE  EndOf(i) \in Nat /\ EndOf(i) > i /\ EndOf(i) + 1 =< Len(nodes) /\ EndOf(i) \in Ends(i)
<1>1. Len(nodes) \in Nat
  BY DocumentParts
<1>2. Ends(i) \subseteq Nat /\ Ends(i) # {} /\ EndOf(i) < Len(nodes)
  BY <1>1 DEF Ends, EndTags, BeforeTheLast
<1>3. PICK m \in Ends(i) : \A k \in Ends(i) : m =< k
  BY <1>2, Smallest
<1>4. EndOf(i) = m
  BY <1>2, <1>3, FirstIs DEF EndOf
<1>5. m > i /\ m \in Nat
  BY <1>1, <1>3 DEF Ends, EndTags
<1>6. QED
  BY <1>1, <1>2, <1>3, <1>4, <1>5

\* The locals after an issue has been read: its outcome, and no details yet.
LEMMA IssueLocals ==
  ASSUME current \in Locals, NEW n \in Nat, nodes[n].name \in IssueNames
  PROVE  /\ WithIssue(n) \in Locals
         /\ WithIssue(n).at = current.at /\ WithIssue(n).issue = n
         /\ WithIssue(n).outcome = Issues[nodes[n].name] /\ WithIssue(n).details = {}
         /\ WithIssue(n).caseId = current.caseId
<1>1. \A name \in IssueNames : Issues[name] \in Outcomes
  BY DEF Issues, IssueNames, Outcomes
<1>2. QED
  BY <1>1 DEF Locals, WithIssue

\* The locals after a case id has been read: only the id is new.
LEMMA IdLocals ==
  ASSUME current \in Locals, NEW id \in Int \cup {Null}
  PROVE  /\ WithCaseId(id) \in Locals
         /\ WithCaseId(id).at = current.at /\ WithCaseId(id).issue = current.issue
         /\ WithCaseId(id).outcome = current.outcome
         /\ WithCaseId(id).details = current.details /\ WithCaseId(id).caseId = id
  BY DEF Locals, WithCaseId

\* A test case just met.
LEMMA OpenedParts ==
  ASSUME NEW n \in Nat
  PROVE  /\ Opened(n) \in Locals /\ Opened(n).at = n /\ Opened(n).issue = 0
         /\ Opened(n).outcome = "Passed" /\ Opened(n).details = {} /\ Opened(n).caseId = Null
  BY DEF Opened, Locals, Outcomes

\* What holds of the node the loops read next.
LEMMA NextNode ==
  ASSUME OrderInv, HasNext
  PROVE  /\ at \in Nat /\ Len(nodes) \in Nat /\ at + 1 \in 1 .. Len(nodes) /\ at + 1 =< Len(nodes)
         /\ next = nodes[at + 1] /\ next \in Nodes /\ next.depth \in Nat
         /\ next.id \in Int \cup {Null} /\ next.stamp \in Nat \cup {Null}
         /\ next.empty \in BOOLEAN /\ next.type \in {"start", "end", "text"}
<1>1. /\ at \in Nat /\ Len(nodes) \in Nat /\ at + 1 \in 1 .. Len(nodes)
      /\ \A k \in 1 .. Len(nodes) : nodes[k] \in Nodes
  BY DocumentParts DEF OrderInv, TypeOK, HasNext
<1>2. QED
  BY <1>1 DEF next, Nodes

\* Every step keeps the types and the order of the results.
LEMMA OrderKeeps == OrderInv /\ [Next]_vars => OrderInv'
<1> SUFFICES ASSUME OrderInv, [Next]_vars PROVE OrderInv'
  OBVIOUS
<1>0. current \in Locals /\ current.issue \in 0 .. at /\ current.details \subseteq 1 .. at
      /\ at \in Nat /\ Len(nodes) \in Nat
  BY DocumentParts DEF OrderInv, TypeOK
<1>1. CASE UNCHANGED vars
  <2>1. cancelled' \in BOOLEAN
    BY <1>1 DEF vars, OrderInv, TypeOK
  <2>2. QED
    BY <1>1, <2>1, RestOrder DEF vars
<1>2. CASE ReadFails \/ FinishedAtOverflows \/ SkipFails \/ ParseReturns
  <2>1. Reading
    BY <1>2 DEF ReadFails, FinishedAtOverflows, SkipFails, ParseReturns, Meets, MeetsForeign, Reading
  <2>2. UNCHANGED <<document, at, stamp, current, element, results, cancelled>>
        /\ mode' \in {"done", "failed"}
    BY <1>2 DEF ReadFails, FinishedAtOverflows, SkipFails, ParseReturns, Throw
  <2>3. QED
    BY <2>1, <2>2, RestOrder
<1>3. CASE CancelKeyPress
  BY <1>3, RestOrder DEF CancelKeyPress
<1>4. CASE PassDocumentNode \/ PassCaseNode \/ PassIssueNode \/ PassProperty \/ EndIssue
  <2>1. /\ HasNext /\ Reading
        /\ \/ Step(1, mode, current)
           \/ mode = "issue" /\ Step(1, "testcase", current)
        /\ mode \in CaseModes \cup {"document"}
    BY <1>4 DEF PassDocumentNode, PassCaseNode, PassIssueNode, PassProperty, EndIssue, Reading,
         CaseModes
  <2>2. at + 1 =< Len(nodes) /\ 1 .. at \subseteq 1 .. at + 1
    BY <2>1, NextNode
  <2>3. QED
    BY <1>0, <2>1, <2>2, StepOrder DEF CaseModes
<1>5. CASE ReadSuite
  <2>1. /\ HasNext /\ at' = at + 1 /\ stamp' = next.stamp /\ mode = "document"
        /\ UNCHANGED <<document, cancelled, mode, current, element, results>>
    BY <1>5 DEF ReadSuite, Advance, Meets
  <2>2. nodes' = nodes /\ \A i : IsCase(i)' = IsCase(i)
    BY <2>1, NodesRest
  <2>3. TypeOK'
    BY <2>1, <2>2, NextNode DEF OrderInv, TypeOK, Reading
  <2>4. \A k \in 1 .. Len(results) :
          results[k].at \in 1 .. at + 1 /\ IsCase(results[k].at) /\ nodes[results[k].at].named
    BY <1>0 DEF OrderInv
  <2>5. QED
    BY <2>1, <2>2, <2>3, <2>4 DEF OrderInv, CaseModes
<1>6. CASE BeginCase
  <2>1. /\ HasNext /\ mode = "document" /\ Step(1, "testcase", Opened(at + 1))
        /\ IsCase(at + 1) /\ HasContent(nodes[at + 1])
    BY <1>6 DEF BeginCase, Meets, IsCase, HasContent, IsStart, next
  <2>2. at + 1 =< Len(nodes)
    BY <2>1, NextNode
  <2>3. QED
    BY <1>0, <2>1, <2>2, OpenedParts, StepOrder DEF Reading
<1>7. CASE ReadEmptyCase
  <2>1. /\ HasNext /\ mode = "document" /\ at' = at + 1 /\ UNCHANGED <<document, cancelled>>
        /\ Close(Opened(at + 1)) /\ IsCase(at + 1)
    BY <1>7 DEF ReadEmptyCase, Advance, Meets, IsCase, next
  <2>2. at + 1 =< Len(nodes) /\ at + 1 \in 1 .. at + 1
    BY <2>1, NextNode
  <2>3. \A k \in 1 .. Len(results) : results[k].at < at + 1
    BY <1>0 DEF OrderInv
  <2>4. QED
    BY <1>0, <2>1, <2>2, <2>3, OpenedParts, CloseOrder
<1>8. CASE EndCase \/ EndCaseWithDocument
  <2>1. /\ mode = "testcase" /\ Close(current) /\ UNCHANGED <<document, cancelled>>
        /\ at' = at \/ (at' = at + 1 /\ HasNext)
    BY <1>8 DEF EndCase, EndCaseWithDocument, Advance
  <2>2. at' \in {at, at + 1} /\ at' =< Len(nodes) /\ 1 .. at \subseteq 1 .. at'
    BY <1>0, <2>1, NextNode DEF OrderInv, TypeOK
  <2>3. current.at \in 1 .. at' /\ IsCase(current.at)
        /\ \A k \in 1 .. Len(results) : results[k].at < current.at
    BY <1>0, <2>1, <2>2 DEF OrderInv, TypeOK, CaseModes
  <2>4. QED
    BY <1>0, <2>1, <2>2, <2>3, CloseOrder
<1>9. CASE ReadIssue \/ ReadSkipped
  <2>1. PICK d \in {1, 2}, m \in {"testcase", "issue"} :
          /\ mode = "testcase" /\ HasNext /\ next.name \in IssueNames /\ at + d =< Len(nodes)
          /\ Step(d, m, WithIssue(at + 1))
    <3>1. CASE ReadIssue
      <4>1. /\ mode = "testcase" /\ HasNext /\ next.name \in IssueNames
            /\ Step(1, IF next.empty THEN mode ELSE "issue", WithIssue(at + 1))
        BY <3>1 DEF ReadIssue, Meets, IsStart, IssueNames, Issues
      <4>2. QED
        BY <4>1, NextNode
    <3>2. CASE ReadSkipped
      <4>1. /\ mode = "testcase" /\ HasNext /\ next.name \in IssueNames
            /\ next.empty \/ at + 2 =< Len(nodes)
            /\ Step(IF next.empty THEN 1 ELSE 2, mode, WithIssue(at + 1))
        BY <3>2 DEF ReadSkipped, Meets, IsStart, IssueNames, Issues
      <4>2. QED
        BY <4>1, NextNode
    <3>3. QED
      BY <1>9, <3>1, <3>2
  <2>2. /\ WithIssue(at + 1) \in Locals /\ WithIssue(at + 1).at = current.at
        /\ WithIssue(at + 1).issue = at + 1 /\ WithIssue(at + 1).details = {}
    BY <1>0, <2>1, IssueLocals DEF next
  <2>3. QED
    BY <1>0, <2>1, <2>2, StepOrder DEF CaseModes, Reading
<1>10. CASE EmptyProperties \/ EndProperties \/ ReadCaseId
  <2>1. PICK id \in Int \cup {Null} :
          /\ mode \in {"testcase", "properties"} /\ HasNext
          /\ Step(1, "testcase", WithCaseId(id))
    BY <1>10, NextNode DEF EmptyProperties, EndProperties, ReadCaseId, Meets
  <2>2. /\ WithCaseId(id) \in Locals /\ WithCaseId(id).at = current.at
        /\ WithCaseId(id).issue = current.issue /\ WithCaseId(id).details = current.details
    BY <1>0, IdLocals
  <2>3. at + 1 =< Len(nodes) /\ 1 .. at \subseteq 1 .. at + 1
    BY <2>1, NextNode
  <2>4. QED
    BY <1>0, <2>1, <2>2, <2>3, StepOrder DEF CaseModes, Reading
<1>11. CASE BeginProperties
  <2>1. mode = "testcase" /\ HasNext /\ Step(1, "properties", current)
    BY <1>11 DEF BeginProperties, Meets
  <2>2. at + 1 =< Len(nodes) /\ 1 .. at \subseteq 1 .. at + 1
    BY <2>1, NextNode
  <2>3. QED
    BY <1>0, <2>1, <2>2, StepOrder DEF CaseModes, Reading
<1>12. CASE SkipOther
  <2>1. /\ mode = "testcase" /\ HasNext /\ BeforeTheLast(at + 1)
        /\ Step(EndOf(at + 1) + 1 - at, mode, current)
    BY <1>12 DEF SkipOther, MeetsForeign
  <2> DEFINE d == EndOf(at + 1) + 1 - at
  <2>2. d \in Nat \ {0} /\ at + d =< Len(nodes) /\ 1 .. at \subseteq 1 .. at + d
    BY <1>0, <2>1, NextNode, SkipBounds DEF OrderInv
  <2> HIDE DEF d
  <2>3. Step(d, mode, current)
    BY <2>1 DEF d
  <2>4. QED
    BY <1>0, <2>1, <2>2, <2>3, StepOrder DEF CaseModes, Reading
<1>13. CASE IssueText
  <2> DEFINE c == [current EXCEPT !.details = @ \cup {at + 1}]
  <2>1. mode = "issue" /\ HasNext /\ Step(1, mode, c)
    BY <1>13 DEF IssueText
  <2>2. /\ c \in Locals /\ c.at = current.at /\ c.issue = current.issue
        /\ c.details = current.details \cup {at + 1}
    BY <1>0 DEF Locals
  <2> HIDE DEF c
  <2>3. at + 1 =< Len(nodes) /\ 1 .. at \subseteq 1 .. at + 1 /\ at + 1 \in 1 .. at + 1
    BY <2>1, NextNode
  <2>4. QED
    BY <1>0, <2>1, <2>2, <2>3, StepOrder DEF CaseModes, Reading
<1>14. QED
  BY <1>1, <1>2, <1>3, <1>4, <1>5, <1>6, <1>7, <1>8, <1>9, <1>10, <1>11, <1>12, <1>13
     DEF Next, ParseStep, Ended

\* For every document a reader may deliver: the variables keep their types and
\* the reader and the loops stay within the document.
THEOREM ParserTyped == Spec => []TypeOK
<1>1. OrderInv => TypeOK
  BY DEF OrderInv
<1>2. QED
  BY <1>1, OrderInit, OrderKeeps, PTL DEF Spec

\* For every such document, however many elements are skipped: what the parser
\* reports are test cases with a name, in document order and none twice.
THEOREM ParserOrdersCases == Spec => []CasesInOrder
<1>1. OrderInv => CasesInOrder
  <2> SUFFICES ASSUME OrderInv PROVE CasesInOrder
    OBVIOUS
  <2>1. Len(nodes) \in Nat /\ at \in 0 .. Len(nodes)
    BY DocumentParts DEF OrderInv, TypeOK
  <2>2. QED
    BY <2>1 DEF OrderInv, CasesInOrder, Found
<1>2. QED
  BY <1>1, OrderInit, OrderKeeps, PTL DEF Spec

----------------------------------------------------------------------------
(* What the loops have read.                                                *)

Seen(i, names, n) == {k \in Children(i, names) : k =< n}
IdsIn(p) == {q \in Inside(p) : HoldsCaseId(nodes[q])}

\* The issue in the locals c is the last one among the children of test case i
\* up to n, its details are the texts in it so far.
IssueRead(i, n, c) ==
    /\ IF Seen(i, IssueNames, n) = {}
       THEN c.issue = 0
       ELSE c.issue \in Seen(i, IssueNames, n) /\ \A k \in Seen(i, IssueNames, n) : k =< c.issue
    /\ c.outcome = OutcomeOf(c.issue)
    /\ c.details = {k \in DetailsOf(c.issue) : k =< n}

\* The id is the first one in the last properties element, if it holds one.
CaseIdRead(i, n, id) ==
    \/ Seen(i, {"properties"}, n) = {} /\ id = Null
    \/ \E p \in Seen(i, {"properties"}, n) :
         /\ \A k \in Seen(i, {"properties"}, n) : k =< p
         /\ \/ \E q \in IdsIn(p) : q =< n /\ (\A r \in IdsIn(p) : q =< r) /\ id = nodes[q].id
            \/ ~Open(p, n) /\ IdsIn(p) = {} /\ id = Null

\* Where ReadTestCaseAsync may go on: between two children, or inside of one
\* that was left before its end tag.
Between(i, n) ==
    \/ DepthAfter(nodes[n]) = nodes[i].depth + 1
    \/ \E c \in Seen(i, {"skipped", "ignored", "properties"}, n) :
         /\ Open(c, n)
         /\ IF nodes[c].name = "properties"
            THEN \E q \in c + 1 .. n : HoldsCaseId(nodes[q])
            ELSE n > c

\* Loop m, which reads element e, with the locals c, at node n of test case i.
LoopRead(i, n, m, e, c) ==
    /\ IssueRead(i, n, c)
    /\ m = "testcase" => Between(i, n) /\ CaseIdRead(i, n, c.caseId)
    /\ m = "issue" => /\ CaseIdRead(i, n, c.caseId)
                      /\ e = c.issue /\ e \in Seen(i, {"failure", "error"}, n) /\ Open(e, n)
    /\ m = "properties" => /\ e \in Seen(i, {"properties"}, n) /\ Open(e, n)
                           /\ \A k \in Seen(i, {"properties"}, n) : k =< e
                           /\ \A q \in e + 1 .. n : ~HoldsCaseId(nodes[q])
    /\ m # "issue" /\ c.issue # 0 /\ nodes[c.issue].name \in {"failure", "error"} =>
         ~Open(c.issue, n)

\* Test case i is open, the only outermost one that is, and no suite begins in it.
CaseRead(i, n) ==
    Open(i, n) /\ ~InCase(i) /\ SuitesBefore(n) = SuitesBefore(i)

Clear(n) == \A k \in 1 .. n : IsCase(k) => ~Open(k, n)

\* The results are those of the test cases behind the cursor, and the locals
\* those of the test case it is in.
ExactRead ==
    /\ Found = {ReadingOf(i) : i \in CasesUpTo(at)}
    /\ stamp = StampOf(SuitesBefore(at))
    /\ mode \in {"document", "done"} => Clear(at)
    /\ mode \in CaseModes =>
         CaseRead(current.at, at) /\ LoopRead(current.at, at, mode, element, current)

\* That is so before the first foreign element.
ExactInv == ForeignUpTo(at) = {} /\ mode # "failed" => ExactRead

\* What is said of a document is said of the same document in every state.
LEMMA ReadingRests ==
  ASSUME UNCHANGED document
  PROVE  /\ \A i, n : Open(i, n)' = Open(i, n)
         /\ \A i : ReadingOf(i)' = ReadingOf(i)
         /\ \A n : CasesUpTo(n)' = CasesUpTo(n) /\ SuitesBefore(n)' = SuitesBefore(n)
         /\ \A S : StampOf(S)' = StampOf(S)
         /\ \A n : ForeignUpTo(n)' = ForeignUpTo(n) /\ Clear(n)' = Clear(n)
         /\ \A i, n : CaseRead(i, n)' = CaseRead(i, n)
         /\ \A i, n, m, e, c : LoopRead(i, n, m, e, c)' = LoopRead(i, n, m, e, c)
<1>1. nodes' = nodes /\ \A i : IsCase(i)' = IsCase(i)
  BY NodesRest
<1>2. \A i, n : Open(i, n)' = Open(i, n)
  BY <1>1 DEF Open, Ends
<1>3. \A i : Inside(i)' = Inside(i) /\ InCase(i)' = InCase(i)
  BY <1>1, <1>2 DEF Inside, InCase
<1>4. \A i, names : Children(i, names)' = Children(i, names)
  BY <1>1, <1>3 DEF Children
<1>5. \A n : CasesUpTo(n)' = CasesUpTo(n) /\ SuitesBefore(n)' = SuitesBefore(n) /\ Clear(n)' = Clear(n)
  BY <1>1, <1>2, <1>3 DEF CasesUpTo, SuitesBefore, Clear
<1>6. \A S : StampOf(S)' = StampOf(S)
  BY <1>1 DEF StampOf
<1>7. \A i : IssueOf(i)' = IssueOf(i) /\ OutcomeOf(i)' = OutcomeOf(i) /\ DetailsOf(i)' = DetailsOf(i)
  BY <1>1, <1>3, <1>4 DEF IssueOf, OutcomeOf, DetailsOf
<1>8. \A i : CaseIdsOf(i)' = CaseIdsOf(i) /\ IdsIn(i)' = IdsIn(i)
  BY <1>1, <1>3, <1>4 DEF CaseIdsOf, IdsIn
<1>9. \A i : CaseIdOf(i)' = CaseIdOf(i)
  BY <1>1, <1>8 DEF CaseIdOf
<1>10. \A i : ReadingOf(i)' = ReadingOf(i)
  BY <1>5, <1>6, <1>7, <1>9 DEF ReadingOf
<1>11. \A c : LeftOf(c)' = LeftOf(c)
  BY <1>1, <1>3 DEF LeftOf
<1>12. \A n : ForeignUpTo(n)' = ForeignUpTo(n)
  BY <1>1, <1>2, <1>3, <1>4, <1>11 DEF ForeignUpTo
<1>13. \A i, names, n : Seen(i, names, n)' = Seen(i, names, n)
  BY <1>4 DEF Seen
<1>14. \A i, n, c : IssueRead(i, n, c)' = IssueRead(i, n, c)
  BY <1>7, <1>13 DEF IssueRead
<1>15. \A i, n, id : CaseIdRead(i, n, id)' = CaseIdRead(i, n, id)
  BY <1>1, <1>2, <1>8, <1>13 DEF CaseIdRead
<1>16. \A i, n : Between(i, n)' = Between(i, n)
  BY <1>1, <1>2, <1>13 DEF Between
<1>17. \A i, n : CaseRead(i, n)' = CaseRead(i, n)
  BY <1>2, <1>3, <1>5 DEF CaseRead
<1>18. \A i, n, m, e, c : LoopRead(i, n, m, e, c)' = LoopRead(i, n, m, e, c)
  BY <1>1, <1>2, <1>13, <1>14, <1>15, <1>16 DEF LoopRead
<1>19. QED
  BY <1>2, <1>5, <1>6, <1>10, <1>12, <1>17, <1>18

\* A foreign element that was met stays behind the cursor.
LEMMA ForeignStays ==
  ASSUME NEW n \in Nat, NEW m \in Nat, n =< m, ForeignUpTo(m) = {}
  PROVE  ForeignUpTo(n) = {}
<1>1. 1 .. n \subseteq 1 .. m
  OBVIOUS
<1>2. QED
  BY <1>1 DEF ForeignUpTo

\* Inside of test case i no other begins or ends and no suite begins.
LEMMA CaseMoves ==
  ASSUME document \in Documents, NEW i \in 1 .. Len(nodes), NEW n \in i .. Len(nodes),
         n < Len(nodes), IsCase(i), CaseRead(i, n), Open(i, n + 1)
  PROVE  /\ CaseRead(i, n + 1)
         /\ CasesUpTo(n + 1) = CasesUpTo(n) /\ SuitesBefore(n + 1) = SuitesBefore(n)
<1>1. Len(nodes) \in Nat /\ i \in Nat /\ n \in Nat /\ i \in 1 .. n /\ n \in 1 .. Len(nodes)
      /\ n + 1 \in 1 .. Len(nodes) /\ n + 1 \in Nat
      /\ 1 .. n + 1 = 1 .. n \cup {n + 1} /\ n + 1 \notin 1 .. n
  BY DocumentParts
<1>2. InCase(n + 1)
  BY <1>1 DEF InCase
<1>3. SuitesBefore(n + 1) = SuitesBefore(n)
  BY <1>1, <1>2 DEF SuitesBefore
<1>4. ~InCase(i) /\ Open(i, n) /\ SuitesBefore(n) = SuitesBefore(i)
  BY DEF CaseRead
<1>5. ASSUME NEW k \in 1 .. n, IsCase(k), ~InCase(k), Open(k, n) PROVE k = i
  <2>1. k \in Nat
    OBVIOUS
  <2>2. CASE k < i
    <3>1. Open(k, i)
      BY <1>1, <1>5, <2>1, OpenSteps
    <3>2. k \in 1 .. i - 1
      BY <1>1, <2>1, <2>2
    <3>3. QED
      BY <1>4, <1>5, <3>1, <3>2 DEF InCase
  <2>3. CASE i < k
    <3>1. Open(i, k)
      BY <1>1, <1>4, <2>1, OpenSteps
    <3>2. i \in 1 .. k - 1
      BY <1>1, <2>1, <2>3
    <3>3. QED
      BY <1>5, <3>1, <3>2 DEF InCase
  <2>4. QED
    BY <1>1, <2>1, <2>2, <2>3
<1>6. \A k \in 1 .. n : IsCase(k) /\ ~InCase(k) => (Open(k, n + 1) <=> Open(k, n))
  <2> SUFFICES ASSUME NEW k \in 1 .. n, IsCase(k), ~InCase(k)
               PROVE  Open(k, n + 1) <=> Open(k, n)
    OBVIOUS
  <2>1. Open(k, n + 1) => Open(k, n)
    BY <1>1, OpenSteps
  <2>2. QED
    BY <1>5, <2>1
<1>7. CasesUpTo(n + 1) = CasesUpTo(n)
  BY <1>1, <1>2, <1>6 DEF CasesUpTo
<1>8. QED
  BY <1>3, <1>4, <1>7 DEF CaseRead

\* The end tag of test case i adds it to those that have ended, and no test
\* case is open behind it.
LEMMA CaseEnds ==
  ASSUME document \in Documents, NEW i \in 1 .. Len(nodes), NEW n \in i .. Len(nodes),
         n < Len(nodes), IsCase(i), CaseRead(i, n), ~Open(i, n + 1)
  PROVE  /\ Clear(n + 1) /\ SuitesBefore(n + 1) = SuitesBefore(n)
         /\ CasesUpTo(n + 1) = CasesUpTo(n) \cup (IF nodes[i].named THEN {i} ELSE {})
<1>1. Len(nodes) \in Nat /\ i \in Nat /\ n \in Nat /\ i \in 1 .. n /\ n \in 1 .. Len(nodes)
      /\ n + 1 \in 1 .. Len(nodes) /\ n + 1 \in Nat
      /\ 1 .. n + 1 = 1 .. n \cup {n + 1} /\ n + 1 \notin 1 .. n
      /\ \A k \in 1 .. Len(nodes) : nodes[k].depth \in Nat
  BY DocumentParts
<1>2. ~InCase(i) /\ Open(i, n)
  BY DEF CaseRead
<1>3. nodes[n + 1].type = "end" /\ nodes[n + 1].depth = nodes[i].depth
  BY <1>2, OpenDepth
<1>4. ~IsCase(n + 1) /\ ~IsStart(nodes[n + 1], SuiteNames)
  BY <1>3 DEF IsCase, IsStart
<1>5. ASSUME NEW k \in 1 .. n, IsCase(k), k < i PROVE ~Open(k, i) /\ ~Open(k, n) /\ ~Open(k, n + 1)
  <2>1. k \in Nat /\ k \in 1 .. i - 1
    BY <1>1, <1>5
  <2>2. ~Open(k, i)
    BY <1>2, <1>5, <2>1 DEF InCase
  <2>3. QED
    BY <1>1, <2>1, <2>2, OpenSteps
<1>6. ASSUME NEW k \in 1 .. n, i < k PROVE ~Open(k, n + 1) /\ Open(i, k)
  <2> DEFINE j == k - 1
  <2>1. k \in Nat /\ j \in i .. Len(nodes) /\ j < Len(nodes) /\ k = j + 1 /\ n \in k .. Len(nodes)
        /\ k \in 1 .. Len(nodes) /\ j \in Nat
    BY <1>1, <1>6
  <2>2. Open(i, k) /\ Open(i, j)
    BY <1>1, <1>2, <2>1, OpenSteps
  <2> HIDE DEF j
  <2>3. nodes[k].depth > nodes[i].depth
    BY <2>1, <2>2, OpenDepth
  <2>4. Open(k, n + 1) => Open(k, n) /\ nodes[n + 1].depth > nodes[k].depth
    BY <1>1, <2>1, OpenSteps, OpenDepth
  <2>5. QED
    BY <1>1, <1>3, <2>1, <2>2, <2>3, <2>4
<1>7. Clear(n + 1)
  <2> SUFFICES ASSUME NEW k \in 1 .. n + 1, IsCase(k) PROVE ~Open(k, n + 1)
    BY DEF Clear
  <2>1. k \in 1 .. n /\ (k < i \/ k = i \/ i < k)
    BY <1>1, <1>4
  <2>2. QED
    BY <1>5, <1>6, <2>1
<1>8. SuitesBefore(n + 1) = SuitesBefore(n)
  BY <1>1, <1>4 DEF SuitesBefore
<1>9. ASSUME NEW k \in 1 .. n, IsCase(k), ~InCase(k), k # i
      PROVE  Open(k, n + 1) <=> Open(k, n)
  <2>1. CASE k < i
    BY <1>5, <1>9, <2>1
  <2>2. CASE i < k
    <3>1. Open(i, k) /\ i \in 1 .. k - 1
      BY <1>1, <1>6, <2>2
    <3>2. QED
      BY <1>9, <3>1 DEF InCase
  <2>3. QED
    BY <1>1, <1>9, <2>1, <2>2
<1>10. i \notin CasesUpTo(n) /\ \A k \in CasesUpTo(n + 1) : k \in 1 .. n
  BY <1>1, <1>2, <1>4 DEF CasesUpTo
<1>11. CasesUpTo(n + 1) = CasesUpTo(n) \cup (IF nodes[i].named THEN {i} ELSE {})
  <2>1. ASSUME NEW k \in 1 .. n, k # i PROVE k \in CasesUpTo(n + 1) <=> k \in CasesUpTo(n)
    BY <1>1, <1>9, <2>1 DEF CasesUpTo
  <2>2. i \in CasesUpTo(n + 1) <=> nodes[i].named
    BY <1>1, <1>2 DEF CasesUpTo
  <2>3. \A k \in CasesUpTo(n) : k \in 1 .. n
    BY DEF CasesUpTo
  <2>4. QED
    BY <1>10, <2>1, <2>2, <2>3
<1>12. QED
  BY <1>7, <1>8, <1>11

\* Outside of every test case the next node is outside too, unless it opens one.
LEMMA ClearMoves ==
  ASSUME document \in Documents, NEW n \in Nat, n < Len(nodes), Clear(n)
  PROVE  /\ ~InCase(n + 1)
         /\ ~(IsCase(n + 1) /\ HasContent(nodes[n + 1])) => Clear(n + 1)
         /\ IsCase(n + 1) /\ HasContent(nodes[n + 1]) => CaseRead(n + 1, n + 1)
         /\ CasesUpTo(n + 1) = CasesUpTo(n) \cup
              (IF IsCase(n + 1) /\ nodes[n + 1].named /\ ~HasContent(nodes[n + 1])
               THEN {n + 1} ELSE {})
         /\ SuitesBefore(n + 1) = SuitesBefore(n) \cup
              (IF IsStart(nodes[n + 1], SuiteNames) THEN {n + 1} ELSE {})
<1>1. n + 1 \in Nat /\ 1 .. n + 1 = 1 .. n \cup {n + 1} /\ n + 1 \notin 1 .. n
      /\ (n + 1) - 1 = n /\ \A k \in 1 .. n : k \in Nat
  OBVIOUS
<1>2. \A k \in 1 .. n : IsCase(k) => ~Open(k, n) /\ ~Open(k, n + 1)
  BY <1>1, OpenSteps DEF Clear
<1>3. Open(n + 1, n + 1) <=> HasContent(nodes[n + 1])
  BY <1>1, OpenSteps
<1>4. ~InCase(n + 1)
  BY <1>1, <1>2 DEF InCase
<1>5. ~(IsCase(n + 1) /\ HasContent(nodes[n + 1])) => Clear(n + 1)
  BY <1>1, <1>2, <1>3 DEF Clear
<1>6. IsCase(n + 1) /\ HasContent(nodes[n + 1]) => CaseRead(n + 1, n + 1)
  BY <1>3, <1>4 DEF CaseRead
<1>7. CasesUpTo(n + 1) = CasesUpTo(n) \cup
        (IF IsCase(n + 1) /\ nodes[n + 1].named /\ ~HasContent(nodes[n + 1]) THEN {n + 1} ELSE {})
  BY <1>1, <1>2, <1>3, <1>4 DEF CasesUpTo
<1>8. SuitesBefore(n + 1) = SuitesBefore(n) \cup
        (IF IsStart(nodes[n + 1], SuiteNames) THEN {n + 1} ELSE {})
  BY <1>1, <1>4 DEF SuitesBefore
<1>9. QED
  BY <1>4, <1>5, <1>6, <1>7, <1>8

\* The next node as a child: the children seen so far grow by it or by none.
LEMMA SeenMoves ==
  ASSUME document \in Documents, NEW i \in 1 .. Len(nodes), NEW n \in i .. Len(nodes),
         n < Len(nodes)
  PROVE  /\ n + 1 \in Inside(i) <=> Open(i, n + 1)
         /\ \A names : n + 1 \in Children(i, names) <=>
              /\ Open(i, n + 1) /\ IsStart(nodes[n + 1], names)
              /\ nodes[n + 1].depth = nodes[i].depth + 1
         /\ \A names : Seen(i, names, n + 1) =
              IF n + 1 \in Children(i, names) THEN Seen(i, names, n) \cup {n + 1}
              ELSE Seen(i, names, n)
         /\ \A names : n + 1 \notin Seen(i, names, n)
         /\ \A names : \A k \in Seen(i, names, n) : k \in i + 1 .. n
<1>1. Len(nodes) \in Nat /\ n + 1 \in i + 1 .. Len(nodes)
  BY DocumentParts
<1>2. n + 1 \in Inside(i) <=> Open(i, n + 1)
  BY <1>1 DEF Inside
<1>3. \A names : \A k \in Children(i, names) :
        k \in Nat /\ i + 1 =< k /\ (k =< n + 1 <=> k =< n \/ k = n + 1)
  BY <1>1 DEF Children, Inside
<1>4. \A names : n + 1 \in Children(i, names) <=>
        /\ Open(i, n + 1) /\ IsStart(nodes[n + 1], names)
        /\ nodes[n + 1].depth = nodes[i].depth + 1
  BY <1>2 DEF Children
<1>5. ASSUME NEW names
      PROVE  /\ Seen(i, names, n + 1) =
                  IF n + 1 \in Children(i, names) THEN Seen(i, names, n) \cup {n + 1}
                  ELSE Seen(i, names, n)
             /\ n + 1 \notin Seen(i, names, n)
             /\ \A k \in Seen(i, names, n) : k \in i + 1 .. n
  <2>1. \A k : k \in Seen(i, names, n + 1) <=> k \in Children(i, names) /\ (k =< n \/ k = n + 1)
    BY <1>3 DEF Seen
  <2>2. ~(n + 1 =< n) /\ n + 1 =< n + 1 /\ i \in Int /\ n \in Int
    BY <1>1
  <2>3. \A k \in Seen(i, names, n) : k \in Children(i, names) /\ k =< n
    BY DEF Seen
  <2>4. \A k \in Seen(i, names, n) : k \in i + 1 .. n
    BY <1>3, <2>2, <2>3
  <2>5. \A k : k \in Seen(i, names, n) <=> k \in Children(i, names) /\ k =< n
    BY DEF Seen
  <2>6. QED
    BY <2>1, <2>2, <2>4, <2>5
<1>6. QED
  BY <1>2, <1>4, <1>5

\* The next node inside of a child e of the open element i, or its end tag.
LEMMA ChildDepth ==
  ASSUME document \in Documents, NEW i \in 1 .. Len(nodes), NEW n \in i .. Len(nodes),
         n < Len(nodes), Open(i, n), NEW names, NEW e \in Seen(i, names, n), Open(e, n)
  PROVE  /\ Open(i, n + 1)
         /\ Open(e, n + 1) <=> ~EndsAt(nodes[n + 1], e)
         /\ ~Open(e, n + 1) => /\ nodes[n + 1].type = "end"
                               /\ DepthAfter(nodes[n + 1]) = nodes[i].depth + 1
         /\ \A others : n + 1 \notin Children(i, others)
<1>1. Len(nodes) \in Nat /\ e \in i + 1 .. n /\ nodes[i].depth \in Nat /\ n + 1 \in 1 .. Len(nodes)
      /\ nodes[n + 1].depth \in Nat
  BY DocumentParts, SeenMoves
<1>2. e \in 1 .. Len(nodes) /\ n \in e .. Len(nodes) /\ e \in Nat /\ n \in Nat /\ i \in Nat
      /\ i =< n /\ e =< n
  BY <1>1
<1>3. nodes[e].depth = nodes[i].depth + 1
  BY DEF Seen, Children
<1>4. /\ Open(e, n + 1) => nodes[n + 1].depth > nodes[e].depth
      /\ ~Open(e, n + 1) => nodes[n + 1].depth = nodes[e].depth /\ nodes[n + 1].type = "end"
  BY <1>2, OpenDepth
<1>5. /\ Open(e, n + 1) <=> ~EndsAt(nodes[n + 1], e)
      /\ Open(i, n + 1) <=> ~EndsAt(nodes[n + 1], i)
  BY <1>2, OpenSteps
<1>6. nodes[n + 1].depth # nodes[i].depth
  BY <1>1, <1>3, <1>4
<1>7. Open(i, n + 1)
  BY <1>5, <1>6 DEF EndsAt
<1>8. ~Open(e, n + 1) => DepthAfter(nodes[n + 1]) = nodes[i].depth + 1
  BY <1>3, <1>4 DEF DepthAfter, HasContent
<1>9. \A others : n + 1 \notin Children(i, others)
  <2>1. nodes[n + 1].depth = nodes[i].depth + 1 => nodes[n + 1].type = "end"
    BY <1>1, <1>3, <1>4
  <2>2. QED
    BY <2>1, SeenMoves DEF IsStart
<1>10. QED
  BY <1>4, <1>5, <1>7, <1>8, <1>9

\* The end tag of a test case has its name: the loop knows it from other nodes.
LEMMA EndName ==
  ASSUME document \in Documents, NEW i \in 1 .. Len(nodes), NEW n \in i .. Len(nodes),
         n < Len(nodes), IsCase(i), Open(i, n)
  PROVE  Open(i, n + 1) <=> ~(nodes[n + 1].name = "testcase" /\ EndsAt(nodes[n + 1], i))
<1>1. Len(nodes) \in Nat /\ n \in Nat /\ i \in Nat /\ i =< n
  BY DocumentParts
<1>2. Open(i, n + 1) <=> ~EndsAt(nodes[n + 1], i)
  BY <1>1, OpenSteps
<1>3. ASSUME ~Open(i, n + 1) PROVE nodes[n + 1].name = "testcase"
  <2>1. n + 1 \in Ends(i)
    BY <1>1, <1>2, <1>3 DEF Ends, EndTags, EndsAt
  <2>2. Ends(i) \subseteq Nat /\ \A k \in Ends(i) : n + 1 =< k
    BY <1>1 DEF Open, Ends, EndTags
  <2>3. FirstOf(EndTags(nodes, i)) = n + 1
    BY <2>1, <2>2, FirstIs DEF Ends
  <2>4. HasContent(nodes[i]) /\ EndTags(nodes, i) # {}
    BY <2>1 DEF Ends, Open
  <2>5. nodes[FirstOf(EndTags(nodes, i))].name = nodes[i].name
    BY <2>4, DocumentParts DEF Matched, nodes
  <2>6. QED
    BY <2>3, <2>5 DEF IsCase, IsStart
<1>4. QED
  BY <1>2, <1>3

\* In a document that is well formed no element is open at the end.
LEMMA WellEnds ==
  ASSUME document \in Documents, document.wellFormed, NEW i \in 1 .. Len(nodes)
  PROVE  ~Open(i, Len(nodes))
<1> SUFFICES ASSUME Open(i, Len(nodes)) PROVE FALSE
  OBVIOUS
<1>1. HasContent(nodes[i]) /\ \A j \in Ends(i) : j > Len(nodes)
  BY DEF Open
<1>2. Len(nodes) \in Nat /\ \A j \in Ends(i) : j \in Nat /\ j =< Len(nodes)
  BY DocumentParts DEF Ends, EndTags
<1>3. EndTags(nodes, i) = {}
  BY <1>1, <1>2 DEF Ends
<1>4. ~document.wellFormed
  BY <1>1, <1>3, DocumentParts DEF Matched, nodes
<1>5. QED
  BY <1>4

\* A node that is neither an issue of the test case nor a text of its last one.
LEMMA IssueKept ==
  ASSUME document \in Documents, NEW i \in 1 .. Len(nodes), NEW n \in i .. Len(nodes),
         n < Len(nodes), NEW c, IssueRead(i, n, c),
         n + 1 \notin Children(i, IssueNames), n + 1 \notin DetailsOf(c.issue)
  PROVE  IssueRead(i, n + 1, c)
<1>1. Seen(i, IssueNames, n + 1) = Seen(i, IssueNames, n)
  BY SeenMoves
<1>2. n \in Nat /\ \A k \in DetailsOf(c.issue) : k \in Int
  <2>1. Len(nodes) \in Nat /\ c.issue \in Int
    BY DocumentParts, SeenMoves DEF IssueRead
  <2>2. \A k \in Inside(c.issue) : k \in Int
    BY <2>1 DEF Inside
  <2>3. QED
    BY <2>1, <2>2 DEF DetailsOf
<1>3. {k \in DetailsOf(c.issue) : k =< n + 1} = {k \in DetailsOf(c.issue) : k =< n}
  BY <1>2
<1>4. QED
  BY <1>1, <1>3 DEF IssueRead

\* A new issue of the test case replaces the one before.
LEMMA IssueMet ==
  ASSUME document \in Documents, NEW i \in 1 .. Len(nodes), NEW n \in i .. Len(nodes),
         n < Len(nodes), n + 1 \in Children(i, IssueNames), NEW c,
         c.issue = n + 1, c.outcome = Issues[nodes[n + 1].name], c.details = {}
  PROVE  IssueRead(i, n + 1, c)
<1>1. /\ Seen(i, IssueNames, n + 1) = Seen(i, IssueNames, n) \cup {n + 1}
      /\ \A k \in Seen(i, IssueNames, n) : k \in i + 1 .. n
  BY SeenMoves
<1>2. n \in Nat /\ i \in Nat /\ n + 1 # 0
  BY DocumentParts
<1>3. c.outcome = OutcomeOf(c.issue)
  BY <1>2 DEF OutcomeOf
<1>4. \A k \in DetailsOf(n + 1) : k \in Nat /\ k > n + 1
  BY <1>2, DocumentParts DEF DetailsOf, Inside
<1>5. {k \in DetailsOf(n + 1) : k =< n + 1} = {}
  BY <1>2, <1>4
<1>6. \A k \in Seen(i, IssueNames, n + 1) : k =< n + 1
  BY <1>1, <1>2
<1>7. QED
  BY <1>1, <1>3, <1>5, <1>6 DEF IssueRead

\* A node that is not a properties element of the test case.
LEMMA IdKept ==
  ASSUME document \in Documents, NEW i \in 1 .. Len(nodes), NEW n \in i .. Len(nodes),
         n < Len(nodes), NEW id, CaseIdRead(i, n, id), n + 1 \notin Children(i, {"properties"})
  PROVE  CaseIdRead(i, n + 1, id)
<1>1. Seen(i, {"properties"}, n + 1) = Seen(i, {"properties"}, n)
  BY SeenMoves
<1>2. \A p \in Seen(i, {"properties"}, n) : Open(p, n + 1) => Open(p, n)
  BY DocumentParts, SeenMoves, OpenSteps
<1>3. n \in Nat /\ \A p : IdsIn(p) \subseteq Int
  BY DocumentParts DEF IdsIn, Inside
<1>4. \A p : \A q \in IdsIn(p) : q =< n => q =< n + 1
  BY <1>3
<1>5. QED
  BY <1>1, <1>2, <1>4 DEF CaseIdRead

\* Text, end tags and empty unknown elements leave the loop where it may go on.
LEMMA BetweenPasses ==
  ASSUME document \in Documents, NEW i \in 1 .. Len(nodes), NEW n \in i .. Len(nodes),
         n < Len(nodes), Open(i, n), Open(i, n + 1), Between(i, n),
         nodes[n + 1].type # "start" \/ nodes[n + 1].empty
  PROVE  Between(i, n + 1)
<1>1. Len(nodes) \in Nat /\ n \in 1 .. Len(nodes) /\ n + 1 \in 1 .. Len(nodes)
      /\ n \in Nat /\ i \in Nat /\ i =< n /\ nodes[i].depth \in Nat /\ nodes[n + 1].depth \in Nat
  BY DocumentParts
<1>2. CASE DepthAfter(nodes[n]) = nodes[i].depth + 1
  <2>1. nodes[n + 1].type = "end" => nodes[n + 1].depth = nodes[i].depth
    BY <1>1, <1>2, NextDepth
  <2>2. nodes[n + 1].type # "end"
    BY <1>1, <2>1, OpenSteps DEF EndsAt
  <2>3. nodes[n + 1].depth = nodes[i].depth + 1
    BY <1>1, <1>2, <2>2, NextDepth
  <2>4. QED
    BY <2>3 DEF Between, DepthAfter, HasContent
<1>3. CASE \E c \in Seen(i, {"skipped", "ignored", "properties"}, n) :
             /\ Open(c, n)
             /\ IF nodes[c].name = "properties"
                THEN \E q \in c + 1 .. n : HoldsCaseId(nodes[q]) ELSE n > c
  <2>1. PICK c \in Seen(i, {"skipped", "ignored", "properties"}, n) :
             /\ Open(c, n)
             /\ IF nodes[c].name = "properties"
                THEN \E q \in c + 1 .. n : HoldsCaseId(nodes[q]) ELSE n > c
    BY <1>3
  <2>2. CASE ~Open(c, n + 1)
    <3>1. DepthAfter(nodes[n + 1]) = nodes[i].depth + 1
      BY <2>1, <2>2, ChildDepth
    <3>2. QED
      BY <3>1 DEF Between
  <2>3. CASE Open(c, n + 1)
    <3>1. c \in Seen(i, {"skipped", "ignored", "properties"}, n + 1) /\ c \in i + 1 .. n
      <4>1. c \in i + 1 .. n
        BY SeenMoves
      <4>2. c =< n + 1
        BY <1>1, <4>1
      <4>3. QED
        BY <4>1, <4>2 DEF Seen
    <3>2. (n > c => n + 1 > c) /\ c + 1 .. n \subseteq c + 1 .. n + 1
      BY <1>1, <3>1
    <3>3. QED
      BY <2>1, <2>3, <3>1, <3>2 DEF Between
  <2>4. QED
    BY <2>2, <2>3
<1>4. QED
  BY <1>2, <1>3 DEF Between

\* Before the first foreign element every start tag the loop sees, but for
\* empty unknown elements, is that of a child it knows.
LEMMA ChildMet ==
  ASSUME document \in Documents, NEW i \in 1 .. Len(nodes), NEW n \in i .. Len(nodes),
         n < Len(nodes), IsCase(i), CaseRead(i, n), Between(i, n), ForeignUpTo(n + 1) = {},
         nodes[n + 1].type = "start", ~(IsForeign(nodes[n + 1]) /\ nodes[n + 1].empty)
  PROVE  /\ Open(i, n + 1) /\ ~IsForeign(nodes[n + 1])
         /\ nodes[n + 1].depth = nodes[i].depth + 1
<1>1. Len(nodes) \in Nat /\ n \in 1 .. Len(nodes) /\ n + 1 \in 1 .. n + 1
      /\ i \in 1 .. (n + 1) - 1
      /\ n \in Nat /\ i \in Nat /\ i =< n /\ nodes[i].depth \in Nat
  BY DocumentParts
<1>2. Open(i, n) /\ ~InCase(i)
  BY DEF CaseRead
<1>3. Open(i, n + 1)
  BY <1>1, <1>2, OpenSteps DEF EndsAt
<1>4. \A c \in Children(i, {"skipped", "ignored", "properties"}) : n + 1 \notin LeftOf(c)
  BY <1>1, <1>2, <1>3 DEF ForeignUpTo
<1>5. ~ \E c \in Seen(i, {"skipped", "ignored", "properties"}, n) :
           /\ Open(c, n)
           /\ IF nodes[c].name = "properties"
              THEN \E q \in c + 1 .. n : HoldsCaseId(nodes[q]) ELSE n > c
  <2> SUFFICES ASSUME NEW c \in Seen(i, {"skipped", "ignored", "properties"}, n), Open(c, n),
                      IF nodes[c].name = "properties"
                      THEN \E q \in c + 1 .. n : HoldsCaseId(nodes[q]) ELSE n > c
               PROVE  FALSE
    OBVIOUS
  <2>1. Open(c, n + 1)
    BY <1>2, ChildDepth
  <2>2. c \in i + 1 .. n /\ c \in Children(i, {"skipped", "ignored", "properties"})
    BY SeenMoves DEF Seen
  <2>3. n + 1 \in Inside(c) /\ (n > c => n + 1 > c + 1) /\ (n + 1) - 1 = n
    BY <1>1, <2>1, <2>2 DEF Inside
  <2>4. nodes[c].name \in {"skipped", "ignored", "properties"}
    BY <2>2 DEF Children, IsStart
  <2>5. n + 1 \in LeftOf(c)
    BY <2>3, <2>4 DEF LeftOf
  <2>6. QED
    BY <1>4, <2>2, <2>5
<1>6. DepthAfter(nodes[n]) = nodes[i].depth + 1
  BY <1>5 DEF Between
<1>7. nodes[n + 1].depth = nodes[i].depth + 1
  BY <1>1, <1>6, NextDepth
<1>8. ~IsForeign(nodes[n + 1])
  BY <1>1, <1>2, <1>3, <1>7 DEF ForeignUpTo, HasContent
<1>9. QED
  BY <1>3, <1>7, <1>8

\* At the end tag of a test case, the locals say of it what the document says.
LEMMA CaseReading ==
  ASSUME document \in Documents, NEW i \in 1 .. Len(nodes), NEW n \in i .. Len(nodes),
         n < Len(nodes), CaseRead(i, n), ~Open(i, n + 1), NEW c \in Locals, c.at = i,
         IssueRead(i, n, c), CaseIdRead(i, n, c.caseId),
         c.issue # 0 /\ nodes[c.issue].name \in {"failure", "error"} => ~Open(c.issue, n),
         stamp = StampOf(SuitesBefore(n))
  PROVE  Result(c) = ReadingOf(i)
<1>1. Len(nodes) \in Nat /\ n \in Nat /\ i \in Nat /\ n + 1 \in Nat /\ Open(i, n)
      /\ SuitesBefore(n) = SuitesBefore(i)
  BY DocumentParts DEF CaseRead
<1>2. \A names : Seen(i, names, n) = Children(i, names) /\ Children(i, names) \subseteq Nat
  <2> SUFFICES ASSUME NEW names, NEW k \in Children(i, names) PROVE k =< n /\ k \in Nat
    BY DEF Seen
  <2>1. k \in Nat /\ Open(i, k)
    BY <1>1 DEF Children, Inside
  <2>2. n + 1 =< k => Open(i, n + 1)
    BY <1>1, <2>1, OpenSteps
  <2>3. QED
    BY <1>1, <2>1, <2>2
<1>3. IssueOf(i) = c.issue
  <2> DEFINE S == Children(i, IssueNames)
  <2>1. S \subseteq Nat /\ S = Seen(i, IssueNames, n)
    BY <1>2
  <2>2. S # {} => c.issue \in S /\ \A k \in S : k =< c.issue
    BY <2>1 DEF IssueRead
  <2>3. S = {} => c.issue = 0
    BY <2>1 DEF IssueRead
  <2>4. S # {} => LastOf(S) = c.issue
    BY <2>1, <2>2, LastIs
  <2>5. QED
    BY <2>3, <2>4 DEF IssueOf
<1>4. c.outcome = OutcomeOf(c.issue)
  BY DEF IssueRead
<1>5. c.details = DetailsOf(c.issue)
  <2>1. c.issue \in Nat
    BY DEF Locals
  <2>2. \A k \in DetailsOf(c.issue) : k =< n
    <3> SUFFICES ASSUME NEW k \in DetailsOf(c.issue) PROVE k =< n
      OBVIOUS
    <3>1. c.issue # 0 /\ nodes[c.issue].name \in {"failure", "error"} /\ k \in Inside(c.issue)
      BY DEF DetailsOf
    <3>2. k \in Nat /\ Open(c.issue, k)
      BY <1>1, <2>1, <3>1 DEF Inside
    <3>3. n =< k => Open(c.issue, n)
      BY <1>1, <2>1, <3>2, OpenSteps
    <3>4. QED
      BY <1>1, <3>1, <3>2, <3>3
  <2>3. QED
    BY <2>2 DEF IssueRead
<1>6. CaseIdOf(i) = c.caseId
  <2> DEFINE S == Children(i, {"properties"})
  <2>1. S \subseteq Nat /\ S = Seen(i, {"properties"}, n)
    BY <1>2
  <2>2. CASE S = {}
    BY <2>1, <2>2 DEF CaseIdRead, CaseIdOf, CaseIdsOf
  <2>3. CASE S # {}
    <3>1. PICK p \in S :
            /\ \A k \in S : k =< p
            /\ \/ \E q \in IdsIn(p) : /\ q =< n /\ (\A r \in IdsIn(p) : q =< r)
                                      /\ c.caseId = nodes[q].id
               \/ IdsIn(p) = {} /\ c.caseId = Null
      BY <2>1, <2>3 DEF CaseIdRead
    <3>2. LastOf(S) = p
      BY <2>1, <3>1, LastIs
    <3>3. CaseIdsOf(i) = IdsIn(p)
      BY <2>3, <3>2 DEF CaseIdsOf, IdsIn
    <3>4. IdsIn(p) \subseteq Nat
      BY <1>1, <2>1 DEF IdsIn, Inside
    <3>5. CASE IdsIn(p) = {}
      BY <3>1, <3>3, <3>5 DEF CaseIdOf
    <3>6. CASE IdsIn(p) # {}
      <4>1. PICK q \in IdsIn(p) : (\A r \in IdsIn(p) : q =< r) /\ c.caseId = nodes[q].id
        BY <3>1, <3>6
      <4>2. FirstOf(IdsIn(p)) = q
        BY <3>4, <4>1, FirstIs
      <4>3. QED
        BY <3>3, <3>6, <4>1, <4>2 DEF CaseIdOf
    <3>7. QED
      BY <3>5, <3>6
  <2>4. QED
    BY <2>2, <2>3
<1>7. QED
  BY <1>1, <1>3, <1>4, <1>5, <1>6 DEF Result, ReadingOf

\* Of a test case without content the document says nothing but where it is.
LEMMA EmptyReading ==
  ASSUME document \in Documents, NEW i \in 1 .. Len(nodes), ~HasContent(nodes[i]),
         stamp = StampOf(SuitesBefore(i))
  PROVE  Result(Opened(i)) = ReadingOf(i)
<1>1. \A names : Children(i, names) = {}
  BY DEF Children, Inside, Open
<1>2. IssueOf(i) = 0 /\ OutcomeOf(IssueOf(i)) = "Passed" /\ DetailsOf(IssueOf(i)) = {}
  BY <1>1 DEF IssueOf, OutcomeOf, DetailsOf
<1>3. CaseIdOf(i) = Null
  BY <1>1 DEF CaseIdOf, CaseIdsOf
<1>4. QED
  BY <1>2, <1>3 DEF Result, Opened, ReadingOf

\* What the end of a test case adds to the results.
LEMMA FoundGrows ==
  ASSUME results \in Seq(Readings), NEW c, Result(c) \in Readings, Close(c)
  PROVE  Found' = Found \cup (IF nodes[c.at].named THEN {Result(c)} ELSE {})
<1>1. results' = IF nodes[c.at].named THEN Append(results, Result(c)) ELSE results
  BY DEF Close, Collected
<1>2. CASE ~nodes[c.at].named
  BY <1>1, <1>2 DEF Found
<1>3. CASE nodes[c.at].named
  <2> DEFINE n == Len(results)
  <2>1. results' = Append(results, Result(c)) /\ n \in Nat
    BY <1>1, <1>3
  <2>2. /\ Len(results') = n + 1 /\ \A k \in 1 .. n : results'[k] = results[k]
        /\ results'[n + 1] = Result(c)
    BY <2>1
  <2>3. 1 .. n + 1 = 1 .. n \cup {n + 1}
    BY <2>1
  <2>4. QED
    BY <1>3, <2>2, <2>3 DEF Found
<1>4. QED
  BY <1>2, <1>3

\* A suite that begins behind others is the last one, and its timestamp counts.
LEMMA StampMoves ==
  ASSUME NEW n \in Nat, NEW S, S \subseteq 1 .. n
  PROVE  StampOf(S \cup {n + 1}) = nodes[n + 1].stamp
<1> DEFINE T == S \cup {n + 1}
<1>1. T \subseteq Nat /\ n + 1 \in T /\ \A k \in T : k =< n + 1
  OBVIOUS
<1>2. LastOf(T) = n + 1
  BY <1>1, LastIs
<1>3. QED
  BY <1>1, <1>2 DEF StampOf

\* The names of issues, and that of no other child.
LEMMA IssueNamesAre == IssueNames = {"failure", "error", "skipped", "ignored"}
  BY DEF IssueNames, Issues

\* A text is a detail of an issue only while that issue is open.
LEMMA NoDetail ==
  ASSUME document \in Documents, NEW n \in Nat, NEW x \in Nat,
         \/ nodes[n + 1].type # "text"
         \/ x # 0 /\ nodes[x].name \in {"failure", "error"} => ~Open(x, n)
  PROVE  n + 1 \notin DetailsOf(x)
<1>1. n + 1 \in Inside(x) => Open(x, n + 1)
  BY DEF Inside
<1>2. Open(x, n + 1) => Open(x, n)
  BY OpenSteps
<1>3. QED
  BY <1>1, <1>2 DEF DetailsOf

\* ReadTestCaseAsync passes a node that tells it nothing.
LEMMA CasePassed ==
  ASSUME document \in Documents, NEW i \in 1 .. Len(nodes), NEW n \in i .. Len(nodes),
         n < Len(nodes), Open(i, n), Open(i, n + 1),
         NEW e, NEW f, NEW c \in Locals, LoopRead(i, n, "testcase", e, c),
         nodes[n + 1].type # "start" \/ (IsForeign(nodes[n + 1]) /\ nodes[n + 1].empty)
  PROVE  LoopRead(i, n + 1, "testcase", f, c)
<1>1. n \in Nat /\ i \in Nat /\ c.issue \in Nat
  BY DocumentParts DEF Locals
<1>2. n + 1 \notin Children(i, IssueNames) /\ n + 1 \notin Children(i, {"properties"})
  BY SeenMoves DEF IsStart, IsForeign
<1>3. IssueRead(i, n, c) /\ Between(i, n) /\ CaseIdRead(i, n, c.caseId)
      /\ (c.issue # 0 /\ nodes[c.issue].name \in {"failure", "error"} => ~Open(c.issue, n))
  BY DEF LoopRead
<1>4. n + 1 \notin DetailsOf(c.issue)
  BY <1>1, <1>3, NoDetail
<1>5. IssueRead(i, n + 1, c)
  BY <1>2, <1>3, <1>4, IssueKept
<1>6. CaseIdRead(i, n + 1, c.caseId)
  BY <1>2, <1>3, IdKept
<1>7. Between(i, n + 1)
  BY <1>3, BetweenPasses
<1>8. Open(c.issue, n + 1) => Open(c.issue, n)
  BY <1>1, OpenSteps
<1>9. QED
  BY <1>3, <1>5, <1>6, <1>7, <1>8 DEF LoopRead

\* It meets an issue, and goes on unless there are texts to read.
LEMMA IssueBegins ==
  ASSUME document \in Documents, NEW i \in 1 .. Len(nodes), NEW n \in i .. Len(nodes),
         n < Len(nodes), NEW e, NEW f, NEW c \in Locals, LoopRead(i, n, "testcase", e, c),
         n + 1 \in Children(i, IssueNames), NEW b \in Locals,
         b.issue = n + 1, b.outcome = Issues[nodes[n + 1].name], b.details = {},
         b.caseId = c.caseId
  PROVE  /\ IssueRead(i, n + 1, b) /\ CaseIdRead(i, n + 1, b.caseId)
         /\ nodes[n + 1].empty => LoopRead(i, n + 1, "testcase", f, b)
         /\ ~nodes[n + 1].empty /\ nodes[n + 1].name \in {"failure", "error"} =>
              LoopRead(i, n + 1, "issue", n + 1, b)
<1>1. n \in Nat /\ i \in Nat /\ n + 1 \in Nat
  BY DocumentParts
<1>2. IsStart(nodes[n + 1], IssueNames) /\ nodes[n + 1].depth = nodes[i].depth + 1
  BY SeenMoves
<1>3. n + 1 \notin Children(i, {"properties"})
  BY <1>2, SeenMoves, IssueNamesAre DEF IsStart
<1>4. IssueRead(i, n + 1, b)
  BY IssueMet
<1>5. CaseIdRead(i, n + 1, b.caseId)
  BY <1>3, IdKept DEF LoopRead
<1>6. Open(n + 1, n + 1) <=> ~nodes[n + 1].empty
  BY <1>1, <1>2, OpenSteps DEF HasContent, IsStart
<1>7. ASSUME nodes[n + 1].empty PROVE LoopRead(i, n + 1, "testcase", f, b)
  <2>1. Between(i, n + 1)
    BY <1>2, <1>7 DEF Between, DepthAfter, HasContent
  <2>2. QED
    BY <1>4, <1>5, <1>6, <1>7, <2>1 DEF LoopRead
<1>8. ASSUME ~nodes[n + 1].empty, nodes[n + 1].name \in {"failure", "error"}
      PROVE  LoopRead(i, n + 1, "issue", n + 1, b)
  <2>1. n + 1 \in Children(i, {"failure", "error"})
    BY <1>2, <1>8, SeenMoves DEF IsStart
  <2>2. n + 1 \in Seen(i, {"failure", "error"}, n + 1)
    BY <1>1, <2>1 DEF Seen
  <2>3. QED
    BY <1>4, <1>5, <1>6, <1>8, <2>2 DEF LoopRead
<1>9. QED
  BY <1>4, <1>5, <1>7, <1>8

\* A skipped element with content is left at its second node.
LEMMA SkippedRead ==
  ASSUME document \in Documents, NEW i \in 1 .. Len(nodes), NEW n \in i .. Len(nodes),
         n + 1 < Len(nodes), IsCase(i), CaseRead(i, n),
         NEW e, NEW f, NEW c \in Locals, LoopRead(i, n, "testcase", e, c),
         n + 1 \in Children(i, {"skipped", "ignored"}), ~nodes[n + 1].empty, NEW b \in Locals,
         b.issue = n + 1, b.outcome = Issues[nodes[n + 1].name], b.details = {},
         b.caseId = c.caseId
  PROVE  Open(i, n + 1) /\ Open(i, n + 2) /\ LoopRead(i, n + 2, "testcase", f, b)
<1> DEFINE m == n + 1
<1>1. /\ n \in Nat /\ i \in Nat /\ m \in Nat /\ Len(nodes) \in Nat /\ n < Len(nodes)
      /\ m \in i .. Len(nodes) /\ m < Len(nodes) /\ m + 1 = n + 2 /\ n + 2 \in Nat
  BY DocumentParts
<1>2. /\ IsStart(nodes[m], {"skipped", "ignored"}) /\ nodes[m].depth = nodes[i].depth + 1
      /\ Open(i, m)
  BY <1>1, SeenMoves
<1>3. m \in Children(i, IssueNames)
  BY <1>1, <1>2, SeenMoves, IssueNamesAre DEF IsStart
<1>4. IssueRead(i, m, b) /\ CaseIdRead(i, m, b.caseId)
  BY <1>1, <1>3, IssueBegins
<1> DEFINE names == {"skipped", "ignored"}
<1>5. m \in Seen(i, names, m) /\ Open(m, m)
  <2>1. Open(m, m)
    BY <1>1, <1>2, OpenSteps DEF HasContent, IsStart
  <2>2. QED
    BY <1>1, <2>1 DEF Seen
<1> HIDE DEF m
<1>6. /\ Open(i, m + 1) /\ \A others : m + 1 \notin Children(i, others)
      /\ ~Open(m, m + 1) => DepthAfter(nodes[m + 1]) = nodes[i].depth + 1
  BY <1>1, <1>2, <1>5, ChildDepth
<1>7. b.issue = m /\ nodes[m].name \notin {"failure", "error"}
  BY <1>2 DEF m, IsStart
<1>8. IssueRead(i, m + 1, b)
  <2>1. m + 1 \notin DetailsOf(b.issue)
    BY <1>7 DEF DetailsOf
  <2>2. QED
    BY <1>1, <1>4, <1>6, <2>1, IssueKept
<1>9. CaseIdRead(i, m + 1, b.caseId)
  BY <1>1, <1>4, <1>6, IdKept
<1>10. Between(i, m + 1)
  <2>1. CASE ~Open(m, m + 1)
    BY <1>6, <2>1 DEF Between
  <2>2. CASE Open(m, m + 1)
    <3>1. m \in Seen(i, {"skipped", "ignored", "properties"}, m + 1)
      BY <1>1, <1>5 DEF Seen, Children, IsStart
    <3>2. m + 1 > m /\ nodes[m].name # "properties"
      BY <1>1, <1>2 DEF IsStart
    <3>3. QED
      BY <2>2, <3>1, <3>2 DEF Between
  <2>3. QED
    BY <2>1, <2>2
<1>11. LoopRead(i, m + 1, "testcase", f, b)
  BY <1>7, <1>8, <1>9, <1>10 DEF LoopRead
<1>12. QED
  BY <1>1, <1>2, <1>6, <1>11

\* ReadIssueNodeAsync reads a node of the issue, or its end tag.
LEMMA IssueLoop ==
  ASSUME document \in Documents, NEW i \in 1 .. Len(nodes), NEW n \in i .. Len(nodes),
         n < Len(nodes), Open(i, n), NEW e, NEW f, NEW c \in Locals,
         LoopRead(i, n, "issue", e, c), NEW b \in Locals, b.issue = c.issue,
         b.outcome = c.outcome, b.caseId = c.caseId,
         b.details = IF nodes[n + 1].type = "text" THEN c.details \cup {n + 1} ELSE c.details
  PROVE  /\ Open(i, n + 1)
         /\ ~EndsAt(nodes[n + 1], e) => LoopRead(i, n + 1, "issue", e, b)
         /\ EndsAt(nodes[n + 1], e) => LoopRead(i, n + 1, "testcase", f, b)
<1>1. n \in Nat /\ i \in Nat /\ n + 1 \in Nat /\ Len(nodes) \in Nat
  BY DocumentParts
<1>2. /\ IssueRead(i, n, c) /\ CaseIdRead(i, n, c.caseId) /\ e = c.issue
      /\ e \in Seen(i, {"failure", "error"}, n) /\ Open(e, n)
  BY DEF LoopRead
<1>3. /\ Open(i, n + 1) /\ \A others : n + 1 \notin Children(i, others)
      /\ Open(e, n + 1) <=> ~EndsAt(nodes[n + 1], e)
      /\ ~Open(e, n + 1) => /\ nodes[n + 1].type = "end"
                            /\ DepthAfter(nodes[n + 1]) = nodes[i].depth + 1
  BY <1>2, ChildDepth
<1>4. e \in i + 1 .. n /\ e # 0 /\ nodes[e].name \in {"failure", "error"}
  <2>1. e \in i + 1 .. n
    BY <1>2, SeenMoves
  <2>2. nodes[e].name \in {"failure", "error"}
    BY <1>2 DEF Seen, Children, IsStart
  <2>3. QED
    BY <1>1, <2>1, <2>2
<1>5. IssueRead(i, n + 1, b)
  <2>1. CASE nodes[n + 1].type # "text"
    <3>1. n + 1 \notin DetailsOf(c.issue)
      BY <2>1 DEF DetailsOf
    <3>2. IssueRead(i, n + 1, c)
      BY <1>2, <1>3, <3>1, IssueKept
    <3>3. b.details = c.details
      BY <2>1
    <3>4. QED
      BY <3>2, <3>3 DEF IssueRead
  <2>2. CASE nodes[n + 1].type = "text"
    <3>1. Seen(i, IssueNames, n + 1) = Seen(i, IssueNames, n)
      BY <1>3, SeenMoves
    <3>2. n + 1 \in Inside(e)
      BY <1>1, <1>3, <1>4, <2>2 DEF Inside
    <3>3. n + 1 \in DetailsOf(e)
      BY <1>4, <2>2, <3>2 DEF DetailsOf
    <3>4. \A k \in DetailsOf(e) : k \in Int
      BY <1>1, <1>4 DEF DetailsOf, Inside
    <3>5. {k \in DetailsOf(e) : k =< n + 1} = {k \in DetailsOf(e) : k =< n} \cup {n + 1}
      BY <1>1, <3>3, <3>4
    <3>6. QED
      BY <1>2, <2>2, <3>1, <3>5 DEF IssueRead
  <2>3. QED
    BY <2>1, <2>2
<1>6. CaseIdRead(i, n + 1, b.caseId)
  BY <1>2, <1>3, IdKept
<1>7. ASSUME Open(e, n + 1) PROVE LoopRead(i, n + 1, "issue", e, b)
  <2>1. e =< n + 1
    BY <1>1, <1>4
  <2>2. e \in Seen(i, {"failure", "error"}, n + 1)
    BY <1>2, <2>1 DEF Seen
  <2>3. QED
    BY <1>2, <1>5, <1>6, <1>7, <2>2 DEF LoopRead
<1>8. ASSUME ~Open(e, n + 1) PROVE LoopRead(i, n + 1, "testcase", f, b)
  <2>1. Between(i, n + 1)
    BY <1>3, <1>8 DEF Between
  <2>2. QED
    BY <1>2, <1>5, <1>6, <1>8, <2>1 DEF LoopRead
<1>9. QED
  BY <1>3, <1>7, <1>8

\* ReadTestCaseAsync meets the properties of the test case.
LEMMA PropertiesBegin ==
  ASSUME document \in Documents, NEW i \in 1 .. Len(nodes), NEW n \in i .. Len(nodes),
         n < Len(nodes), NEW e, NEW f, NEW c \in Locals, LoopRead(i, n, "testcase", e, c),
         n + 1 \in Children(i, {"properties"}), NEW b \in Locals, b.issue = c.issue,
         b.outcome = c.outcome, b.details = c.details,
         nodes[n + 1].empty => b.caseId = Null
  PROVE  IF nodes[n + 1].empty
         THEN LoopRead(i, n + 1, "testcase", f, b)
         ELSE LoopRead(i, n + 1, "properties", n + 1, b)
<1>1. n \in Nat /\ i \in Nat /\ n + 1 \in Nat /\ Len(nodes) \in Nat /\ c.issue \in Nat
  BY DocumentParts DEF Locals
<1>2. IsStart(nodes[n + 1], {"properties"}) /\ nodes[n + 1].depth = nodes[i].depth + 1
  BY SeenMoves
<1>3. n + 1 \notin Children(i, IssueNames) /\ n + 1 \notin DetailsOf(c.issue)
  BY <1>2, SeenMoves, IssueNamesAre DEF IsStart, DetailsOf
<1>4. /\ IssueRead(i, n, c)
      /\ c.issue # 0 /\ nodes[c.issue].name \in {"failure", "error"} => ~Open(c.issue, n)
  BY DEF LoopRead
<1>5. IssueRead(i, n + 1, c)
  BY <1>3, <1>4, IssueKept
<1>6. IssueRead(i, n + 1, b)
  BY <1>5 DEF IssueRead
<1>7. b.issue # 0 /\ nodes[b.issue].name \in {"failure", "error"} => ~Open(b.issue, n + 1)
  BY <1>1, <1>4, OpenSteps
<1>8. /\ n + 1 \in Seen(i, {"properties"}, n + 1)
      /\ \A k \in Seen(i, {"properties"}, n + 1) : k =< n + 1
  <2>1. \A k \in Seen(i, {"properties"}, n + 1) : k =< n + 1
    BY DEF Seen
  <2>2. QED
    BY <1>1, <2>1 DEF Seen
<1>9. Open(n + 1, n + 1) <=> ~nodes[n + 1].empty
  BY <1>1, <1>2, OpenSteps DEF HasContent, IsStart
<1>10. CASE nodes[n + 1].empty
  <2>1. IdsIn(n + 1) = {}
    BY <1>10 DEF IdsIn, Inside, Open, HasContent
  <2>2. CaseIdRead(i, n + 1, b.caseId)
    BY <1>8, <1>9, <1>10, <2>1 DEF CaseIdRead
  <2>3. Between(i, n + 1)
    BY <1>2, <1>10 DEF Between, DepthAfter, HasContent
  <2>4. QED
    BY <1>6, <1>7, <1>10, <2>2, <2>3 DEF LoopRead
<1>11. CASE ~nodes[n + 1].empty
  <2>1. \A q \in (n + 1) + 1 .. n + 1 : FALSE
    BY <1>1
  <2>2. QED
    BY <1>6, <1>7, <1>8, <1>9, <1>11, <2>1 DEF LoopRead
<1>12. QED
  BY <1>10, <1>11

\* ReadPropertiesForCaseIdAsync reads on, to the first case id or the end tag.
LEMMA PropertiesLoop ==
  ASSUME document \in Documents, NEW i \in 1 .. Len(nodes), NEW n \in i .. Len(nodes),
         n < Len(nodes), Open(i, n), NEW e, NEW f, NEW c \in Locals,
         LoopRead(i, n, "properties", e, c), NEW b \in Locals, b.issue = c.issue,
         b.outcome = c.outcome, b.details = c.details
  PROVE  /\ Open(i, n + 1)
         /\ ~EndsAt(nodes[n + 1], e) /\ ~HoldsCaseId(nodes[n + 1]) =>
              LoopRead(i, n + 1, "properties", e, b)
         /\ HoldsCaseId(nodes[n + 1]) /\ b.caseId = nodes[n + 1].id =>
              LoopRead(i, n + 1, "testcase", f, b)
         /\ EndsAt(nodes[n + 1], e) /\ b.caseId = Null => LoopRead(i, n + 1, "testcase", f, b)
<1>1. n \in Nat /\ i \in Nat /\ n + 1 \in Nat /\ Len(nodes) \in Nat /\ c.issue \in Nat
  BY DocumentParts DEF Locals
<1>2. /\ IssueRead(i, n, c) /\ e \in Seen(i, {"properties"}, n) /\ Open(e, n)
      /\ \A k \in Seen(i, {"properties"}, n) : k =< e
      /\ \A q \in e + 1 .. n : ~HoldsCaseId(nodes[q])
      /\ c.issue # 0 /\ nodes[c.issue].name \in {"failure", "error"} => ~Open(c.issue, n)
  BY DEF LoopRead
<1>3. /\ Open(i, n + 1) /\ \A others : n + 1 \notin Children(i, others)
      /\ Open(e, n + 1) <=> ~EndsAt(nodes[n + 1], e)
      /\ ~Open(e, n + 1) => /\ nodes[n + 1].type = "end"
                            /\ DepthAfter(nodes[n + 1]) = nodes[i].depth + 1
  BY <1>2, ChildDepth
<1>4. e \in i + 1 .. n /\ nodes[e].name = "properties"
  BY <1>1, <1>2, SeenMoves DEF Seen, Children, IsStart
<1>5. n + 1 \notin DetailsOf(c.issue)
  BY <1>1, <1>2, NoDetail
<1>6. IssueRead(i, n + 1, c)
  BY <1>2, <1>3, <1>5, IssueKept
<1>7. IssueRead(i, n + 1, b)
  BY <1>6 DEF IssueRead
<1>8. b.issue # 0 /\ nodes[b.issue].name \in {"failure", "error"} => ~Open(b.issue, n + 1)
  BY <1>1, <1>2, OpenSteps
<1>9. Seen(i, {"properties"}, n + 1) = Seen(i, {"properties"}, n)
  BY <1>3, SeenMoves
<1>10. e \in Int /\ \A q \in e + 1 .. n + 1 : q \in e + 1 .. n \/ q = n + 1
  BY <1>1, <1>4
<1>11. /\ n + 1 \in e + 1 .. n + 1
       /\ \A q \in Inside(e) : q \in Int /\ q \in e + 1 .. Len(nodes) /\ Open(e, q)
  BY <1>1, <1>4 DEF Inside
<1>12. ASSUME ~EndsAt(nodes[n + 1], e), ~HoldsCaseId(nodes[n + 1])
       PROVE  LoopRead(i, n + 1, "properties", e, b)
  BY <1>2, <1>3, <1>7, <1>8, <1>9, <1>10, <1>12 DEF LoopRead
<1>13. ASSUME HoldsCaseId(nodes[n + 1]), b.caseId = nodes[n + 1].id
       PROVE  LoopRead(i, n + 1, "testcase", f, b)
  <2>1. Open(e, n + 1)
    BY <1>3, <1>13 DEF HoldsCaseId, IsStart
  <2>2. n + 1 \in IdsIn(e)
    BY <1>1, <1>4, <1>13, <2>1 DEF IdsIn, Inside
  <2>3. \A r \in IdsIn(e) : n + 1 =< r
    <3> SUFFICES ASSUME NEW r \in IdsIn(e) PROVE n + 1 =< r
      OBVIOUS
    <3>1. r \in Int /\ r \in e + 1 .. Len(nodes) /\ HoldsCaseId(nodes[r])
      BY <1>11 DEF IdsIn
    <3>2. r \notin e + 1 .. n
      BY <1>2, <3>1
    <3>3. QED
      BY <1>1, <1>10, <3>1, <3>2
  <2>4. CaseIdRead(i, n + 1, b.caseId)
    <3>1. n + 1 =< n + 1
      BY <1>1
    <3>2. \E q \in IdsIn(e) : /\ q =< n + 1 /\ (\A r \in IdsIn(e) : q =< r)
                              /\ b.caseId = nodes[q].id
      BY <1>13, <2>2, <2>3, <3>1
    <3>3. QED
      BY <1>2, <1>9, <3>2 DEF CaseIdRead
  <2>5. Between(i, n + 1)
    <3>1. e \in Seen(i, {"skipped", "ignored", "properties"}, n + 1)
      BY <1>1, <1>2, <1>4 DEF Seen, Children, IsStart
    <3>2. QED
      BY <1>4, <1>11, <1>13, <2>1, <3>1 DEF Between
  <2>6. QED
    BY <1>7, <1>8, <2>4, <2>5 DEF LoopRead
<1>14. ASSUME EndsAt(nodes[n + 1], e), b.caseId = Null
       PROVE  LoopRead(i, n + 1, "testcase", f, b)
  <2>1. ~Open(e, n + 1) /\ nodes[n + 1].type = "end"
    BY <1>3, <1>14
  <2>2. IdsIn(e) = {}
    <3> SUFFICES ASSUME NEW r \in IdsIn(e) PROVE FALSE
      OBVIOUS
    <3>1. r \in Int /\ r \in e + 1 .. Len(nodes) /\ Open(e, r) /\ HoldsCaseId(nodes[r])
      BY <1>11 DEF IdsIn
    <3>2. r \notin e + 1 .. n
      BY <1>2, <3>1
    <3>3. n + 1 =< r /\ r \in Nat /\ e \in Nat
      BY <1>1, <1>4, <1>10, <3>1, <3>2
    <3>4. Open(e, n + 1)
      BY <1>1, <3>1, <3>3, OpenSteps
    <3>5. QED
      BY <2>1, <3>4
  <2>3. CaseIdRead(i, n + 1, b.caseId)
    BY <1>2, <1>9, <1>14, <2>1, <2>2 DEF CaseIdRead
  <2>4. Between(i, n + 1)
    BY <1>3, <2>1 DEF Between
  <2>5. QED
    BY <1>7, <1>8, <2>3, <2>4 DEF LoopRead
<1>15. QED
  BY <1>3, <1>12, <1>13, <1>14

\* Before the first node nothing has been read.
LEMMA ExactInit == Init => ExactInv
<1> SUFFICES ASSUME Init PROVE ExactRead
  BY DEF ExactInv
<1>1. at = 0 /\ mode = "document" /\ stamp = Null /\ results = <<>>
  BY DEF Init
<1>2. 1 .. 0 = {}
  OBVIOUS
<1>3. CasesUpTo(0) = {} /\ SuitesBefore(0) = {} /\ Clear(0)
  BY <1>2 DEF CasesUpTo, SuitesBefore, Clear
<1>4. Found = {} /\ StampOf({}) = Null
  BY <1>1, <1>2 DEF Found, StampOf
<1>5. QED
  BY <1>1, <1>3, <1>4 DEF ExactRead, CaseModes

\* The reader moves forwards through one document, and a failure is final.
LEMMA MovesForwards ==
  ASSUME OrderInv, [Next]_vars
  PROVE  document' = document /\ at' \in Nat /\ at =< at' /\ (mode = "failed" => mode' = "failed")
<1>0. at \in Nat /\ document \in Documents
  BY DocumentParts DEF OrderInv, TypeOK
<1>1. CASE UNCHANGED vars \/ Ended
  BY <1>0, <1>1 DEF vars, Ended
<1>2. CASE ReadFails \/ FinishedAtOverflows \/ SkipFails \/ ParseReturns \/ CancelKeyPress
           \/ EndCaseWithDocument
  BY <1>0, <1>2 DEF ReadFails, FinishedAtOverflows, SkipFails, ParseReturns, CancelKeyPress,
     EndCaseWithDocument, Throw, Reading, Meets, MeetsForeign
<1>3. CASE SkipOther
  <2>1. /\ mode = "testcase" /\ HasNext /\ BeforeTheLast(at + 1)
        /\ document' = document /\ at' = at + (EndOf(at + 1) + 1 - at)
    BY <1>3 DEF SkipOther, MeetsForeign, Step, Advance
  <2>2. EndOf(at + 1) \in Nat /\ EndOf(at + 1) > at + 1
    BY <1>0, <2>1, NextNode, SkipBounds
  <2>3. QED
    BY <1>0, <2>1, <2>2
<1>4. CASE ReadSuite \/ ReadEmptyCase \/ EndCase
  BY <1>0, <1>4 DEF ReadSuite, ReadEmptyCase, EndCase, Meets, Advance
<1>5. CASE PassDocumentNode \/ BeginCase \/ PassCaseNode \/ ReadIssue \/ EmptyProperties
           \/ BeginProperties \/ IssueText \/ PassIssueNode \/ EndIssue \/ PassProperty
           \/ ReadCaseId \/ EndProperties
  BY <1>0, <1>5 DEF PassDocumentNode, BeginCase, PassCaseNode, ReadIssue, EmptyProperties,
     BeginProperties, IssueText, PassIssueNode, EndIssue, PassProperty, ReadCaseId,
     EndProperties, Meets, Step, Advance
<1>6. CASE ReadSkipped
  <2>1. mode = "testcase" /\ document' = document /\ at' \in {at + 1, at + 2}
    BY <1>6 DEF ReadSkipped, Meets, Step, Advance
  <2>2. QED
    BY <1>0, <2>1
<1>7. QED
  BY <1>1, <1>2, <1>3, <1>4, <1>5, <1>6 DEF Next, ParseStep

\* Where the loops of a test case are when they read.
LEMMA CaseParts ==
  ASSUME OrderInv, mode \in CaseModes, HasNext
  PROVE  /\ document \in Documents /\ current.at \in 1 .. Len(nodes)
         /\ at \in current.at .. Len(nodes) /\ at < Len(nodes) /\ IsCase(current.at)
         /\ current \in Locals
<1>1. document \in Documents /\ Len(nodes) \in Nat /\ at \in Nat
  BY DocumentParts DEF OrderInv, TypeOK
<1>2. QED
  BY <1>1 DEF OrderInv, TypeOK, HasNext, CaseModes

\* A step inside a test case that stays open.
LEMMA CaseGoes ==
  ASSUME ExactRead, UNCHANGED <<document, stamp, results>>, mode' \in CaseModes,
         NEW m, at' = m, NEW i, current'.at = i,
         CaseRead(i, m), CasesUpTo(m) = CasesUpTo(at), SuitesBefore(m) = SuitesBefore(at),
         LoopRead(i, m, mode', element', current')
  PROVE  ExactRead'
<1>1. Found' = Found
  BY DEF Found
<1>2. /\ CasesUpTo(at)' = CasesUpTo(m) /\ SuitesBefore(at)' = SuitesBefore(m)
      /\ \A k : ReadingOf(k)' = ReadingOf(k)
      /\ \A S : StampOf(S)' = StampOf(S)
  BY ReadingRests
<1>3. CaseRead(current.at, at)' /\ LoopRead(current.at, at, mode, element, current)'
  BY ReadingRests
<1>4. Found' = {ReadingOf(k)' : k \in CasesUpTo(at)'}
  BY <1>1, <1>2 DEF ExactRead
<1>5. stamp' = StampOf(SuitesBefore(at))'
  BY <1>2 DEF ExactRead
<1>6. QED
  BY <1>3, <1>4, <1>5 DEF ExactRead, CaseModes

\* A step behind which no test case is open.
LEMMA ClearGoes ==
  ASSUME UNCHANGED document, mode' \in {"document", "done"}, NEW m, at' = m, Clear(m),
         Found' = {ReadingOf(i) : i \in CasesUpTo(m)}, stamp' = StampOf(SuitesBefore(m))
  PROVE  ExactRead'
<1>1. /\ CasesUpTo(at)' = CasesUpTo(m) /\ SuitesBefore(at)' = SuitesBefore(m)
      /\ \A k : ReadingOf(k)' = ReadingOf(k)
      /\ \A S : StampOf(S)' = StampOf(S)
  BY ReadingRests
<1>2. Clear(at)'
  BY ReadingRests
<1>3. Found' = {ReadingOf(k)' : k \in CasesUpTo(at)'}
  BY <1>1
<1>4. stamp' = StampOf(SuitesBefore(at))'
  BY <1>1
<1>5. QED
  BY <1>2, <1>3, <1>4 DEF ExactRead, CaseModes

\* A step to the next node of a test case that stays open.
LEMMA CaseStep ==
  ASSUME OrderInv, ExactRead, mode \in CaseModes, HasNext, NEW m \in CaseModes, NEW c,
         Step(1, m, c), c.at = current.at, Open(current.at, at + 1),
         LoopRead(current.at, at + 1, m, element', c)
  PROVE  ExactRead'
<1>1. /\ UNCHANGED <<document, stamp, results>> /\ at' = at + 1 /\ mode' = m /\ current' = c
  BY DEF Step, Advance
<1>2. CaseRead(current.at, at)
  BY DEF ExactRead
<1>3. /\ CaseRead(current.at, at + 1)
      /\ CasesUpTo(at + 1) = CasesUpTo(at) /\ SuitesBefore(at + 1) = SuitesBefore(at)
  BY <1>2, CaseParts, CaseMoves
<1>4. QED
  BY <1>1, <1>3, CaseGoes

\* Every step up to the first foreign element keeps what has been read exact.
LEMMA ExactKeeps == OrderInv /\ ExactInv /\ [Next]_vars => ExactInv'
<1> SUFFICES ASSUME OrderInv, ExactInv, [Next]_vars, ForeignUpTo(at)' = {}, mode' # "failed"
             PROVE  ExactRead'
  BY DEF ExactInv
<1> DEFINE i == current.at
<1>1. /\ document' = document /\ at \in Nat /\ at' \in Nat /\ at =< at' /\ mode # "failed"
      /\ Len(nodes) \in Nat /\ document \in Documents
  BY MovesForwards, DocumentParts DEF OrderInv, TypeOK
<1>2. ForeignUpTo(at') = {}
  BY <1>1, ReadingRests
<1>3. ASSUME NEW m \in Nat, m =< at' PROVE ForeignUpTo(m) = {}
  BY <1>1, <1>2, <1>3, ForeignStays
<1>4. ExactRead
  BY <1>1, <1>3 DEF ExactInv
<1>5. ASSUME UNCHANGED <<document, at, stamp, current, element, results>>,
             mode' = mode \/ (mode = "document" /\ mode' = "done")
      PROVE  ExactRead'
  <2>1. CASE mode \in CaseModes
    <3>1. /\ mode' = mode /\ CaseRead(i, at) /\ LoopRead(i, at, mode', element', current')
      BY <1>5, <2>1, <1>4 DEF ExactRead, CaseModes
    <3>2. mode' \in CaseModes /\ at' = at /\ current'.at = i
      BY <1>5, <2>1, <3>1
    <3>3. QED
      BY <1>4, <1>5, <3>1, <3>2, CaseGoes
  <2>2. CASE mode \notin CaseModes
    <3>1. mode' \in {"document", "done"} /\ Clear(at) /\ Found' = Found /\ at' = at
      BY <1>1, <1>4, <1>5, <2>2 DEF ExactRead, OrderInv, TypeOK, CaseModes, Found
    <3>2. Found' = {ReadingOf(k) : k \in CasesUpTo(at)} /\ stamp' = StampOf(SuitesBefore(at))
      BY <1>4, <1>5, <3>1 DEF ExactRead
    <3>3. QED
      BY <1>1, <3>1, <3>2, ClearGoes
  <2>3. QED
    BY <2>1, <2>2
<1>6. CASE UNCHANGED vars \/ Ended \/ CancelKeyPress \/ ParseReturns
  <2>1. UNCHANGED <<document, at, stamp, current, element, results>>
        /\ (mode' = mode \/ (mode = "document" /\ mode' = "done"))
    BY <1>6 DEF vars, Ended, CancelKeyPress, ParseReturns
  <2>2. QED
    BY <1>5, <2>1
<1>7. CASE ReadFails \/ FinishedAtOverflows \/ SkipFails
  BY <1>7 DEF ReadFails, FinishedAtOverflows, SkipFails, Throw
<1>8. CASE PassDocumentNode \/ ReadSuite
  <2>1. /\ mode = "document" /\ HasNext /\ at' = at + 1 /\ mode' = mode
        /\ results' = results /\ ~IsCase(at + 1)
        /\ stamp' = IF IsStart(nodes[at + 1], SuiteNames) THEN nodes[at + 1].stamp ELSE stamp
    BY <1>8 DEF PassDocumentNode, ReadSuite, Meets, Step, Advance, next, IsCase, IsStart, SuiteNames
  <2>2. Clear(at) /\ Found' = Found /\ at < Len(nodes)
    BY <1>4, <2>1 DEF ExactRead, Found, HasNext
  <2>3. Clear(at + 1) /\ CasesUpTo(at + 1) = CasesUpTo(at)
    BY <1>1, <2>1, <2>2, ClearMoves
  <2>4. stamp' = StampOf(SuitesBefore(at + 1))
    <3>1. CASE IsStart(nodes[at + 1], SuiteNames)
      <4>1. SuitesBefore(at + 1) = SuitesBefore(at) \cup {at + 1}
        BY <1>1, <2>2, <3>1, ClearMoves
      <4>2. SuitesBefore(at) \subseteq 1 .. at
        BY DEF SuitesBefore
      <4>3. QED
        BY <1>1, <2>1, <3>1, <4>1, <4>2, StampMoves
    <3>2. CASE ~IsStart(nodes[at + 1], SuiteNames)
      <4>1. SuitesBefore(at + 1) = SuitesBefore(at)
        BY <1>1, <2>2, <3>2, ClearMoves
      <4>2. QED
        BY <1>4, <2>1, <3>2, <4>1 DEF ExactRead
    <3>3. QED
      BY <3>1, <3>2
  <2>5. Found' = {ReadingOf(k) : k \in CasesUpTo(at + 1)}
    BY <1>4, <2>2, <2>3 DEF ExactRead
  <2>6. QED
    BY <1>1, <2>1, <2>3, <2>4, <2>5, ClearGoes
<1>9. CASE BeginCase
  <2>1. /\ mode = "document" /\ HasNext /\ Step(1, "testcase", Opened(at + 1))
        /\ IsCase(at + 1) /\ HasContent(nodes[at + 1]) /\ ~IsStart(nodes[at + 1], SuiteNames)
    BY <1>9 DEF BeginCase, Meets, IsCase, HasContent, IsStart, next, SuiteNames
  <2>2. /\ at' = at + 1 /\ mode' = "testcase" /\ current' = Opened(at + 1)
        /\ UNCHANGED <<document, stamp, results>>
    BY <2>1 DEF Step, Advance
  <2>3. Clear(at) /\ at < Len(nodes) /\ at + 1 \in 1 .. Len(nodes) /\ at + 1 \in Nat
        /\ mode' \in CaseModes
    BY <1>1, <1>4, <2>1, <2>2 DEF ExactRead, HasNext, CaseModes
  <2>4. /\ CaseRead(at + 1, at + 1) /\ CasesUpTo(at + 1) = CasesUpTo(at)
        /\ SuitesBefore(at + 1) = SuitesBefore(at)
    BY <1>1, <2>1, <2>3, ClearMoves
  <2>5. \A names : Seen(at + 1, names, at + 1) = {}
    BY <1>1, <2>3 DEF Seen, Children, Inside
  <2>6. LoopRead(at + 1, at + 1, "testcase", element', Opened(at + 1))
    <3>1. /\ Opened(at + 1).issue = 0 /\ Opened(at + 1).outcome = "Passed"
          /\ Opened(at + 1).details = {} /\ Opened(at + 1).caseId = Null
      BY <2>3, OpenedParts
    <3>2. IssueRead(at + 1, at + 1, Opened(at + 1))
      BY <2>5, <3>1 DEF IssueRead, OutcomeOf, DetailsOf
    <3>3. CaseIdRead(at + 1, at + 1, Opened(at + 1).caseId)
      BY <2>5, <3>1 DEF CaseIdRead
    <3>4. Between(at + 1, at + 1)
      BY <2>1 DEF Between, DepthAfter
    <3>5. QED
      BY <3>1, <3>2, <3>3, <3>4 DEF LoopRead
  <2>7. Opened(at + 1).at = at + 1
    BY <2>3, OpenedParts
  <2>8. QED
    BY <1>4, <2>2, <2>3, <2>4, <2>6, <2>7, CaseGoes
<1>10. CASE ReadEmptyCase
  <2>1. /\ mode = "document" /\ HasNext /\ at' = at + 1 /\ Close(Opened(at + 1))
        /\ IsCase(at + 1) /\ ~HasContent(nodes[at + 1]) /\ ~IsStart(nodes[at + 1], SuiteNames)
    BY <1>10 DEF ReadEmptyCase, Meets, Advance, IsCase, HasContent, IsStart, next, SuiteNames
  <2>2. mode' = "document" /\ stamp' = stamp
    BY <2>1 DEF Close
  <2>3. Clear(at) /\ at < Len(nodes) /\ at + 1 \in 1 .. Len(nodes) /\ at + 1 \in Nat
    BY <1>1, <1>4, <2>1 DEF ExactRead, HasNext
  <2>4. /\ Clear(at + 1) /\ SuitesBefore(at + 1) = SuitesBefore(at)
        /\ CasesUpTo(at + 1) = CasesUpTo(at) \cup (IF nodes[at + 1].named THEN {at + 1} ELSE {})
    BY <1>1, <2>1, <2>3, ClearMoves
  <2>5. stamp = StampOf(SuitesBefore(at + 1))
    BY <1>4, <2>4 DEF ExactRead
  <2>6. Result(Opened(at + 1)) = ReadingOf(at + 1)
    BY <1>1, <2>1, <2>3, <2>5, EmptyReading
  <2>7. Opened(at + 1) \in Locals /\ Opened(at + 1).at = at + 1
    BY <2>3, OpenedParts
  <2>8. Result(Opened(at + 1)) \in Readings
    BY <2>7 DEF Result, Readings, Locals, OrderInv, TypeOK
  <2>9. Found' = Found \cup (IF nodes[at + 1].named THEN {ReadingOf(at + 1)} ELSE {})
    BY <2>1, <2>6, <2>7, <2>8, FoundGrows DEF OrderInv
  <2>10. Found' = {ReadingOf(k) : k \in CasesUpTo(at + 1)}
    BY <1>4, <2>4, <2>9 DEF ExactRead
  <2>11. QED
    BY <1>1, <2>1, <2>2, <2>4, <2>5, <2>10, ClearGoes
<1>11. CASE EndCase
  <2>1. /\ mode = "testcase" /\ HasNext /\ at' = at + 1 /\ AtCaseEnd /\ Close(current)
        /\ mode \in CaseModes
    BY <1>11 DEF EndCase, Advance, CaseModes
  <2>2. mode' = "document" /\ stamp' = stamp
    BY <2>1 DEF Close
  <2>3. /\ i \in 1 .. Len(nodes) /\ at \in i .. Len(nodes) /\ at < Len(nodes) /\ IsCase(i)
        /\ current \in Locals
    BY <2>1, CaseParts
  <2>4. CaseRead(i, at) /\ LoopRead(i, at, "testcase", element, current) /\ Open(i, at)
        /\ stamp = StampOf(SuitesBefore(at))
    BY <1>4, <2>1 DEF ExactRead, CaseRead
  <2>5. ~Open(i, at + 1)
    BY <1>1, <2>1, <2>3, <2>4, EndName DEF AtCaseEnd, next
  <2>6. /\ Clear(at + 1) /\ SuitesBefore(at + 1) = SuitesBefore(at)
        /\ CasesUpTo(at + 1) = CasesUpTo(at) \cup (IF nodes[i].named THEN {i} ELSE {})
    BY <1>1, <2>3, <2>4, <2>5, CaseEnds
  <2>7. Result(current) = ReadingOf(i)
    <3>1. /\ IssueRead(i, at, current) /\ CaseIdRead(i, at, current.caseId)
          /\ current.issue # 0 /\ nodes[current.issue].name \in {"failure", "error"} =>
               ~Open(current.issue, at)
      BY <2>4 DEF LoopRead
    <3>2. QED
      BY <1>1, <2>3, <2>4, <2>5, <3>1, CaseReading
  <2>8. Result(current) \in Readings
    BY <2>3 DEF Result, Readings, Locals, OrderInv, TypeOK
  <2>9. Found' = Found \cup (IF nodes[i].named THEN {ReadingOf(i)} ELSE {})
    BY <2>1, <2>7, <2>8, FoundGrows DEF OrderInv
  <2>10. Found' = {ReadingOf(k) : k \in CasesUpTo(at + 1)}
    BY <1>4, <2>6, <2>9 DEF ExactRead
  <2>11. stamp' = StampOf(SuitesBefore(at + 1))
    BY <2>2, <2>4, <2>6
  <2>12. QED
    BY <1>1, <2>1, <2>2, <2>6, <2>10, <2>11, ClearGoes
<1>12. CASE EndCaseWithDocument
  <2>1. mode = "testcase" /\ ~(at < Len(nodes)) /\ document.wellFormed
    BY <1>12 DEF EndCaseWithDocument, AtDocumentEnd, HasNext
  <2>2. at = Len(nodes) /\ i \in 1 .. Len(nodes)
    BY <1>1, <2>1 DEF OrderInv, TypeOK
  <2>3. Open(i, at)
    BY <1>4, <2>1 DEF ExactRead, CaseRead, CaseModes
  <2>4. QED
    BY <1>1, <2>1, <2>2, <2>3, WellEnds
<1>13. ASSUME mode \in CaseModes, HasNext
       PROVE  /\ i \in 1 .. Len(nodes) /\ at \in i .. Len(nodes) /\ at < Len(nodes)
              /\ IsCase(i) /\ current \in Locals /\ CaseRead(i, at) /\ Open(i, at)
              /\ LoopRead(i, at, mode, element, current)
              /\ next = nodes[at + 1] /\ at + 1 \in Nat
              /\ next.id \in Int \cup {Null} /\ next.type \in {"start", "end", "text"}
  BY <1>1, <1>4, <1>13, CaseParts, NextNode DEF ExactRead, CaseRead
<1>14. ASSUME mode = "testcase", HasNext, next.type = "start",
              ~(IsForeign(next) /\ next.empty), at + 1 =< at'
       PROVE  /\ Open(i, at + 1) /\ ~IsForeign(next)
              /\ \A names : next.name \in names => at + 1 \in Children(i, names)
  <2>1. ForeignUpTo(at + 1) = {}
    BY <1>1, <1>3, <1>14
  <2>2. Between(i, at) /\ mode \in CaseModes
    BY <1>13, <1>14 DEF LoopRead, CaseModes
  <2>3. Open(i, at + 1) /\ ~IsForeign(next) /\ next.depth = nodes[i].depth + 1
    BY <1>1, <1>13, <1>14, <2>1, <2>2, ChildMet
  <2>4. QED
    BY <1>1, <1>13, <1>14, <2>2, <2>3, SeenMoves DEF IsStart
<1>15. CASE PassCaseNode
  <2>1. /\ mode = "testcase" /\ HasNext /\ Step(1, mode, current) /\ mode \in CaseModes
        /\ \/ next.type # "start" /\ ~AtCaseEnd
           \/ IsForeign(next) /\ next.empty
    BY <1>15 DEF PassCaseNode, CaseModes
  <2>2. Open(i, at + 1)
    BY <1>1, <1>13, <2>1, EndName DEF AtCaseEnd, IsForeign, EndsAt
  <2>3. LoopRead(i, at + 1, mode, element', current)
    BY <1>1, <1>13, <2>1, <2>2, CasePassed
  <2>4. QED
    BY <1>4, <2>1, <2>2, <2>3, CaseStep
<1>16. CASE ReadIssue
  <2>1. /\ mode = "testcase" /\ HasNext /\ mode \in CaseModes
        /\ next.type = "start" /\ next.name \in {"failure", "error"}
        /\ Step(1, IF next.empty THEN mode ELSE "issue", WithIssue(at + 1))
    BY <1>16 DEF ReadIssue, Meets, IsStart, CaseModes
  <2>2. at' = at + 1 /\ (~next.empty => element' = at + 1)
    BY <2>1 DEF Step, Advance
  <2>3. next.name \in IssueNames /\ ~IsForeign(next)
    BY <2>1, IssueNamesAre DEF IsForeign
  <2>4. Open(i, at + 1) /\ at + 1 \in Children(i, IssueNames)
    BY <1>1, <1>14, <2>1, <2>2, <2>3
  <2>5. /\ WithIssue(at + 1) \in Locals /\ WithIssue(at + 1).at = i
        /\ WithIssue(at + 1).issue = at + 1 /\ WithIssue(at + 1).details = {}
        /\ WithIssue(at + 1).outcome = Issues[nodes[at + 1].name]
        /\ WithIssue(at + 1).caseId = current.caseId
    BY <1>13, <2>1, <2>3, IssueLocals
  <2>6. LoopRead(i, at + 1, IF next.empty THEN mode ELSE "issue", element', WithIssue(at + 1))
    BY <1>1, <1>13, <2>1, <2>2, <2>4, <2>5, IssueBegins
  <2>7. (IF next.empty THEN mode ELSE "issue") \in CaseModes
    BY <2>1 DEF CaseModes
  <2>8. QED
    BY <1>4, <2>1, <2>4, <2>5, <2>6, <2>7, CaseStep
<1>17. CASE ReadSkipped
  <2>1. /\ mode = "testcase" /\ HasNext /\ mode \in CaseModes
        /\ next.type = "start" /\ next.name \in {"skipped", "ignored"}
        /\ Step(IF next.empty THEN 1 ELSE 2, mode, WithIssue(at + 1))
        /\ next.empty \/ at + 2 =< Len(nodes)
    BY <1>17 DEF ReadSkipped, Meets, IsStart, CaseModes
  <2>2. /\ at' = IF next.empty THEN at + 1 ELSE at + 2
        /\ mode' = mode /\ current' = WithIssue(at + 1)
        /\ UNCHANGED <<document, stamp, results>>
    BY <2>1 DEF Step, Advance
  <2>3. next.name \in IssueNames /\ ~IsForeign(next) /\ at + 1 =< at'
    BY <1>1, <2>1, <2>2, IssueNamesAre DEF IsForeign
  <2>4. /\ Open(i, at + 1) /\ at + 1 \in Children(i, IssueNames)
        /\ at + 1 \in Children(i, {"skipped", "ignored"})
    BY <1>1, <1>14, <2>1, <2>3
  <2>5. /\ WithIssue(at + 1) \in Locals /\ WithIssue(at + 1).at = i
        /\ WithIssue(at + 1).issue = at + 1 /\ WithIssue(at + 1).details = {}
        /\ WithIssue(at + 1).outcome = Issues[nodes[at + 1].name]
        /\ WithIssue(at + 1).caseId = current.caseId
    BY <1>13, <2>1, <2>3, IssueLocals
  <2>6. CASE next.empty
    <3>1. LoopRead(i, at + 1, mode, element', WithIssue(at + 1))
      BY <1>1, <1>13, <2>1, <2>4, <2>5, <2>6, IssueBegins
    <3>2. Step(1, mode, WithIssue(at + 1))
      BY <2>1, <2>6
    <3>3. QED
      BY <1>4, <2>1, <2>4, <2>5, <3>1, <3>2, CaseStep
  <2>7. CASE ~next.empty
    <3>1. at + 1 < Len(nodes) /\ at + 1 \in i .. Len(nodes) /\ (at + 1) + 1 = at + 2
      BY <1>1, <1>13, <2>1, <2>7
    <3>2. Open(i, at + 2) /\ LoopRead(i, at + 2, mode, element', WithIssue(at + 1))
      BY <1>1, <1>13, <2>1, <2>4, <2>5, <2>7, <3>1, SkippedRead
    <3>3. /\ CaseRead(i, at + 1) /\ CasesUpTo(at + 1) = CasesUpTo(at)
          /\ SuitesBefore(at + 1) = SuitesBefore(at)
      BY <1>1, <1>13, <2>1, <2>4, CaseMoves
    <3>4. /\ CaseRead(i, at + 2) /\ CasesUpTo(at + 2) = CasesUpTo(at + 1)
          /\ SuitesBefore(at + 2) = SuitesBefore(at + 1)
      BY <1>1, <1>13, <2>1, <3>1, <3>2, <3>3, CaseMoves
    <3>5. at' = at + 2 /\ mode' \in CaseModes /\ current'.at = i
      BY <2>1, <2>2, <2>5, <2>7
    <3>6. QED
      BY <1>4, <2>2, <3>2, <3>3, <3>4, <3>5, CaseGoes
  <2>8. QED
    BY <2>6, <2>7
<1>18. CASE EmptyProperties \/ BeginProperties
  <2>1. PICK b : /\ mode = "testcase" /\ HasNext /\ mode \in CaseModes
                 /\ next.type = "start" /\ next.name = "properties"
                 /\ Step(1, IF next.empty THEN mode ELSE "properties", b)
                 /\ b = IF next.empty THEN WithCaseId(Null) ELSE current
    BY <1>18 DEF EmptyProperties, BeginProperties, Meets, IsStart, CaseModes
  <2>2. at' = at + 1 /\ (~next.empty => element' = at + 1)
    BY <2>1 DEF Step, Advance
  <2>3. ~IsForeign(next)
    BY <2>1 DEF IsForeign
  <2>4. Open(i, at + 1) /\ at + 1 \in Children(i, {"properties"})
    BY <1>1, <1>14, <2>1, <2>2, <2>3
  <2>5. /\ b \in Locals /\ b.at = i /\ b.issue = current.issue /\ b.outcome = current.outcome
        /\ b.details = current.details /\ (next.empty => b.caseId = Null)
    BY <1>13, <2>1, IdLocals
  <2>6. LoopRead(i, at + 1, IF next.empty THEN mode ELSE "properties", element', b)
    BY <1>1, <1>13, <2>1, <2>2, <2>4, <2>5, PropertiesBegin
  <2>7. (IF next.empty THEN mode ELSE "properties") \in CaseModes
    BY <2>1 DEF CaseModes
  <2>8. QED
    BY <1>4, <2>1, <2>4, <2>5, <2>6, <2>7, CaseStep
<1>19. CASE SkipOther
  <2>1. /\ mode = "testcase" /\ HasNext /\ BeforeTheLast(at + 1) /\ IsForeign(next) /\ ~next.empty
        /\ at' = at + (EndOf(at + 1) + 1 - at) /\ next.type = "start" /\ mode \in CaseModes
    BY <1>19 DEF SkipOther, MeetsForeign, Step, Advance, IsForeign, CaseModes
  <2>2. EndOf(at + 1) \in Nat /\ EndOf(at + 1) > at + 1
    BY <1>1, <2>1, NextNode, SkipBounds
  <2>3. at + 1 =< at'
    BY <1>1, <2>1, <2>2
  <2>4. QED
    BY <1>14, <2>1, <2>3
<1>20. CASE IssueText \/ PassIssueNode \/ EndIssue
  <2>1. PICK b : /\ mode = "issue" /\ HasNext /\ mode \in CaseModes
                 /\ Step(1, IF EndsAt(next, element) THEN "testcase" ELSE "issue", b)
                 /\ b = IF next.type = "text"
                        THEN [current EXCEPT !.details = @ \cup {at + 1}] ELSE current
    BY <1>20 DEF IssueText, PassIssueNode, EndIssue, EndsAt, CaseModes
  <2>2. ~EndsAt(next, element) => element' = element
    <3>1. ~EndsAt(next, element) => Step(1, mode, b)
      BY <2>1
    <3>2. QED
      BY <3>1 DEF Step
  <2>3. /\ b \in Locals /\ b.at = i /\ b.issue = current.issue /\ b.outcome = current.outcome
        /\ b.caseId = current.caseId
        /\ b.details = IF next.type = "text" THEN current.details \cup {at + 1}
                       ELSE current.details
    BY <1>13, <2>1 DEF Locals
  <2>4. /\ Open(i, at + 1)
        /\ LoopRead(i, at + 1, IF EndsAt(next, element) THEN "testcase" ELSE "issue", element', b)
    BY <1>1, <1>13, <2>1, <2>2, <2>3, IssueLoop
  <2>5. (IF EndsAt(next, element) THEN "testcase" ELSE "issue") \in CaseModes
    BY DEF CaseModes
  <2>6. QED
    BY <1>4, <2>1, <2>3, <2>4, <2>5, CaseStep
<1>21. CASE PassProperty \/ ReadCaseId \/ EndProperties
  <2> DEFINE m == IF EndsAt(next, element) \/ HoldsCaseId(next) THEN "testcase" ELSE "properties"
  <2>1. PICK b : /\ mode = "properties" /\ HasNext /\ mode \in CaseModes
                 /\ Step(1, m, b)
                 /\ b = IF HoldsCaseId(next) THEN WithCaseId(next.id)
                        ELSE IF EndsAt(next, element) THEN WithCaseId(Null) ELSE current
    BY <1>21 DEF PassProperty, ReadCaseId, EndProperties, EndsAt, HoldsCaseId, IsStart, CaseModes
  <2>2. m = "properties" => element' = element
    <3>1. m = "properties" => Step(1, mode, b)
      BY <2>1
    <3>2. QED
      BY <3>1 DEF Step
  <2>3. /\ b \in Locals /\ b.at = i /\ b.issue = current.issue /\ b.outcome = current.outcome
        /\ b.details = current.details /\ (HoldsCaseId(next) => b.caseId = next.id)
        /\ (~HoldsCaseId(next) /\ EndsAt(next, element) => b.caseId = Null)
    BY <1>13, <2>1, IdLocals
  <2>4. Open(i, at + 1) /\ LoopRead(i, at + 1, m, element', b)
    BY <1>1, <1>13, <2>1, <2>2, <2>3, PropertiesLoop
  <2>5. m \in CaseModes
    BY DEF CaseModes
  <2>6. QED
    BY <1>4, <2>1, <2>3, <2>4, <2>5, CaseStep
<1>22. QED
  BY <1>6, <1>7, <1>8, <1>9, <1>10, <1>11, <1>12, <1>15, <1>16, <1>17, <1>18, <1>19, <1>20,
     <1>21 DEF Next, ParseStep

\* For every document a reader may deliver: up to the first element that is
\* skipped or taken for a child of the test case, the loops find each test case
\* that has ended, with its outcome, details, case id and start, and no other.
THEOREM ParserReadsExactly == Spec => []ExactBeforeForeign
<1>1. OrderInv /\ ExactInv => ExactBeforeForeign
  BY DEF ExactInv, ExactRead, ExactBeforeForeign
<1>2. QED
  BY <1>1, OrderInit, OrderKeeps, ExactInit, ExactKeeps, PTL DEF Spec

=============================================================================
