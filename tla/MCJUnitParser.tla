--------------------------- MODULE MCJUnitParser ---------------------------
(* Documents for TLC, built as trees and laid out as the reader delivers    *)
(* them.                                                                    *)
EXTENDS JUnitParser, SequencesExt

CONSTANT NoValue

Node(type, name, depth) ==
    [type |-> type, name |-> name, depth |-> depth, empty |-> FALSE, named |-> TRUE,
     stamp |-> NoValue, time |-> "none", id |-> NoValue]

Empty(name, depth) == [Node("start", name, depth) EXCEPT !.empty = TRUE]
Text(depth) == Node("text", "", depth)
Wrap(start, inner) == <<start>> \o inner \o <<Node("end", start.name, start.depth)>>
Element(name, depth, inner) == Wrap(Node("start", name, depth), inner)
Property(id) == [Empty("property", 4) EXCEPT !.id = id]

(* What a test case may hold: issues without and with content (one with an  *)
(* element between two texts), properties, and elements the parser does not  *)
(* know.  Suites have depth 0 or 1, test cases 2, their children 3.         *)
Failure == Element("failure", 3, <<Text(4), Empty("br", 4)>> \o Element("b", 4, <<Text(5)>>) \o <<Text(4)>>)
Skipped == Element("skipped", 3, <<Text(4)>>)
WithId == Element("properties", 3, <<Property(NoValue), Property(5), Property(6)>>)
WithoutId == Element("properties", 3, <<Property(NoValue)>>)
SystemOut == Element("system-out", 3, <<Text(4)>>)
Known == {Failure, Skipped, WithId, WithoutId, <<Empty("error", 3)>>, <<Empty("skipped", 3)>>,
          <<Empty("properties", 3)>>, <<Empty("system-err", 3)>>, <<Text(3)>>}
Content == Known \cup {SystemOut}

(* What a report seldom holds: elements inside a skipped one or behind a     *)
(* case id, and a suite and test cases inside of a test case.                *)
InnerSuite == [Node("start", "testsuite", 4) EXCEPT !.stamp = 9]
Odd == {Element("skipped", 3, <<Text(4), Empty("failure", 4)>>),
        Element("skipped", 3, Element("b", 4, <<Text(5)>>) \o <<Empty("br", 4), Text(4)>>),
        Element("properties", 3, <<Property(5)>> \o Element("property", 4, <<Text(5)>>)),
        Element("properties", 3, Element("property", 4, <<Text(5)>>)),
        Element("failure", 3, Wrap(InnerSuite, Element("testcase", 5, Element("system-out", 6, <<>>)))),
        <<Empty("testcase", 3)>>}

UpTo(n, S) == {FlattenSeq(t) : t \in UNION {[1 .. k -> S] : k \in 0 .. n}}

CaseStart == Node("start", "testcase", 2)
EmptyCase == <<Empty("testcase", 2)>>
Nameless == Wrap([CaseStart EXCEPT !.named = FALSE], Failure)
Endless == <<[Empty("testcase", 2) EXCEPT !.time = "unbounded"]>>
EndlessLater == Wrap([CaseStart EXCEPT !.time = "unbounded"], Skipped)
EndlessOpen == Wrap([CaseStart EXCEPT !.time = "unbounded"], SystemOut)
Cases(inner) == {Wrap(CaseStart, c) : c \in inner}
SomeCases == Cases({Failure, WithId, SystemOut, <<Empty("error", 3)>>})
             \cup {EmptyCase, Nameless, Endless, EndlessLater, EndlessOpen}

Suite(depth, time, inner) ==
    Wrap([Node("start", "testsuite", depth) EXCEPT !.stamp = time], inner)
File(nodeSequence) == [nodes |-> nodeSequence, wellFormed |-> TRUE]
InOneSuite(time, bodies) == {File(Suite(1, time, b)) : b \in bodies}

(* One test case with up to three children, of which an odd one has one       *)
(* sibling; up to three test cases; a suite inside a suite, between two test  *)
(* cases; files cut short at every node.                                      *)
OneCase == InOneSuite(1, Cases(UpTo(3, Content)))
           \cup InOneSuite(1, Cases({a \o b : a \in Odd, b \in Odd \cup Known}))
           \cup InOneSuite(1, {b \o c : b \in Cases(Odd), c \in Cases({Failure})})
ThreeCases == InOneSuite(1, UpTo(3, SomeCases)) \cup InOneSuite(NoValue, UpTo(2, SomeCases))
Raised(body) == [k \in DOMAIN body |-> [body[k] EXCEPT !.depth = @ - 1]]
SuiteInSuite ==
    {File(Suite(0, s, Raised(a) \o Suite(1, t, b) \o Raised(c))) :
        s, t \in {1, 2, NoValue}, a, b, c \in Cases({Failure, WithId}) \cup {EmptyCase}}
Cut ==
    UNION {{[nodes |-> SubSeq(d.nodes, 1, n), wellFormed |-> FALSE] : n \in 0 .. Len(d.nodes) - 1} :
             d \in InOneSuite(1, UpTo(2, SomeCases))}

AllDocuments == OneCase \cup ThreeCases \cup SuiteInSuite \cup Cut
=============================================================================
