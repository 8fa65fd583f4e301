----------------------------- MODULE MCImporter -----------------------------
(* Instances of Importer for TLC.                                           *)
EXTENDS Importer

CONSTANT NoId

Case(scenName, scenAlt, caseProp, caseName, caseAlt) ==
    [scenName |-> scenName, scenAlt |-> scenAlt, caseProp |-> caseProp,
     caseName |-> caseName, caseAlt |-> caseAlt]

(* Two scenarios, 0 (the lowest id the resolver accepts) and 1.             *)
ScenarioIds == {0, 1}

(* A test case of either scenario named in full, one without a scenario,    *)
(* one without a case id, one whose class carries the ids, one with the     *)
(* property in place of the id in the name, and one the property unmaps.    *)
Plain0 == Case(0, 0, NoId, 7, 7)
Plain1 == Case(1, 1, NoId, 8, 8)
NoScenario == Case(NoId, NoId, NoId, 7, 7)
NoCase == Case(0, 0, NoId, NoId, NoId)
ByClass == Case(NoId, 1, NoId, NoId, 9)
ByProperty == Case(1, 1, 5, 8, 8)
ZeroProperty == Case(0, 0, 0, 7, 7)
MCCases == {Plain0, Plain1, NoScenario, NoCase, ByClass, ByProperty, ZeroProperty}

WellFormed(tests) == [wellFormed |-> TRUE, tests |-> tests]
Malformed == [wellFormed |-> FALSE, tests |-> <<>>]

FilesUpTo(n) ==
    {Malformed} \cup {WellFormed(t) : t \in UNION {[1 .. k -> MCCases] : k \in 0 .. n}}

(* No file; one file of up to three test cases; two files of at most one    *)
(* test case each.                                                          *)
MCInputs ==
    {<<>>} \cup {<<f>> : f \in FilesUpTo(3)} \cup {<<f, g>> : f, g \in FilesUpTo(1)}

SmallInputs ==
    {<<>>} \cup {<<f, g>> : f, g \in {Malformed, WellFormed(<<>>), WellFormed(<<Plain0, Plain1>>),
                                      WellFormed(<<NoCase>>), WellFormed(<<Plain0, ZeroProperty>>)}}

AllOptions == Options
Defaults == {[dryRun |-> FALSE, skipUnmapped |-> TRUE, failOnUnmapped |-> FALSE]}
=============================================================================
