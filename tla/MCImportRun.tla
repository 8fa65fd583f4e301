---------------------------- MODULE MCImportRun ----------------------------
(* Instances of ImportRun for TLC.                                          *)
EXTENDS ImportRun

CONSTANT NoId

Case(scenario, case) ==
    [scenName |-> scenario, scenAlt |-> scenario, caseProp |-> NoId,
     caseName |-> case, caseAlt |-> case]

ScenarioIds == {0, 1}
A == Case(0, 7)
B == Case(1, 8)
Unmapped == Case(NoId, 7)

WellFormed(tests) == [wellFormed |-> TRUE, tests |-> tests]
Malformed == [wellFormed |-> FALSE, tests |-> <<>>]

(* What may be configured.  "dir" holds the two report files that make two  *)
(* groups, of one and of two executions, and one of them is also named by   *)
(* itself; "twins" holds two files that differ in nothing but case.         *)
ReportNames == {"blank", "dir", "twins", "one", "other", "odd", "bad", "gone"}
ReportPlaces == (ReportNames \ {"blank"}) \cup {"ONE", "stdin"}
FoldCase == [p \in ReportPlaces |-> IF p = "ONE" THEN "one" ELSE p]
ReportContent ==
    [p \in ReportPlaces |->
        CASE p = "other" -> WellFormed(<<A, B>>)
          [] p \in {"one", "stdin"} -> WellFormed(<<A>>)
          [] p = "ONE" -> WellFormed(<<B>>)
          [] p = "odd" -> WellFormed(<<A, Unmapped>>)
          [] OTHER -> Malformed]

Layout(paths, stdin) ==
    [paths |-> paths, stdin |-> stdin,
     full |-> [n \in ReportNames |-> IF n = "blank" THEN "gone" ELSE n],
     kind |-> [p \in ReportPlaces |-> CASE p \in {"dir", "twins"} -> "folder"
                                         [] p = "gone" -> "missing"
                                         [] OTHER -> "file"],
     accepted |-> ReportPlaces \ {"other"},
     listing |-> [p \in ReportPlaces |-> CASE p = "dir" -> <<"other", "one">>
                                            [] p = "twins" -> <<"one", "ONE">>
                                            [] OTHER -> <<>>]]

(* A file found twice; a file with an unmapped test case; a malformed file  *)
(* after a good one; two files taken for one; nothing to be found; and the  *)
(* standard input with a report, with nothing, or not redirected.           *)
RunLayouts ==
    {Layout(paths, "off") :
        paths \in {<<"one", "dir">>, <<"blank", "odd">>, <<"one", "bad">>,
                   <<"twins">>, <<"gone", "other">>, <<>>}}
    \cup {Layout(<<>>, stdin) : stdin \in {"text", "blank", "terminal"}}

OneFile == {Layout(<<"one">>, "off")}

RunOptions == {
    [dryRun |-> FALSE, skipUnmapped |-> TRUE, failOnUnmapped |-> FALSE],
    [dryRun |-> FALSE, skipUnmapped |-> FALSE, failOnUnmapped |-> TRUE],
    [dryRun |-> TRUE, skipUnmapped |-> TRUE, failOnUnmapped |-> FALSE] }
Defaults == {[dryRun |-> FALSE, skipUnmapped |-> TRUE, failOnUnmapped |-> FALSE]}

Spans == {5000}
Cap == 3000
Delays == 100000
=============================================================================
