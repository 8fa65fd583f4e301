--------------------------- MODULE ImportRunProofs ---------------------------
(***************************************************************************)
(* Proofs about ImportRun, for every layout of the file system, every       *)
(* content of the files and every configuration of the client.              *)
(***************************************************************************)
EXTENDS ImportRun, FiniteSetTheorems, TLAPS

----------------------------------------------------------------------------
(* Discovery.                                                               *)

\* One of the results r is p, or differs from p in nothing but case.
Found(r, p) == \E i \in DOMAIN r : Fold[r[i]] = Fold[p]

\* The results are wanted files, no two of them equal up to case.
ResultsInv ==
    /\ layout \in Layouts
    /\ results \in Seq(Places)
    /\ \A i \in DOMAIN results : results[i] \in D!Wanted(layout)
    /\ \A i, j \in DOMAIN results : Fold[results[i]] = Fold[results[j]] => i = j

\* The loops have a result for all that lies behind them.
LoopInv ==
    /\ path \in Nat \ {0} /\ entry \in Nat \ {0}
    /\ at = "stdin" => layout.paths = <<>> /\ results = <<>>
    /\ at \in {"paths", "folder"} =>
         /\ layout.paths = <<>> => layout.stdin = "off"
         /\ \A k \in DOMAIN layout.paths :
              k < path => \A p \in D!WantedAt(layout, k) : Found(results, p)
    /\ at = "folder" =>
         /\ path \in DOMAIN layout.paths
         /\ layout.paths[path] # Blank
         /\ layout.kind[D!Place(path)] = "folder"
         /\ \A e \in DOMAIN D!Folder : e < entry => Found(results, D!Folder[e])

DiscoveryInv == ResultsInv /\ LoopInv /\ DiscoversExactly

\* The parts of a layout.
LEMMA LayoutParts ==
  ASSUME NEW l \in Layouts
  PROVE  /\ l.paths \in Seq(Names)
         /\ l.full \in [Names -> Places]
         /\ l.listing \in [Places -> Seq(Places)]
         /\ l.kind \in [Places -> {"file", "folder", "missing"}]
  BY LayoutsAssumption DEF D!LayoutType

\* Whatever a path stands for is a place, and wanted by the layout.
LEMMA WantedPlaces ==
  ASSUME NEW l \in Layouts
  PROVE  /\ \A k \in DOMAIN l.paths :
              D!WantedAt(l, k) \subseteq Places /\ D!WantedAt(l, k) \subseteq D!Wanted(l)
         /\ D!Wanted(l) \subseteq Places
<1>1. \A k \in DOMAIN l.paths : D!WantedAt(l, k) \subseteq Places
  BY DEF D!WantedAt
<1>2. ASSUME NEW k \in DOMAIN l.paths
      PROVE  D!WantedAt(l, k) \subseteq D!Wanted(l)
  <2>1. l.paths # <<>>
    BY <1>2
  <2>2. QED
    BY <1>2, <2>1 DEF D!Wanted
<1>3. D!Wanted(l) \subseteq Places
  BY <1>1, LayoutsAssumption DEF D!Wanted
<1>4. QED
  BY <1>1, <1>2, <1>3

\* They depend on nothing but the layout.
LEMMA WantedRests ==
  ASSUME UNCHANGED layout
  PROVE  /\ D!Wanted(layout)' = D!Wanted(layout)
         /\ \A k : D!WantedAt(layout, k)' = D!WantedAt(layout, k)
  BY DEF D!Wanted, D!WantedAt

\* Add keeps what is found, finds its argument stand, and adds only that.
LEMMA AddFinds ==
  ASSUME ResultsInv, NEW STATE p, p \in Places, p \in D!Wanted(layout), D!Add(p), UNCHANGED layout
  PROVE  /\ ResultsInv'
         /\ \A q : Found(results, q) => Found(results', q)
         /\ Found(results', p)
<1>1. CASE Found(results, p)
  <2>1. results' = results
    BY <1>1 DEF D!Add, Found
  <2>2. QED
    BY <1>1, <2>1 DEF Found, ResultsInv
<1>2. CASE ~Found(results, p)
  <2>1. results' = Append(results, p)
    BY <1>2 DEF D!Add, Found
  <2> DEFINE n == Len(results)
  <2>2. /\ n \in Nat
        /\ DOMAIN results = 1 .. n
        /\ results' \in Seq(Places)
        /\ DOMAIN results' = 1 .. n + 1
        /\ \A i \in 1 .. n : results'[i] = results[i]
        /\ results'[n + 1] = p
    BY <2>1 DEF ResultsInv
  <2> HIDE DEF n
  <2>3. \A i \in 1 .. n + 1 : i \in 1 .. n \/ i = n + 1
    BY <2>2
  <2>4. \A i \in 1 .. n : Fold[results[i]] # Fold[p]
    BY <1>2, <2>2 DEF Found
  <2>5. ResultsInv'
    BY <2>2, <2>3, <2>4 DEF ResultsInv
  <2>6. 1 .. n \subseteq 1 .. n + 1 /\ n + 1 \in 1 .. n + 1
    BY <2>2
  <2>7. \A q : Found(results, q) => Found(results', q)
    BY <2>2, <2>6 DEF Found
  <2>8. Found(results', p)
    BY <2>2, <2>6 DEF Found
  <2>9. QED
    BY <2>5, <2>7, <2>8
<1>3. QED
  BY <1>1, <1>2

(* Before DiscoverAsync runs it has found nothing and visited nothing. *)
LEMMA DiscoveryInit == Init => DiscoveryInv
<1> SUFFICES ASSUME Init PROVE DiscoveryInv
  OBVIOUS
<1>1. /\ layout \in Layouts /\ path = 1 /\ entry = 1 /\ results = <<>>
      /\ at = IF layout.paths = <<>> /\ layout.stdin # "off" THEN "stdin" ELSE "paths"
  BY DEF Init, D!Init
<1>2. layout.stdin \in {"off", "terminal", "blank", "text"} /\ layout.paths \in Seq(Names)
  BY <1>1, LayoutsAssumption DEF D!LayoutType
<1>3. ResultsInv
  BY <1>1 DEF ResultsInv
<1>4. LoopInv
  BY <1>1, <1>2 DEF LoopInv
<1>5. DiscoversExactly
  BY <1>1 DEF DiscoversExactly, D!DiscoversExactly
<1>6. QED
  BY <1>3, <1>4, <1>5 DEF DiscoveryInv

\* A round of the outer loop that leaves path behind, its files found.
LEMMA PathPassed ==
  ASSUME DiscoveryInv, at \in {"paths", "folder"}, at' = "paths", path' = path + 1,
         UNCHANGED <<layout, entry>>, path \in DOMAIN layout.paths,
         ResultsInv', \A q : Found(results, q) => Found(results', q),
         \A p \in D!WantedAt(layout, path) : Found(results', p)
  PROVE  DiscoveryInv'
<1>1. layout.paths \in Seq(Names) /\ path \in Nat \ {0} /\ path + 1 \in Nat \ {0}
  BY LayoutParts DEF DiscoveryInv, ResultsInv, LoopInv
<1>2. \A k \in DOMAIN layout.paths : k < path + 1 => k < path \/ k = path
  BY <1>1
<1>3. \A k \in DOMAIN layout.paths :
        k < path => \A p \in D!WantedAt(layout, k) : Found(results', p)
  BY DEF DiscoveryInv, LoopInv
<1>4. \A k \in DOMAIN layout'.paths :
        k < path' => \A p \in D!WantedAt(layout', k) : Found(results', p)
  BY <1>2, <1>3
<1>5. (\A k \in DOMAIN layout.paths :
         k < path => \A p \in D!WantedAt(layout, k) : Found(results, p))'
  BY <1>4, WantedRests DEF Found
<1>6. layout'.paths = <<>> => layout'.stdin = "off"
  BY DEF DiscoveryInv, LoopInv
<1>7. LoopInv'
  BY <1>1, <1>5, <1>6 DEF DiscoveryInv, LoopInv
<1>8. DiscoversExactly'
  BY DEF DiscoversExactly, D!DiscoversExactly
<1>9. QED
  BY <1>7, <1>8 DEF DiscoveryInv

(* One turn of the loop over the given paths keeps what was found equal to what was asked for so
   far. *)
LEMMA SearchKeeps == DiscoveryInv /\ D!LoopStep => DiscoveryInv'
<1> SUFFICES ASSUME DiscoveryInv, D!LoopStep PROVE DiscoveryInv'
  OBVIOUS
<1>0. /\ layout \in Layouts /\ layout.paths \in Seq(Names)
      /\ path \in Nat \ {0} /\ entry \in Nat \ {0} /\ ResultsInv /\ LoopInv
  BY LayoutParts DEF DiscoveryInv, ResultsInv, LoopInv
<1>1. CASE D!SkipBlank \/ D!IgnorePath
  <2>1. /\ at = "paths" /\ at' = "paths" /\ path' = path + 1 /\ path =< Len(layout.paths)
        /\ UNCHANGED <<layout, entry, results>>
    BY <1>1 DEF D!SkipBlank, D!IgnorePath, D!Finds, D!AtPath, D!NextPath
  <2>2. path \in DOMAIN layout.paths
    BY <1>0, <2>1
  <2>3. D!WantedAt(layout, path) = {}
    BY <1>1 DEF D!SkipBlank, D!IgnorePath, D!Finds, D!WantedAt, D!Place
  <2>4. ResultsInv' /\ \A q : Found(results, q) => Found(results', q)
    BY <1>0, <2>1 DEF ResultsInv, Found
  <2>5. QED
    BY <2>1, <2>2, <2>3, <2>4, PathPassed
<1>2. CASE D!AddFile
  <2>1. /\ at = "paths" /\ at' = "paths" /\ path' = path + 1 /\ path =< Len(layout.paths)
        /\ UNCHANGED <<layout, entry>> /\ D!Add(D!Place(path))
        /\ layout.paths[path] # Blank /\ layout.kind[D!Place(path)] = "file"
        /\ D!Place(path) \in layout.accepted
    BY <1>2 DEF D!AddFile, D!Finds, D!AtPath, D!NextPath
  <2>2. path \in DOMAIN layout.paths
    BY <1>0, <2>1
  <2>3. D!WantedAt(layout, path) \subseteq {D!Place(path)}
    BY <2>1 DEF D!WantedAt, D!Place
  <2>4. D!Place(path) \in Places /\ D!Place(path) \in D!Wanted(layout)
    <3>1. D!Place(path) \in Places
      BY <1>0, <2>2, LayoutParts DEF D!Place
    <3>2. D!Place(path) \in D!WantedAt(layout, path)
      BY <2>1, <3>1 DEF D!WantedAt, D!Place
    <3>3. QED
      BY <1>0, <2>2, <3>1, <3>2, WantedPlaces
  <2>5. /\ ResultsInv' /\ \A q : Found(results, q) => Found(results', q)
        /\ Found(results', D!Place(path))
    BY <1>0, <2>1, <2>4, AddFinds
  <2>6. QED
    BY <2>1, <2>2, <2>3, <2>5, PathPassed
<1>3. CASE D!OpenFolder
  <2>1. /\ at = "paths" /\ at' = "folder" /\ entry' = 1 /\ path =< Len(layout.paths)
        /\ UNCHANGED <<layout, path, results>>
        /\ layout.paths[path] # Blank /\ layout.kind[D!Place(path)] = "folder"
    BY <1>3 DEF D!OpenFolder, D!Finds, D!AtPath
  <2>2. path \in DOMAIN layout.paths
    BY <1>0, <2>1
  <2>3. \A e \in DOMAIN D!Folder : ~(e < 1)
    BY <1>0, <2>2, LayoutParts DEF D!Folder, D!Place
  <2>4. ResultsInv' /\ DiscoversExactly'
    BY <1>0, <2>1 DEF ResultsInv, DiscoversExactly, D!DiscoversExactly
  <2>5. (D!Folder)' = D!Folder /\ (D!Place(path))' = D!Place(path)
    BY <2>1 DEF D!Folder, D!Place
  <2>6. LoopInv'
    BY <1>0, <2>1, <2>2, <2>3, <2>5, WantedRests DEF LoopInv, Found
  <2>7. QED
    BY <2>4, <2>6 DEF DiscoveryInv
<1>4. CASE D!AddEntry
  <2>1. /\ at = "folder" /\ at' = "folder" /\ entry =< Len(D!Folder) /\ entry' = entry + 1
        /\ UNCHANGED <<layout, path>> /\ D!Add(D!Folder[entry])
    BY <1>4 DEF D!AddEntry
  <2>2. /\ path \in DOMAIN layout.paths /\ layout.paths[path] # Blank
        /\ layout.kind[D!Place(path)] = "folder"
        /\ \A e \in DOMAIN D!Folder : e < entry => Found(results, D!Folder[e])
        /\ \A k \in DOMAIN layout.paths :
             k < path => \A p \in D!WantedAt(layout, k) : Found(results, p)
    BY <1>0, <2>1 DEF LoopInv
  <2>3. D!Folder \in Seq(Places)
    BY <1>0, <2>2, LayoutParts DEF D!Folder, D!Place
  <2>4. entry \in DOMAIN D!Folder /\ \A e \in DOMAIN D!Folder : e < entry + 1 => e < entry \/ e = entry
    BY <1>0, <2>1, <2>3
  <2>5. D!Folder[entry] \in D!WantedAt(layout, path)
    <3>1. D!Folder[entry] \in Places
      BY <2>3, <2>4
    <3>2. QED
      BY <2>2, <2>4, <3>1 DEF D!WantedAt, D!Folder, D!Place
  <2>6. D!Folder[entry] \in Places /\ D!Folder[entry] \in D!Wanted(layout)
    BY <1>0, <2>2, <2>5, WantedPlaces
  <2>8. /\ ResultsInv' /\ (\A q : Found(results, q) => Found(results', q))
        /\ Found(results', D!Folder[entry])
    BY <1>0, <2>1, <2>6, AddFinds
  <2>9. \A e \in DOMAIN D!Folder : e < entry + 1 => Found(results', D!Folder[e])
    BY <2>2, <2>4, <2>8
  <2>10. (D!Folder)' = D!Folder /\ (D!Place(path))' = D!Place(path)
    BY <2>1 DEF D!Folder, D!Place
  <2>11. \A k \in DOMAIN layout.paths : k < path =>
           \A q \in D!WantedAt(layout, k) : Found(results', q)
    BY <2>2, <2>8
  <2>12. LoopInv'
    BY <1>0, <2>1, <2>2, <2>9, <2>10, <2>11, WantedRests DEF LoopInv, Found
  <2>13. DiscoversExactly'
    BY <2>1 DEF DiscoversExactly, D!DiscoversExactly
  <2>14. QED
    BY <2>8, <2>12, <2>13 DEF DiscoveryInv
<1>5. CASE D!CloseFolder
  <2>1. /\ at = "folder" /\ at' = "paths" /\ path' = path + 1 /\ entry > Len(D!Folder)
        /\ UNCHANGED <<layout, entry, results>>
    BY <1>5 DEF D!CloseFolder
  <2>2. /\ path \in DOMAIN layout.paths /\ layout.paths[path] # Blank
        /\ layout.kind[D!Place(path)] = "folder"
        /\ \A e \in DOMAIN D!Folder : e < entry => Found(results, D!Folder[e])
    BY <1>0, <2>1 DEF LoopInv
  <2>3. D!Folder \in Seq(Places)
    BY <1>0, <2>2, LayoutParts DEF D!Folder, D!Place
  <2>4. \A e \in DOMAIN D!Folder : e < entry
    BY <1>0, <2>1, <2>3
  <2>5. D!WantedAt(layout, path) \subseteq {D!Folder[e] : e \in DOMAIN D!Folder}
    BY <2>2 DEF D!WantedAt, D!Folder, D!Place
  <2>6. ResultsInv' /\ \A q : Found(results, q) => Found(results', q)
    BY <1>0, <2>1 DEF ResultsInv, Found
  <2>7. \A q \in D!WantedAt(layout, path) : Found(results', q)
    BY <2>2, <2>4, <2>5, <2>6
  <2>8. QED
    BY <2>1, <2>2, <2>6, <2>7, PathPassed
<1>6. CASE D!LoopCanceled \/ D!FolderFails
  <2>1. at' \in {"canceled", "faulted"} /\ UNCHANGED <<layout, path, entry, results>>
    BY <1>6 DEF D!LoopCanceled, D!FolderFails, D!End
  <2>2. QED
    BY <1>0, <2>1 DEF DiscoveryInv, ResultsInv, LoopInv, DiscoversExactly, D!DiscoversExactly
<1>7. CASE D!ReturnFiles
  <2>1. /\ at = "paths" /\ at' = "returned" /\ path > Len(layout.paths)
        /\ UNCHANGED <<layout, path, entry, results>>
    BY <1>7 DEF D!ReturnFiles, D!End
  <2>2. \A k \in DOMAIN layout.paths : \A p \in D!WantedAt(layout, k) : Found(results, p)
    BY <1>0, <2>1 DEF LoopInv
  <2>3. \A p \in D!Wanted(layout) : Found(results, p)
    BY <1>0, <2>1, <2>2 DEF D!Wanted, LoopInv
  <2>4. ResultsInv' /\ LoopInv'
    BY <1>0, <2>1 DEF ResultsInv, LoopInv
  <2>5. DiscoversExactly'
    BY <1>0, <2>1, <2>3, WantedRests DEF DiscoversExactly, D!DiscoversExactly, ResultsInv, Found
  <2>6. QED
    BY <2>4, <2>5 DEF DiscoveryInv
<1>8. CASE D!ReturnNothing
  <2>1. /\ at = "stdin" /\ at' = "returned" /\ layout.stdin = "terminal"
        /\ UNCHANGED <<layout, path, entry, results>>
    BY <1>8 DEF D!ReturnNothing, D!End
  <2>2. D!Wanted(layout) = {} /\ results = <<>>
    BY <1>0, <2>1 DEF D!Wanted, LoopInv
  <2>3. QED
    BY <1>0, <2>1, <2>2 DEF DiscoveryInv, ResultsInv, LoopInv, DiscoversExactly, D!DiscoversExactly, D!Wanted
<1>9. QED
  BY <1>1, <1>2, <1>3, <1>4, <1>5, <1>6, <1>7, <1>8 DEF D!LoopStep

(* Standard input that ends, or fails, leaves at most the one file written from it. *)
LEMMA StdinKeeps == DiscoveryInv /\ (D!StdinEnds \/ D!StdinThrows) => DiscoveryInv'
<1> SUFFICES ASSUME DiscoveryInv, D!StdinEnds \/ D!StdinThrows PROVE DiscoveryInv'
  OBVIOUS
<1>1. ResultsInv /\ LoopInv /\ at = "stdin" /\ layout.paths = <<>>
  BY DEF DiscoveryInv, LoopInv, D!StdinEnds, D!StdinThrows
<1>2. CASE D!StdinThrows
  <2>1. at' \in {"canceled", "faulted"} /\ UNCHANGED <<layout, path, entry, results>>
    BY <1>2 DEF D!StdinThrows, D!End
  <2>2. QED
    BY <1>1, <2>1 DEF DiscoveryInv, ResultsInv, LoopInv, DiscoversExactly, D!DiscoversExactly
<1>3. CASE D!StdinEnds
  <2>1. /\ at' = "returned" /\ UNCHANGED <<layout, path, entry>>
        /\ results' = IF layout.stdin = "text" THEN <<TempFile>> ELSE <<>>
    BY <1>3 DEF D!StdinEnds, D!End
  <2>2. D!Wanted(layout) = IF layout.stdin = "text" THEN {TempFile} ELSE {}
    BY <1>1 DEF D!Wanted
  <2>3. (D!Wanted(layout))' = D!Wanted(layout)
    BY <2>1 DEF D!Wanted, D!WantedAt
  <2>4. ResultsInv'
    BY <1>1, <2>1, <2>2, <2>3, LayoutsAssumption DEF ResultsInv
  <2>5. LoopInv'
    BY <1>1, <2>1 DEF LoopInv
  <2>6. DiscoversExactly'
    BY <2>1, <2>2, <2>3 DEF DiscoversExactly, D!DiscoversExactly
  <2>7. QED
    BY <2>4, <2>5, <2>6 DEF DiscoveryInv
<1>4. QED
  BY <1>2, <1>3

\* No other step touches what discovery has.
LEMMA DiscoveryRests ==
  ASSUME DiscoveryInv, UNCHANGED search
  PROVE  DiscoveryInv'
<1>1. UNCHANGED <<layout, at, path, entry, results>>
  BY DEF search
<1>2. /\ (D!Folder)' = D!Folder /\ (D!Place(path))' = D!Place(path)
      /\ D!Wanted(layout)' = D!Wanted(layout)
      /\ \A k : D!WantedAt(layout, k)' = D!WantedAt(layout, k)
  BY <1>1, WantedRests DEF D!Folder, D!Place
<1>3. ResultsInv'
  BY <1>1 DEF DiscoveryInv, ResultsInv
<1>4. LoopInv'
  BY <1>1, <1>2 DEF DiscoveryInv, LoopInv, Found
<1>5. DiscoversExactly'
  BY <1>1, <1>2 DEF DiscoveryInv, DiscoversExactly, D!DiscoversExactly
<1>6. QED
  BY <1>3, <1>4, <1>5 DEF DiscoveryInv

(* Every step of the run keeps the invariant of the discovery. *)
LEMMA DiscoveryStep == DiscoveryInv /\ [Next]_vars => DiscoveryInv'
<1> SUFFICES ASSUME DiscoveryInv, [Next]_vars PROVE DiscoveryInv'
  OBVIOUS
<1>1. CASE SearchStep
  BY <1>1, SearchKeeps DEF SearchStep
<1>2. CASE StdinStep
  BY <1>2, StdinKeeps DEF StdinStep
<1>3. CASE ~SearchStep /\ ~StdinStep
  <2>1. UNCHANGED search
    BY <1>3 DEF Next, ProcessStep, vars, Gone, RejectConfiguration, Start, Exit, Discover,
         PipelineStep, SubmitGroup, ClientStep, ClientReturns, CancelKeyPress, ServiceStep
  <2>2. QED
    BY <2>1, DiscoveryRests
<1>4. QED
  BY <1>1, <1>2, <1>3

\* Whatever the layout and wherever the call is cancelled or fails: if
\* DiscoverAsync returns, it returns each file the paths stand for once.
THEOREM RunDiscovers == Spec => []DiscoversExactly
<1>1. DiscoveryInv => DiscoversExactly
  BY DEF DiscoveryInv
<1>2. QED
  BY <1>1, DiscoveryInit, DiscoveryStep, PTL DEF Spec

----------------------------------------------------------------------------
(* The list of files handed to the pipeline is one of its inputs.           *)

\* Discovery cannot find more files than the layout stands for.
LEMMA FewResults == ResultsInv => Len(results) =< MaxFiles
<1> SUFFICES ASSUME ResultsInv PROVE Len(results) =< MaxFiles
  OBVIOUS
<1> DEFINE n == Len(results)
           W == D!Wanted(layout)
           f == [i \in 1 .. n |-> Fold[results[i]]]
           T == {Fold[p] : p \in W}
<1>1. n \in Nat /\ results \in [1 .. n -> Places] /\ DOMAIN results = 1 .. n
  BY DEF ResultsInv
<1>2. IsFiniteSet(W)
  BY WantedPlaces, ContentAssumption, FS_Subset DEF ResultsInv
<1>3. Cardinality(W) \in Nat /\ Cardinality(W) =< MaxFiles /\ MaxFiles \in Nat
  BY <1>2, FS_CardinalityType, MaxFilesAssumption DEF ResultsInv
<1>4. results \in Injection(1 .. n, W)
  BY <1>1 DEF ResultsInv, Injection, IsInjective
<1>5. Cardinality(1 .. n) =< Cardinality(W)
  BY <1>2, <1>4, FS_Injection
<1>6. Cardinality(1 .. n) = n
  BY <1>1, FS_Interval
<1>7. QED
  BY <1>1, <1>3, <1>5, <1>6

(* What the discovery hands to the importer is one of the inputs the importer is modelled with. *)
LEMMA FilesAreInput ==
  ASSUME ResultsInv
  PROVE  [i \in 1 .. Len(results) |-> Content[results[i]]] \in Inputs
<1>1. Len(results) \in Nat /\ Len(results) =< MaxFiles /\ MaxFiles \in Nat
  BY FewResults, MaxFilesAssumption DEF ResultsInv
<1>2. \A i \in 1 .. Len(results) : results[i] \in Places
  BY DEF ResultsInv
<1>3. Len(results) \in 0 .. MaxFiles
  BY <1>1
<1>4. [i \in 1 .. Len(results) |-> Content[results[i]]]
        \in [1 .. Len(results) -> {Content[p] : p \in Places}]
  BY <1>2
<1>5. QED
  BY <1>3, <1>4 DEF Inputs

----------------------------------------------------------------------------
(* The calls of the client.                                                 *)

\* How a call for the batch b may have ended.
Endings(b) == {C!Succeeded(b), C!Failed(b), C!Thrown("faulted"), C!Thrown("canceled")}

\* The client works for the pipeline on the group it awaits, and only then;
\* before the submission it has done nothing.
CallInv ==
    /\ phase # "idle" => pc = "await" /\ batch = groups[current]
    /\ pc = "await" => current \in Scenarios
    /\ pc = "await" /\ phase = "idle" => result \in Endings(groups[current])
    /\ pc \in {"discover", "file", "parse", "test"} => sent = {} /\ ~bearer
    /\ PostsCarryGroups

\* What a step of a call does to the caller: the batch stays, a request is for
\* that batch, and a call that ends has a result for it.
LEMMA CallSteps ==
  ASSUME C!CallStep
  PROVE  /\ phase # "idle" /\ batch' = batch
         /\ \A r \in sent' : r \in sent \/ r.batch = batch
         /\ phase' = "idle" => result' \in Endings(batch)
<1> USE DEF Endings, C!End, C!service, C!history
<1>1. CASE C!AuthAccepted
  BY <1>1 DEF C!AuthAccepted
<1>2. CASE \/ C!AuthFails \/ C!AuthTimesOutOrCanceled \/ C!LoopCanceled \/ C!SendCanceled
           \/ C!WaitCanceled
  BY <1>2 DEF C!AuthFails, C!AuthTimesOutOrCanceled, C!LoopCanceled, C!SendCanceled,
     C!WaitCanceled
<1>3. CASE C!SendPost
  <2>1. phase = "send" /\ phase' = "post" /\ batch' = batch /\ sent' = sent \cup {C!Current}
    BY <1>3 DEF C!SendPost
  <2>2. C!Current.batch = batch
    BY DEF C!Current, C!Request
  <2>3. QED
    BY <2>1, <2>2
<1>4. CASE C!PostAccepted \/ C!PostRejected
  BY <1>4 DEF C!PostAccepted, C!PostRejected
<1>5. CASE C!PostTransient \/ C!PostTimesOut
  <2>1. phase = "post" /\ sent' = sent /\ \E after : C!RetryOrFail(after)
    BY <1>5 DEF C!PostTransient, C!PostTimesOut
  <2>2. QED
    BY <2>1 DEF C!RetryOrFail
<1>6. CASE C!PostCanceled \/ C!PostUnreachable
  BY <1>6 DEF C!PostCanceled, C!PostUnreachable
<1>7. CASE C!BeginAttempt \/ C!WaitElapses
  BY <1>7 DEF C!BeginAttempt, C!WaitElapses
<1>8. QED
  BY <1>1, <1>2, <1>3, <1>4, <1>5, <1>6, <1>7 DEF C!CallStep

(* A run starts with no call of the client under way. *)
LEMMA CallInit == Init => CallInv
  BY DEF Init, I!Init, C!Init, CallInv, PostsCarryGroups

\* The pipeline adds to its groups only while nothing has been sent.
LEMMA GroupsRest ==
  ASSUME I!PipelineStep
  PROVE  /\ pc # "await" /\ pc' # "await" /\ pc # "discover" /\ pc' # "discover"
         /\ pc # "test" => groups' = groups
         /\ pc' \in {"file", "parse", "test"} => pc \in {"file", "parse", "test"}
         /\ UNCHANGED <<options, files>>
BY DEF I!PipelineStep, I!BeginFile, I!LoopCanceled, I!Parse, I!ParseFails, I!MapTest,
     I!SkipTest, I!FailTest, I!EndFile, I!HandleDryRun, I!BeginSubmit, I!EndSubmit,
     I!Return, I!Throw, I!NextTest, I!Collected, I!collecting

(* Every step keeps the client's call in agreement with the pipeline: it posts the groups of the
   pipeline, and only while the pipeline waits. *)
LEMMA CallKeeps == CallInv /\ [Next]_vars => CallInv'
<1> SUFFICES ASSUME CallInv, [Next]_vars PROVE CallInv'
  OBVIOUS
<1> USE DEF CallInv, PostsCarryGroups
<1>1. CASE UNCHANGED <<pipeline, caller>>
  BY <1>1 DEF pipeline, caller, Endings, C!Succeeded, C!Failed, C!Thrown
<1>2. CASE Discover
  <2>1. /\ pc = "discover" /\ pc' \in {"file", "ended"} /\ UNCHANGED <<groups, caller>>
    BY <1>2 DEF Discover, I!Discover, I!DiscoverCanceled, I!DiscoverFails, I!Throw, I!collecting
  <2>2. QED
    BY <2>1 DEF caller
<1>3. CASE PipelineStep
  <2>1. I!PipelineStep /\ UNCHANGED caller
    BY <1>3 DEF PipelineStep
  <2>2. QED
    BY <2>1, GroupsRest DEF caller
<1>4. ASSUME NEW s \in Scenarios, SubmitGroup(s)
      PROVE  CallInv'
  <2>1. /\ pc' = "await" /\ current' = s /\ batch' = groups[s] /\ UNCHANGED <<groups, sent>>
        /\ phase' \in {"auth", "loop"}
    BY <1>4 DEF SubmitGroup, I!SubmitGroup, C!Submit, I!collecting
  <2>2. QED
    BY <1>4, <2>1
<1>5. CASE ClientStep
  <2>1. C!CallStep /\ UNCHANGED pipeline
    BY <1>5 DEF ClientStep
  <2>2. UNCHANGED <<pc, groups, current>>
    BY <2>1 DEF pipeline
  <2>3. pc = "await" /\ batch = groups[current] /\ current \in Scenarios
    BY <2>1, CallSteps
  <2>4. QED
    BY <2>1, <2>2, <2>3, CallSteps
<1>6. CASE ClientReturns
  <2>1. pc' \in {"submit", "ended"} /\ phase = "idle" /\ UNCHANGED <<groups, caller>>
    BY <1>6 DEF ClientReturns, I!GroupPosted, I!GroupFailed, I!GroupThrows, I!Throw, I!collecting
  <2>2. QED
    BY <2>1 DEF caller
<1>7. CASE ServiceStep
  <2>1. UNCHANGED <<pipeline, phase, batch, result, bearer, sent>>
    BY <1>7 DEF ServiceStep, C!TokenExpires, C!ServiceHandles, C!client, C!history
  <2>2. QED
    BY <2>1 DEF pipeline
<1>8. QED
  BY <1>1, <1>2, <1>3, <1>4, <1>5, <1>6, <1>7 DEF Next, ProcessStep, vars, Gone,
     RejectConfiguration, Start, Exit, SearchStep, StdinStep, CancelKeyPress

\* However the service and the network behave: every request there is carries
\* the whole group of one scenario.
THEOREM RunCarriesGroups == Spec => []PostsCarryGroups
<1>1. CallInv => PostsCarryGroups
  BY DEF CallInv
<1>2. QED
  BY <1>1, CallInit, CallKeeps, PTL DEF Spec

----------------------------------------------------------------------------
(* The process implements the pipeline with an abstract client.             *)

\* The pipeline of a process that starts is one that starts.
LEMMA ImporterInit == Init => I!Init
  BY DEF Init

\* The instances count as this module does.
LEMMA SameCardinality ==
  ASSUME NEW S
  PROVE  C!Cardinality(S) = Cardinality(S) /\ I!Cardinality(S) = Cardinality(S)
  BY DEF C!Cardinality, I!Cardinality, Cardinality

\* A verdict comes with the count of the whole batch.
LEMMA EndingCounts ==
  ASSUME NEW b, NEW r \in Endings(b)
  PROVE  /\ r.verdict = "success" => r.posted = Cardinality(b)
         /\ r.verdict = "failure" => r.failed = Cardinality(b)
<1>1. CASE r = C!Succeeded(b)
  BY <1>1, SameCardinality DEF C!Succeeded
<1>2. CASE r = C!Failed(b)
  BY <1>2, SameCardinality DEF C!Failed
<1>3. CASE r = C!Thrown("faulted") \/ r = C!Thrown("canceled")
  BY <1>3 DEF C!Thrown
<1>4. QED
  BY <1>1, <1>2, <1>3 DEF Endings

(* Every step of the composed run is a step or a stutter of the importer alone. *)
LEMMA ImporterStep ==
  ResultsInv /\ CallInv /\ [Next]_vars => [I!Next]_(I!vars)
<1> SUFFICES ASSUME ResultsInv, CallInv, [Next]_vars PROVE [I!Next]_(I!vars)
  OBVIOUS
<1> USE DEF I!vars, I!pipeline, I!collecting, I!submitting, I!ending
<1>1. CASE UNCHANGED <<pipeline, cancelled>>
  BY <1>1 DEF pipeline
<1>2. CASE Discover
  <2>1. CASE at = "returned" /\ I!Discover
    BY <2>1 DEF I!Next, I!RunStep, I!LocalStep
  <2>2. CASE I!DiscoverCanceled \/ I!DiscoverFails
    BY <2>2 DEF I!Next, I!RunStep, I!LocalStep
  <2>3. QED
    BY <1>2, <2>1, <2>2 DEF Discover
<1>3. CASE PipelineStep
  BY <1>3 DEF PipelineStep, I!Next, I!RunStep, I!LocalStep
<1>4. ASSUME NEW s \in Scenarios, SubmitGroup(s)
      PROVE  I!Next
  BY <1>4 DEF SubmitGroup, I!Next, I!RunStep
<1>5. CASE ClientStep
  <2>1. UNCHANGED cancelled
    BY <1>5 DEF ClientStep, C!CallStep, C!AuthAccepted, C!AuthFails, C!AuthTimesOutOrCanceled,
         C!LoopCanceled, C!BeginAttempt, C!SendCanceled, C!SendPost, C!PostAccepted,
         C!PostRejected, C!PostTransient, C!PostTimesOut, C!PostCanceled, C!PostUnreachable,
         C!WaitElapses, C!WaitCanceled
  <2>2. QED
    BY <1>5, <2>1 DEF ClientStep, pipeline
<1>6. CASE ClientReturns
  <2>1. pc = "await" /\ result \in Endings(groups[current])
    BY <1>6 DEF ClientReturns, CallInv
  <2>2. /\ result.verdict = "success" => result.posted = Cardinality(groups[current])
        /\ result.verdict = "failure" => result.failed = Cardinality(groups[current])
    BY <2>1, EndingCounts
  <2>3. I!ClientEnds
    <3>1. CASE result.verdict = "success" /\ I!GroupPosted(result.posted)
      BY <2>2, <3>1, SameCardinality DEF I!ClientEnds
    <3>2. CASE result.verdict = "failure" /\ I!GroupFailed(result.failed)
      BY <2>2, <3>2, SameCardinality DEF I!ClientEnds
    <3>3. CASE result.verdict \in {"canceled", "faulted"} /\ I!GroupThrows(result.verdict)
      BY <3>3 DEF I!ClientEnds
    <3>4. QED
      BY <1>6, <3>1, <3>2, <3>3 DEF ClientReturns
  <2>4. QED
    BY <2>1, <2>3 DEF I!Next
<1>7. CASE CancelKeyPress
  BY <1>7 DEF CancelKeyPress, pipeline, I!CancelKeyPress, I!Next
<1>8. CASE ServiceStep
  BY <1>8 DEF ServiceStep, C!TokenExpires, C!ServiceHandles, pipeline
<1>9. CASE SearchStep \/ StdinStep
  <2>1. UNCHANGED <<pipeline, cancelled>>
    BY <1>9 DEF SearchStep, StdinStep, D!LoopStep, D!SkipBlank, D!AddFile, D!IgnorePath,
         D!OpenFolder, D!AddEntry, D!CloseFolder, D!LoopCanceled, D!FolderFails, D!ReturnFiles,
         D!ReturnNothing, D!StdinEnds, D!StdinThrows, D!End, D!NextPath
  <2>2. QED
    BY <1>1, <2>1
<1>10. QED
  BY <1>1, <1>2, <1>3, <1>4, <1>5, <1>6, <1>7, <1>8, <1>9 DEF Next, ProcessStep, vars, Gone,
     RejectConfiguration, Start, Exit

\* The files of a search that has returned are one of the inputs the pipeline
\* was proved for, with any client that meets its contract: every theorem of
\* ImporterProofs is one about the process.
THEOREM RunImplementsImporter == Spec => ImplementsImporter
<1>1. DiscoveryInv => ResultsInv
  BY DEF DiscoveryInv
<1>2. QED
  BY <1>1, DiscoveryInit, DiscoveryStep, CallInit, CallKeeps, ImporterInit, ImporterStep, PTL
     DEF Spec, ImplementsImporter, I!Safety

----------------------------------------------------------------------------
(* Runs that are refused.                                                   *)

\* What makes a run one to submit.
Accepted ==
    /\ ~options.dryRun
    /\ \A f \in 1 .. Len(files) : files[f].wellFormed
    /\ I!FailsUnmapped =>
         \A f \in 1 .. Len(files) : \A t \in 1 .. Len(files[f].tests) : I!IsMapped(files[f].tests[t])

\* What the loops have passed was acceptable, and nothing leaves the process
\* before they have passed everything.
RefusalInv ==
    /\ Len(files) \in Nat /\ \A f \in 1 .. Len(files) : Len(files[f].tests) \in Nat
    /\ file \in Nat \ {0} /\ pos \in Nat \ {0}
    /\ pc \in {"discover", "file", "parse"} => pos = 1
    /\ pc = "discover" => file = 1
    /\ pc \in {"parse", "test"} => file =< Len(files)
    /\ pc \in {"discover", "file", "parse", "test"} =>
         /\ \A f \in 1 .. Len(files) : f < file => files[f].wellFormed
         /\ pc = "test" => files[file].wellFormed
         /\ I!FailsUnmapped =>
              \A f \in 1 .. Len(files) : \A t \in 1 .. Len(files[f].tests) :
                f < file \/ (f = file /\ t < pos) => I!IsMapped(files[f].tests[t])
    /\ pc \in {"submit", "await"} \/ sent # {} \/ bearer \/ phase # "idle" => Accepted

(* A run starts with nothing refused and nothing sent. *)
LEMMA RefusalInit == Init => RefusalInv
  BY DEF Init, I!Init, C!Init, RefusalInv

(* What leaves the pipeline and the client alone keeps the invariant about refusals. *)
LEMMA RefusalRests ==
  ASSUME RefusalInv, UNCHANGED pipeline, UNCHANGED <<sent, bearer, phase>>
  PROVE  RefusalInv'
<1>1. UNCHANGED <<options, pc, files, file, pos>>
  BY DEF pipeline
<1>2. QED
  BY <1>1 DEF RefusalInv, Accepted, I!FailsUnmapped, I!IsMapped, I!ScenarioId, I!CaseId

\* The collected run that is submitted has been accepted.
LEMMA RefusalPipeline == RefusalInv /\ CallInv /\ PipelineStep => RefusalInv'
<1> SUFFICES ASSUME RefusalInv, CallInv, PipelineStep PROVE RefusalInv'
  OBVIOUS
<1>1. I!PipelineStep /\ UNCHANGED <<options, files, sent, bearer, phase>>
  BY GroupsRest DEF PipelineStep, caller
<1>2. /\ Accepted' = Accepted /\ I!FailsUnmapped' = I!FailsUnmapped
      /\ \A t : I!IsMapped(t)' = I!IsMapped(t)
  BY <1>1 DEF Accepted, I!FailsUnmapped, I!IsMapped, I!ScenarioId, I!CaseId
<1>3. CASE I!BeginFile
  BY <1>1, <1>2, <1>3 DEF I!BeginFile, RefusalInv, I!collecting
<1>4. CASE I!LoopCanceled \/ I!ParseFails \/ I!FailTest \/ I!HandleDryRun \/ I!EndSubmit
  <2>1. pc' = "ended" /\ UNCHANGED <<file, pos>>
    BY <1>4 DEF I!LoopCanceled, I!ParseFails, I!FailTest, I!HandleDryRun, I!EndSubmit,
         I!Return, I!Throw, I!collecting
  <2>2. QED
    BY <1>1, <1>2, <2>1 DEF RefusalInv
<1>5. CASE I!Parse
  BY <1>1, <1>2, <1>5 DEF I!Parse, RefusalInv, I!collecting
<1>6. CASE I!MapTest
  <2>1. /\ pc = "test" /\ pc' = "test" /\ file' = file /\ pos' = pos + 1
        /\ I!IsMapped(files[file].tests[pos])
    BY <1>6 DEF I!MapTest, I!NextTest
  <2>2. \A f \in 1 .. Len(files) : \A t \in 1 .. Len(files[f].tests) :
          f < file \/ (f = file /\ t < pos + 1) =>
            f < file \/ (f = file /\ t < pos) \/ (f = file /\ t = pos)
    BY DEF RefusalInv
  <2>3. QED
    BY <1>1, <1>2, <2>1, <2>2 DEF RefusalInv
<1>7. CASE I!SkipTest
  <2>1. pc = "test" /\ pc' = "test" /\ file' = file /\ pos' = pos + 1 /\ ~I!FailsUnmapped
    BY <1>7 DEF I!SkipTest, I!NextTest
  <2>2. QED
    BY <1>1, <1>2, <2>1 DEF RefusalInv
<1>8. CASE I!EndFile
  <2>1. /\ pc = "test" /\ pc' = "file" /\ file' = file + 1 /\ pos' = 1
        /\ pos > Len(files[file].tests)
    BY <1>8 DEF I!EndFile
  <2>2. \A f \in 1 .. Len(files) : f < file + 1 => f < file \/ f = file
    BY DEF RefusalInv
  <2>3. \A t \in 1 .. Len(files[file].tests) : t < pos
    BY <2>1 DEF RefusalInv
  <2>4. \A f \in 1 .. Len(files) : \A t \in 1 .. Len(files[f].tests) : ~(t < 1)
    BY DEF RefusalInv
  <2>5. QED
    BY <1>1, <1>2, <2>1, <2>2, <2>3, <2>4 DEF RefusalInv
<1>9. CASE I!BeginSubmit
  <2>1. /\ pc = "file" /\ pc' = "submit" /\ file > Len(files) /\ ~options.dryRun
        /\ UNCHANGED <<file, pos>>
    BY <1>9 DEF I!BeginSubmit, I!Collected, I!collecting
  <2>2. \A f \in 1 .. Len(files) : f < file
    BY <2>1 DEF RefusalInv
  <2>3. Accepted
    BY <2>1, <2>2 DEF RefusalInv, Accepted
  <2>4. QED
    BY <1>1, <1>2, <2>1, <2>3 DEF RefusalInv
<1>10. QED
  BY <1>1, <1>3, <1>4, <1>5, <1>6, <1>7, <1>8, <1>9 DEF I!PipelineStep

(* Every step keeps the invariant about refusals: nothing goes out before all the input has
   been found acceptable. *)
LEMMA RefusalKeeps == RefusalInv /\ CallInv /\ ResultsInv /\ [Next]_vars => RefusalInv'
<1> SUFFICES ASSUME RefusalInv, CallInv, ResultsInv, [Next]_vars PROVE RefusalInv'
  OBVIOUS
<1>1. CASE UNCHANGED <<pipeline, caller>>
  BY <1>1, RefusalRests DEF caller
<1>2. CASE Discover
  <2>1. /\ pc = "discover" /\ UNCHANGED <<options, file, pos, sent, bearer, phase>>
    BY <1>2 DEF Discover, I!Discover, I!DiscoverCanceled, I!DiscoverFails, I!Throw,
         I!collecting, caller
  <2>2. sent = {} /\ ~bearer /\ phase = "idle"
    BY <2>1 DEF CallInv
  <2>3. CASE at = "returned"
    <3>1. /\ pc' = "file" /\ files' = [i \in 1 .. Len(results) |-> Content[results[i]]]
      BY <1>2, <2>3 DEF Discover, I!Discover
    <3>2. Len(results) \in Nat /\ \A i \in 1 .. Len(results) : Content[results[i]] \in I!Files
      BY ContentAssumption DEF ResultsInv
    <3>3. Len(files') = Len(results) /\ \A f \in 1 .. Len(files') : files'[f] \in I!Files
      BY <3>1, <3>2
    <3>4. \A f \in 1 .. Len(files') : Len(files'[f].tests) \in Nat
      BY <3>3 DEF I!Files
    <3>5. file = 1 /\ pos = 1
      BY <2>1 DEF RefusalInv
    <3>6. /\ \A f \in 1 .. Len(files') : ~(f < 1)
          /\ \A f \in 1 .. Len(files') : \A t \in 1 .. Len(files'[f].tests) : ~(t < 1)
      BY <3>2, <3>3, <3>4
    <3>7. QED
      BY <2>1, <2>2, <3>1, <3>2, <3>3, <3>4, <3>5, <3>6 DEF RefusalInv
  <2>4. CASE at # "returned"
    <3>1. pc' = "ended" /\ UNCHANGED files
      BY <1>2, <2>4 DEF Discover, I!DiscoverCanceled, I!DiscoverFails, I!Throw, I!collecting
    <3>2. QED
      BY <2>1, <2>2, <3>1 DEF RefusalInv
  <2>5. QED
    BY <2>3, <2>4
<1>3. CASE PipelineStep
  BY <1>3, RefusalPipeline
<1>4. CASE (\E s \in Scenarios : SubmitGroup(s)) \/ ClientStep \/ ClientReturns
  <2>1. /\ pc \in {"submit", "await"} /\ pc' \in {"submit", "await", "ended"}
        /\ UNCHANGED <<options, files, file, pos>>
    BY <1>4, CallSteps DEF SubmitGroup, I!SubmitGroup, ClientStep, ClientReturns, I!GroupPosted,
         I!GroupFailed, I!GroupThrows, I!Throw, I!collecting, pipeline, CallInv
  <2>2. Accepted' = Accepted
    BY <2>1 DEF Accepted, I!FailsUnmapped, I!IsMapped, I!ScenarioId, I!CaseId
  <2>3. QED
    BY <2>1, <2>2 DEF RefusalInv
<1>5. CASE ServiceStep
  <2>1. UNCHANGED <<pipeline, phase, bearer, sent>>
    BY <1>5 DEF ServiceStep, C!TokenExpires, C!ServiceHandles, C!client, C!history
  <2>2. QED
    BY <2>1, RefusalRests
<1>6. QED
  BY <1>1, <1>2, <1>3, <1>4, <1>5 DEF Next, ProcessStep, vars, Gone,
     RejectConfiguration, Start, Exit, SearchStep, StdinStep, CancelKeyPress

\* A dry run and a strict refusal leave the service alone, wherever in whatever
\* input the reason lies.
THEOREM RunRefuses == Spec => []RefusalsAreSilent
<1>1. RefusalInv => RefusalsAreSilent
  <2> SUFFICES ASSUME RefusalInv,
                      options.dryRun
                      \/ (I!FailsUnmapped /\ I!MappedOf(I!Readable) # I!Readable)
               PROVE  sent = {} /\ ~bearer /\ phase = "idle"
    BY DEF RefusalsAreSilent
  <2>1. CASE I!FailsUnmapped /\ I!MappedOf(I!Readable) # I!Readable
    <3>1. PICK r \in I!Positions : ~I!IsMapped(I!TestAt(r))
      BY <2>1 DEF I!MappedOf, I!Readable
    <3>2. PICK f \in 1 .. Len(files) : r \in {f} \X (1 .. Len(files[f].tests))
      BY <3>1 DEF I!Positions
    <3>3. r[2] \in 1 .. Len(files[f].tests) /\ ~I!IsMapped(files[f].tests[r[2]])
      BY <3>1, <3>2 DEF I!TestAt
    <3>4. ~Accepted
      BY <2>1, <3>3 DEF Accepted
    <3>5. QED
      BY <3>4 DEF RefusalInv
  <2>2. QED
    BY <2>1 DEF RefusalInv, Accepted
<1>2. DiscoveryInv => ResultsInv
  BY DEF DiscoveryInv
<1>3. QED
  BY <1>1, <1>2, DiscoveryInit, DiscoveryStep, CallInit, CallKeeps, RefusalInit, RefusalKeeps,
     PTL DEF Spec
=============================================================================
