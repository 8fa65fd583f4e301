--------------------------- MODULE InputDiscovery ---------------------------
(***************************************************************************)
(* One call of DiscoverAsync (Services/InputDiscovery.cs): the files the    *)
(* configured paths name or contain, or the text of the standard input.     *)
(*                                                                         *)
(* The file system (FileSystem/FileSystem.cs over System.IO) is external    *)
(* and described by a layout.  The two tests for the search pattern differ: *)
(* a named file is matched by a regular expression of its own that ignores  *)
(* case, the files of a folder by Directory.EnumerateFiles, which follows   *)
(* the file system.  So a layout has both, accepted and listing.            *)
(***************************************************************************)
EXTENDS Naturals, Sequences

CONSTANTS
    Names,      \* what may be configured as a path
    Blank,      \* a name that is empty or white space
    Places,     \* full paths
    TempFile,   \* the full path CreateTempFile returns
    Layouts,    \* the configurations and file systems a call may find
    Fold        \* what StringComparer.OrdinalIgnoreCase makes of a full path

\* paths: _options.Paths, <<>> for none; stdin: "off" unless ReadFromStdin, else
\* what is at the standard input; full: GetFullPath; kind: what is at a place;
\* accepted: the places FileMatchesPattern accepts; listing: what EnumerateFiles
\* yields for a folder.
LayoutType ==
    [paths : Seq(Names), stdin : {"off", "terminal", "blank", "text"},
     full : [Names -> Places], kind : [Places -> {"file", "folder", "missing"}],
     accepted : SUBSET Places, listing : [Places -> Seq(Places)]]

VARIABLES
    layout,     \* the options and what the file system holds
    at,         \* where DiscoverAsync is, or how it has ended
    path,       \* the path the outer foreach is at
    entry,      \* the file the inner foreach is at
    results,    \* the HashSet, in the order its members were added
    cancelled   \* the CancellationToken

vars == <<layout, at, path, entry, results, cancelled>>

Place(i) == layout.full[layout.paths[i]]
Folder == layout.listing[Place(path)]

----------------------------------------------------------------------------
Init ==
    /\ layout \in Layouts
    /\ at = IF layout.paths = <<>> /\ layout.stdin # "off" THEN "stdin" ELSE "paths"
    /\ path = 1
    /\ entry = 1
    /\ results = <<>>
    /\ cancelled = FALSE

\* results.Add(p): nothing happens when an equal path is there.
AddAlways(p) == results' = Append(results, p)                \* mutant: a List<string>
Add(p) ==
    results' = IF \E i \in DOMAIN results : Fold[results[i]] = Fold[p]
               THEN results ELSE Append(results, p)

\* The foreach over the paths is at path i, and the token is not cancelled.
AtPath == at = "paths" /\ path =< Len(layout.paths) /\ ~cancelled

NextPath == path' = path + 1 /\ UNCHANGED <<layout, at, entry, cancelled>>

SkipBlank ==
    /\ AtPath
    /\ layout.paths[path] = Blank
    /\ NextPath
    /\ UNCHANGED results

\* The path is a full path of kind k.
Finds(k) ==
    /\ AtPath
    /\ layout.paths[path] # Blank
    /\ layout.kind[Place(path)] = k

AddFile ==
    /\ Finds("file")
    /\ Place(path) \in layout.accepted
    /\ Add(Place(path))
    /\ NextPath

\* A file the pattern refuses, or a path that is not there: a line in the log.
IgnorePath ==
    /\ \/ Finds("file") /\ Place(path) \notin layout.accepted
       \/ Finds("missing")
    /\ NextPath
    /\ UNCHANGED results

OpenFolder ==
    /\ Finds("folder")
    /\ at' = "folder"
    /\ entry' = 1
    /\ UNCHANGED <<layout, path, results, cancelled>>

AddEntry ==
    /\ at = "folder"
    /\ entry =< Len(Folder)
    /\ ~cancelled
    /\ Add(Folder[entry])
    /\ entry' = entry + 1
    /\ UNCHANGED <<layout, at, path, cancelled>>

CloseFolder ==
    /\ at = "folder"
    /\ entry > Len(Folder)
    /\ at' = "paths"
    /\ path' = path + 1
    /\ UNCHANGED <<layout, entry, results, cancelled>>

End(how) ==
    /\ at' = how
    /\ UNCHANGED <<layout, path, entry, cancelled>>

\* Both loops check the token at the head of every round.
LoopCanceled ==
    /\ \/ at = "paths" /\ path =< Len(layout.paths)
       \/ at = "folder" /\ entry =< Len(Folder)
    /\ cancelled
    /\ End("canceled")
    /\ UNCHANGED results

\* A folder that may not be read, or that goes while it is read.
FolderFails ==
    /\ at = "folder"
    /\ End("faulted")
    /\ UNCHANGED results

ReturnFiles ==
    /\ at = "paths"
    /\ path > Len(layout.paths)
    /\ End("returned")
    /\ UNCHANGED results

\* Nothing is redirected to the standard input.
ReturnNothing ==
    /\ at = "stdin"
    /\ layout.stdin = "terminal"
    /\ End("returned")
    /\ UNCHANGED results

\* ReadToEndAsync has come to the end of the standard input.
StdinEnds ==
    /\ at = "stdin"
    /\ layout.stdin # "terminal"
    /\ End("returned")
    /\ results' = IF layout.stdin = "text" THEN <<TempFile>> ELSE <<>>

\* It can be cancelled, and the standard input or the temporary file can fail.
StdinThrows ==
    /\ at = "stdin"
    /\ layout.stdin # "terminal"
    /\ \/ cancelled /\ End("canceled")
       \/ End("faulted")
    /\ UNCHANGED results

LoopStep ==
    \/ SkipBlank \/ AddFile \/ IgnorePath \/ OpenFolder \/ AddEntry \/ CloseFolder
    \/ LoopCanceled \/ FolderFails \/ ReturnFiles \/ ReturnNothing

\* A call of its own has no other steps; ImportRun runs it in its process, where
\* CancelKeyPress cancels the token at any time.
Step == LoopStep \/ StdinEnds \/ StdinThrows

----------------------------------------------------------------------------
(* Properties                                                               *)

TypeOK ==
    /\ layout \in Layouts
    /\ at \in {"paths", "folder", "stdin", "returned", "canceled", "faulted"}
    /\ path \in 1 .. Len(layout.paths) + 1
    /\ at = "folder" => path =< Len(layout.paths) /\ layout.kind[Place(path)] = "folder"
    /\ entry \in Nat \ {0}
    /\ results \in Seq(Places)
    /\ cancelled \in BOOLEAN

\* The files path i stands for.
WantedAt(l, i) ==
    LET place == l.full[l.paths[i]] IN
    {p \in Places :
        /\ l.paths[i] # Blank
        /\ \/ l.kind[place] = "file" /\ p = place /\ p \in l.accepted
           \/ l.kind[place] = "folder" /\ \E e \in DOMAIN l.listing[place] : p = l.listing[place][e]}

\* The files a layout stands for, without the loops: those of all paths, the
\* standard input only where there are no paths.
Wanted(l) ==
    IF l.paths # <<>> THEN UNION {WantedAt(l, i) : i \in DOMAIN l.paths}
    ELSE IF l.stdin = "text" THEN {TempFile} ELSE {}

\* Found, each once: every result is wanted, and of the wanted files that differ
\* in nothing but case exactly one is a result.
DiscoversExactly ==
    at = "returned" =>
        /\ \A i \in DOMAIN results : results[i] \in Wanted(layout)
        /\ \A p \in Wanted(layout) : \E i \in DOMAIN results : Fold[results[i]] = Fold[p]
        /\ \A i, j \in DOMAIN results : Fold[results[i]] = Fold[results[j]] => i = j
=============================================================================
