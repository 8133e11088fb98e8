------------------------------ MODULE MCLibrary ------------------------------
(***************************************************************************)
(* The parts of the library that work on their own, side by side.  Each    *)
(* behaviour is one of one part, which is chosen at the start; the other   *)
(* parts stay in one initial state.                                        *)
(***************************************************************************)
EXTENDS Http, Notes, MCAnchor, Trees, Spawn, Manifest, Extract, Texts, Escape

\* Pages that are empty, that look like framing themselves, that fill more
\* than one read, and one above the limit of a fetch.
MCPages == {<<>>, <<"nl", "0", "nl">>, <<"2", "nl", "x", "y">>}

\* The second one makes a line of a size, the extension and the line end that
\* is just short enough, the third one that is too long.
MCExtensions == {<<>>, <<"e">>, <<"e", "e">>}

\* Files in the staging tree only, in the backup only, in both, and the two
\* updaters with and without each other.
MCLeaves == {"app", "updater", "updater_new"}
Layout(i, b, s) == [install |-> i, backup |-> b, staging |-> s]
MCLayouts == {
    Layout({}, {}, {}),
    Layout({"app"}, {"app", "updater"}, {"updater"}),
    Layout({"updater"}, {"updater"}, {"app", "updater_new"})}

\* Versions of one to three numbers and of none, members of the wrong kind,
\* too long, missing, or hidden in an object.
Member(n, k, v) == [name |-> n, kind |-> k, value |-> v]
MCMembers == {
    Member("version", "string", "1.2"),
    Member("version", "string", "2"),
    Member("version", "string", "soon"),
    Member("version", "number", "2"),
    Member("download_url", "string", "url"),
    Member("checksum", "string", "digest"),
    Member("description", "string", "checksum"),
    Member("description_format", "string", "html"),
    Member("description_format", "string", "long"),
    Member("channel", "object", "0.4")}
MCStrings == {m.name : m \in MCMembers} \cup {m.value : m \in MCMembers}
MCNumbers ==
    [s \in MCStrings \cup {"1.1.3", "2"} |->
        CASE s = "1.2" -> <<1, 2>>
          [] s = "2" -> <<2>>
          [] s = "0.4" -> <<0, 4>>
          [] s = "1.1.3" -> <<1, 1, 3>>
          [] OTHER -> <<>>]

\* Entries that share a name, a temporary name or a directory, and names that
\* lead out of the destination; install directories that are not absolute or
\* have dot segments.
MCPieces == {"a", "b", "..", "opt", "lib", "app", ".update_staging", ".extracting"}
Named(words, seps) == [parts |-> words, seps |-> seps]
File(words, seps) == [name |-> Named(words, seps), dir |-> FALSE]
A == <<"a">>
B == <<"b">>
Up == <<"..">>
Opt == <<"opt">>
App == <<"app">>
TempOfA == Append(A, ".extracting")
MCInstalls == {
    Named(<< <<>>, Opt, App >>, <<"/", "/">>),
    Named(<< <<>>, Opt, <<"lib">>, Up >>, <<"/", "/", "/">>),
    Named(<<Opt>>, <<>>)}
MCEntries == {
    File(<<A>>, <<>>),
    File(<<A, B>>, <<"/">>),
    File(<<A, B>>, <<"\\">>),
    File(<<TempOfA>>, <<>>),
    File(<<TempOfA, B>>, <<"/">>),
    File(<<A, Up, Up, App, App>>, <<"/", "/", "/", "/">>),
    [name |-> Named(<<A, <<>>, <<>> >>, <<"/", "\\">>), dir |-> TRUE]}
-----------------------------------------------------------------------------
VARIABLE component

Parts == {"transport", "notes", "anchor", "trees", "spawn", "manifest",
          "extract", "texts", "escape"}

\* The state a part stays in while another one is looked at.
Rest ==
    /\ component # "transport" =>
           page = <<>> /\ framing = "close" /\ kind = "file"
    /\ component # "anchor" => attrs = <<>>
    /\ component # "manifest" => manifest = <<>> /\ local = "2"
    /\ component # "extract" => archive = <<File(<<A>>, <<>>)>>
    /\ component # "texts" => value = <<>> /\ mode = "direct" /\ room = 1
    /\ component # "escape" => plain = <<>> /\ total = 1
    /\ component # "trees" => trees = [d \in {"install", "backup", "staging"} |->
                                          [f \in Leaves |-> Absent]]

LibraryInit ==
    /\ component \in Parts
    /\ Rest
    /\ HttpInit
    /\ NotesInit
    /\ AnchorInit
    /\ TreesInit
    /\ SpawnInit
    /\ ManifestInit
    /\ ExtractInit
    /\ TextsInit
    /\ EscapeInit

AloneHttp ==
    /\ component = "transport"
    /\ UNCHANGED <<component, noteVars, anchorVars, treeVars, spawnVars,
                     manifestVars, extractVars, textVars, escapeVars>>

AloneNotes ==
    /\ component = "notes"
    /\ UNCHANGED <<component, httpVars, anchorVars, treeVars, spawnVars,
                     manifestVars, extractVars, textVars, escapeVars>>

AloneAnchor ==
    /\ component = "anchor"
    /\ UNCHANGED <<component, httpVars, noteVars, treeVars, spawnVars,
                     manifestVars, extractVars, textVars, escapeVars>>

AloneTrees ==
    /\ component = "trees"
    /\ UNCHANGED <<component, httpVars, noteVars, anchorVars, spawnVars,
                     manifestVars, extractVars, textVars, escapeVars>>

AloneSpawn ==
    /\ component = "spawn"
    /\ UNCHANGED <<component, httpVars, noteVars, anchorVars, treeVars,
                     manifestVars, extractVars, textVars, escapeVars>>

AloneManifest ==
    /\ component = "manifest"
    /\ UNCHANGED <<component, httpVars, noteVars, anchorVars, treeVars,
                     spawnVars, extractVars, textVars, escapeVars>>

AloneExtract ==
    /\ component = "extract"
    /\ UNCHANGED <<component, httpVars, noteVars, anchorVars, treeVars,
                     spawnVars, manifestVars, textVars, escapeVars>>

AloneTexts ==
    /\ component = "texts"
    /\ UNCHANGED <<component, httpVars, noteVars, anchorVars, treeVars,
                     spawnVars, manifestVars, extractVars, escapeVars>>

AloneEscape ==
    /\ component = "escape"
    /\ UNCHANGED <<component, httpVars, noteVars, anchorVars, treeVars,
                     spawnVars, manifestVars, extractVars, textVars>>

LibraryNext ==
    \/ AloneHttp /\ HttpNext
    \/ AloneNotes /\ NotesNext
    \/ AloneAnchor /\ AnchorNext
    \/ AloneTrees /\ TreesNext
    \/ AloneSpawn /\ SpawnNext
    \/ AloneManifest /\ ManifestNext
    \/ AloneExtract /\ ExtractNext
    \/ AloneTexts /\ TextsNext
    \/ AloneEscape /\ EscapeNext

libraryVars == <<component, httpVars, noteVars, anchorVars, treeVars, spawnVars,
                 manifestVars, extractVars, textVars, escapeVars>>

\* The fairness of each part, on its own steps.
LibrarySpec ==
    /\ LibraryInit
    /\ [][LibraryNext]_libraryVars
    /\ WF_libraryVars(AloneHttp /\ ServerSteps)
    /\ WF_libraryVars(AloneHttp /\ ClientSteps)
    /\ WF_libraryVars(AloneAnchor /\ AnchorNext)
    /\ \A t \in Callers : WF_libraryVars(AloneSpawn /\ CallSteps(t))
    /\ \A c \in Callers : WF_libraryVars(AloneSpawn /\ ChildSteps(c))
    /\ WF_libraryVars(AloneSpawn /\ AppExits)
==============================================================================
