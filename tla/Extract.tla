------------------------------- MODULE Extract -------------------------------
(***************************************************************************)
(* The extraction of a package into the staging directory                  *)
(* (libupdate/src/update_extract.c) and the rules on paths that guard it   *)
(* (update_path.c), down to the calls that change the disk.                *)
(*                                                                         *)
(* A name is written as its words and the separators between them, a word  *)
(* as the pieces it is made of: the code adds ".update_staging" to one and *)
(* ".extracting" to another.  The rules of the code take "/" and "\" for   *)
(* separators; the file system of the build takes those in FileSeps only,  *)
(* and follows ".." up.  A path is a sequence of components, a component a *)
(* sequence of words.  The test that the joined path has the directory it  *)
(* was joined to as its prefix (path_under_dest_prefix) never fails and is *)
(* left out.                                                               *)
(***************************************************************************)
EXTENDS Integers, Sequences, SequencesExt

CONSTANTS
    Pieces,     \* what words are made of
    Installs,   \* the install directories the program may be given: names
    Entries,    \* what an archive may hold: a name, and is it a directory?
    MaxEntries, \* bounds the entries of an archive
    MaxCalls,   \* bounds the extractions of one archive
    FileSeps    \* {"/"}, or {"/", "\\"} on Windows

Word == Seq(Pieces)

IsName(n) ==
    /\ n \in [parts : Seq(Word), seps : Seq({"/", "\\"})]
    /\ Len(n.parts) = Len(n.seps) + 1

ASSUME ExtractAssumption ==
    /\ {"app", ".update_staging", ".extracting"} \subseteq Pieces
    /\ \A n \in Installs : IsName(n)
    /\ \A e \in Entries : IsName(e.name) /\ e.dir \in BOOLEAN
    /\ MaxEntries \in Nat

VARIABLES
    root,       \* the install directory: a name that passed the rules
    archive,    \* the entries, in the order of the archive
    files,      \* files[p]: what is at path p
    nextEntry,  \* how many entries have been begun
    extractPc,  \* where update_extract is
    extracted,  \* how the last call ended
    calls

extractVars ==
    <<root, archive, files, nextEntry, extractPc, extracted, calls>>

Directory == <<"directory">>
Partial == <<"partial">>
Original == <<"original">>
ContentOf(i) == <<"entry", i>>

\* A name or a component with the suffix at its last word.
ExtendLast(s, suffix) == [s EXCEPT ![Len(s)] = Append(@, suffix)]

\* What the file system does with component c when it has come to at.
Enter(at, c) ==
    IF c \in {<< <<>> >>, << <<".">> >>} THEN at
    ELSE IF c # << <<"..">> >> THEN Append(at, c)
    ELSE IF at = <<>> THEN at ELSE Front(at)

\* Word i of a name is read: a component ends at a separator of the file
\* system and with the name.
WalkOn(w, n, i) ==
    LET c == Append(w.component, n.parts[i])
    IN  IF i = Len(n.parts) \/ n.seps[i] \in FileSeps
        THEN [at |-> Enter(w.at, c), component |-> <<>>]
        ELSE [at |-> w.at, component |-> c]

Walk(dir, n) ==
    LET walk[i \in 0..Len(n.parts)] ==
            IF i = 0 THEN [at |-> dir, component |-> <<>>]
            ELSE WalkOn(walk[i - 1], n, i)
    IN  walk

\* Where a name leads from a directory.
Resolve(dir, n) == Walk(dir, n)[Len(n.parts)].at

Absolute(n) == n.parts[1] = <<>> /\ n.parts # << <<>> >>

NoDotSegments(n) == \A i \in DOMAIN n.parts : n.parts[i] \notin {<<".">>, <<"..">>}

\* update_validate_path with UPDATE_PATH_REQUIRE_ABSOLUTE
ValidAbsolute(n) == Absolute(n) /\ NoDotSegments(n)

\* update_validate_install_paths
SiblingOf(n, suffix) == [n EXCEPT !.parts = ExtendLast(@, suffix)]
Staging == Resolve(<<>>, SiblingOf(root, ".update_staging"))

Under(p, q) == Len(p) >= Len(q) /\ SubSeq(p, 1, Len(q)) = q
Parent(p) == Front(p)
Ancestors(p) == {SubSeq(p, 1, i) : i \in 1..Len(p)}

FileAt(p) == p \in DOMAIN files /\ files[p] # Directory
DirAt(p) == p = <<>> \/ (p \in DOMAIN files /\ files[p] = Directory)

\* The disk after a file is put at p, or all at or under p is removed.
PutFile(p, content) ==
    [q \in DOMAIN files \cup {p} |-> IF q = p THEN content ELSE files[q]]
Without(p) ==
    [q \in {r \in DOMAIN files : ~Under(r, p)} |-> files[q]]

\* platform_fs_create_directory_recursive: from the top, up to the first name
\* that is taken by a file.
CanMake(p) == \A q \in Ancestors(p) : ~FileAt(q)
WithDirs(p) ==
    LET made == {q \in Ancestors(p) : \A r \in Ancestors(q) : ~FileAt(r)}
    IN  [q \in DOMAIN files \cup made |->
            IF q \in made THEN Directory ELSE files[q]]

ExtractInit ==
    /\ root \in {n \in Installs : ValidAbsolute(n)}
    /\ archive \in UNION {[1..k -> Entries] : k \in 1..MaxEntries}
    /\ files = LET install == Resolve(<<>>, root)
               IN  [p \in Ancestors(install) \cup {Append(install, << <<"app">> >>)} |->
                       IF p \in Ancestors(install) THEN Directory ELSE Original]
    /\ nextEntry = 0
    /\ extractPc = "idle"
    /\ extracted = "none"
    /\ calls = 0

ExtractReturns(result) ==
    /\ extractPc' = "idle"
    /\ extracted' = result

StartExtract ==
    /\ extractPc = "idle"
    /\ calls < MaxCalls
    /\ calls' = calls + 1
    /\ nextEntry' = 0
    /\ files' = WithDirs(Staging)
    /\ IF CanMake(Staging)
       THEN extractPc' = "next" /\ extracted' = "none"
       ELSE ExtractReturns("error")
    /\ UNCHANGED <<root, archive>>

\* Mutant: ".." is looked for at the start only.
SafeStart(n) ==
    n.parts[1] \notin {<<>>, <<".">>, <<"..">>}

\* zip_entry_name_safe; "../" is found in "a../" too.
SafeName(n) ==
    /\ n.parts[1] # <<>>
    /\ NoDotSegments(n)
    /\ \A i \in DOMAIN n.seps : n.parts[i] # <<>> => Last(n.parts[i]) # ".."

Entry == archive[nextEntry]

\* trim_trailing_slash_inplace, which takes any separators off the end.
Trimmed(n) ==
    LET k == CHOOSE k \in DOMAIN n.parts :
                 /\ k = 1 \/ n.parts[k] # <<>>
                 /\ \A j \in (k + 1)..Len(n.parts) : n.parts[j] = <<>>
    IN  [parts |-> SubSeq(n.parts, 1, k), seps |-> SubSeq(n.seps, 1, k - 1)]

\* The name of a directory is trimmed, that of a file is not.
PathOf(i) ==
    LET e == archive[i]
    IN  Resolve(Staging, IF e.dir THEN Trimmed(e.name) ELSE e.name)
TempOf(i) == [PathOf(i) EXCEPT ![Len(PathOf(i))] = ExtendLast(@, ".extracting")]
Here == PathOf(nextEntry)
Temp == TempOf(nextEntry)

\* Mutant: an entry that is there already is not extracted again.
SkipsPresent ==
    /\ extractPc = "next"
    /\ nextEntry < Len(archive)
    /\ nextEntry' = nextEntry + 1
    /\ IF PathOf(nextEntry + 1) \in DOMAIN files
       THEN UNCHANGED <<extractPc, extracted>>
       ELSE IF SafeName(archive[nextEntry + 1].name)
       THEN extractPc' = "entry" /\ UNCHANGED extracted
       ELSE ExtractReturns("error")
    /\ UNCHANGED <<root, archive, files, calls>>

NextArchiveEntry ==
    /\ extractPc = "next"
    /\ nextEntry < Len(archive)
    /\ nextEntry' = nextEntry + 1
    /\ \/ /\ SafeName(archive[nextEntry + 1].name)
          /\ extractPc' = "entry"
          /\ UNCHANGED extracted
       \/ ExtractReturns("error")
    /\ UNCHANGED <<root, archive, files, calls>>

MakeDirectory ==
    /\ extractPc = "entry"
    /\ Entry.dir
    /\ files' = WithDirs(Here)
    /\ IF CanMake(Here)
       THEN extractPc' = "next" /\ UNCHANGED extracted
       ELSE ExtractReturns("error")
    /\ UNCHANGED <<root, archive, nextEntry, calls>>

\* What stands where the temporary file goes is removed, a tree as a whole;
\* that this may fail is never looked at.
RemoveTemp == files' \in {Without(Temp), files}

ClearTemp ==
    /\ extractPc = "entry"
    /\ ~Entry.dir
    /\ RemoveTemp
    /\ extractPc' = "parents"
    /\ UNCHANGED <<root, archive, nextEntry, extracted, calls>>

EnsureParents ==
    /\ extractPc = "parents"
    /\ files' = WithDirs(Parent(Here))
    /\ IF CanMake(Parent(Here))
       THEN extractPc' = "open" /\ UNCHANGED extracted
       ELSE ExtractReturns("error")
    /\ UNCHANGED <<root, archive, nextEntry, calls>>

\* Mutant: the entry is extracted to its own path.
OpensInPlace ==
    /\ extractPc = "open"
    /\ ~DirAt(Here)
    /\ files' = PutFile(Here, Partial)
    /\ extractPc' = "write"
    /\ UNCHANGED <<root, archive, nextEntry, extracted, calls>>

OpenTemp ==
    /\ extractPc = "open"
    /\ \/ /\ ~DirAt(Temp)
          /\ files' = PutFile(Temp, Partial)
          /\ extractPc' = "write"
          /\ UNCHANGED extracted
       \/ /\ RemoveTemp
          /\ ExtractReturns("error")
    /\ UNCHANGED <<root, archive, nextEntry, calls>>

WriteTemp ==
    /\ extractPc = "write"
    /\ \/ /\ files' = PutFile(Temp, ContentOf(nextEntry))
          /\ extractPc' = "move"
          /\ UNCHANGED extracted
       \/ /\ RemoveTemp
          /\ ExtractReturns("error")
    /\ UNCHANGED <<root, archive, nextEntry, calls>>

MoveTemp ==
    /\ extractPc = "move"
    /\ \/ /\ ~DirAt(Here)
          /\ files' = [q \in (DOMAIN files \cup {Here}) \ {Temp} |->
                          IF q = Here THEN files[Temp] ELSE files[q]]
          /\ extractPc' = "next"
          /\ UNCHANGED extracted
       \/ /\ RemoveTemp
          /\ ExtractReturns("error")
    /\ UNCHANGED <<root, archive, nextEntry, calls>>

EndExtract ==
    /\ extractPc = "next"
    /\ nextEntry = Len(archive)
    /\ ExtractReturns("ok")
    /\ UNCHANGED <<root, archive, files, nextEntry, calls>>

KillExtract ==
    /\ extractPc # "idle"
    /\ ExtractReturns("killed")
    /\ UNCHANGED <<root, archive, files, nextEntry, calls>>

ExtractNext ==
    \/ StartExtract
    \/ NextArchiveEntry
    \/ MakeDirectory
    \/ ClearTemp
    \/ EnsureParents
    \/ OpenTemp
    \/ WriteTemp
    \/ MoveTemp
    \/ EndExtract
    \/ KillExtract

ExtractSpec == ExtractInit /\ [][ExtractNext]_extractVars
-----------------------------------------------------------------------------
\* Whatever names an archive has and wherever the application is installed,
\* an extraction changes nothing outside the staging directory, and nothing in
\* the directory of the application (update_extract.c:67-118,
\* update_path.c:58-89, 251-301; tests/test_extract.c:75-83).
StaysInside ==
    [][\A p \in DOMAIN files \cup DOMAIN files' :
           \/ Under(p, Staging) /\ ~Under(p, Resolve(<<>>, root))
           \/ p \in DOMAIN files /\ p \in DOMAIN files' /\ files'[p] = files[p]
      ]_extractVars

\* After any failures and kills a file that is only partly extracted has the
\* name of a temporary file (update_extract.c:256-285).
NoPartialFile ==
    \A p \in DOMAIN files :
        files[p] = Partial => \E i \in DOMAIN archive : p = TempOf(i)

\* A call that reports success has put every entry where its name says and
\* left no temporary file, on top of whatever failed or killed calls left
\* there.  An entry is given up to a later one of the same path, or of which
\* it has the temporary name (update_extract.c:211-287;
\* tests/test_extract.c:63-72).
GivenUp(i) ==
    \E j \in (i + 1)..Len(archive) :
        /\ ~archive[j].dir
        /\ PathOf(j) = PathOf(i) \/ Under(PathOf(i), TempOf(j))

WholeArchive ==
    extracted = "ok" =>
        /\ \A i \in DOMAIN archive :
               \/ GivenUp(i)
               \/ /\ PathOf(i) \in DOMAIN files
                  /\ files[PathOf(i)] = IF archive[i].dir THEN Directory
                                         ELSE ContentOf(i)
        /\ \A p \in DOMAIN files : files[p] # Partial
==============================================================================
