----------------------------- MODULE TwoUpdaters -----------------------------
(***************************************************************************)
(* Two updater processes for one install directory.  update_perform starts *)
(* an updater and returns; nothing in the library or in the updater keeps  *)
(* it from being called again before the application exits, or from a      *)
(* second instance of the application.  The processes share the disk, and  *)
(* nothing else: there is no lock file.                                    *)
(***************************************************************************)
CONSTANTS Files, OldFiles, Packages, PkgFiles, Old, NoFile, Faults

VARIABLES
    dirs, tree, saved, part,                          \* the disk
    pcA, pkgA, resumeA, todoA, parentA, statusA,      \* one process
    pcB, pkgB, resumeB, todoB, parentB, statusB       \* the other

disk == <<dirs, tree, saved, part>>
procA == <<pcA, pkgA, resumeA, todoA, parentA, statusA>>
procB == <<pcB, pkgB, resumeB, todoB, parentB, statusB>>
vars == <<disk, procA, procB>>

A == INSTANCE Updater WITH
        pc <- pcA, pkg <- pkgA, resume <- resumeA, todo <- todoA,
        parent <- parentA, status <- statusA
B == INSTANCE Updater WITH
        pc <- pcB, pkg <- pkgB, resume <- resumeB, todo <- todoB,
        parent <- parentB, status <- statusB

Init == A!Init /\ B!Init

Next ==
    \/ A!Next /\ UNCHANGED procB
    \/ B!Next /\ UNCHANGED procA

Spec == Init /\ [][Next]_vars

\* The application is never lost while two updaters run: whenever the install
\* directory is away its backup is there (README.md:9).
AlwaysACopy == "install" \in dirs \/ "backup" \in dirs
==============================================================================
