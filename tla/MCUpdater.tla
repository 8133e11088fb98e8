------------------------------ MODULE MCUpdater ------------------------------
(***************************************************************************)
(* Small instances of the updater.  The two files of a package are enough  *)
(* for a removal or an extraction to be interrupted in the middle, and a   *)
(* file of the old tree that no package has tells an overlay from a swap.  *)
(***************************************************************************)
EXTENDS UpdaterProperties

CONSTANTS p1, p2, app, lib, marker

MCFiles == {app, lib, marker}
MCOldFiles == {app, lib, marker}
MCPkgFiles == [p \in Packages |-> {app, lib}]

AllButLoad == FaultKinds \ {"load"}
AllButRemove == FaultKinds \ {"remove"}
==============================================================================
