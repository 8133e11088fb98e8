---------------------------- MODULE MCTwoUpdaters ----------------------------
(* Two updaters for the same package of one file. *)
EXTENDS TwoUpdaters

CONSTANTS p1, app

MCPkgFiles == [p \in Packages |-> {app}]
==============================================================================
