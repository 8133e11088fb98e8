------------------------------ MODULE MCSession ------------------------------
(***************************************************************************)
(* Two threads, a package that is approved and one that is not, and a      *)
(* working directory for each thread.                                      *)
(***************************************************************************)
EXTENDS Session

CONSTANTS pinned, unpinned, good, other

MCPin == [a \in Apps |-> IF a = pinned THEN good ELSE None]
MCApproves == [v \in Verifiers |-> {good}]
==============================================================================
