------------------------------ MODULE MCFewKills ------------------------------
(* The instances of MCUpdater, with the number of kills bounded. *)
EXTENDS FewKills, MCUpdater
===============================================================================
