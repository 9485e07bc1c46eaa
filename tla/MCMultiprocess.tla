--------------------------- MODULE MCMultiprocess ---------------------------
(***************************************************************************)
(* The scenario for TLC: it has one instance, that of the repository.      *)
(***************************************************************************)
EXTENDS Multiprocess

MCEntryIds == {e.id : e \in ScriptEvents}
MCBodies == {e.payload : e \in ScriptEvents}
=============================================================================
