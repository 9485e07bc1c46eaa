------------------------------- MODULE Strict -------------------------------
(***************************************************************************)
(* Call by value, for TLC: an argument that an operator mentions several   *)
(* times is evaluated once.                                                *)
(***************************************************************************)
Strictly(F(_), x) == CHOOSE y \in {F(z) : z \in {x}} : TRUE
=============================================================================
