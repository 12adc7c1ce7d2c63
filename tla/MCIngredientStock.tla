------------------------- MODULE MCIngredientStock -------------------------
(* A small shelf for TLC. *)
EXTENDS IngredientStock

CONSTANTS ed, menuEd, closed
=============================================================================
