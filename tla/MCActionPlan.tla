----------------------------- MODULE MCActionPlan -----------------------------
(* A plan of one item of each kind, the lenient one with questions, for TLC. *)
EXTENDS ActionPlan, TLC

CONSTANTS tap1, tap2, tap3

MCKind == <<"lenient", "checked">>
MCQuestions == {1}
RequestSymmetry == Permutations(Requests)
=============================================================================
