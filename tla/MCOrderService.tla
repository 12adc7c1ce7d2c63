--------------------------- MODULE MCOrderService ---------------------------
(***************************************************************************)
(* Small restaurants for TLC: a menu that needs no stock, and a dish that  *)
(* takes one unit of the only ingredient unless an option leaves it out.   *)
(***************************************************************************)
EXTENDS OrderService, TLC

CONSTANTS o1, o2, t1, flour, padThai, plain, without, none

AllPadThai == [d \in Dishes |-> padThai]
FreeOptions == [d \in Dishes |-> 0]

NoRecipe == [d \in Dishes |-> [i \in Ingredients |-> 0]]
NoBase == [m \in Menus |-> [i \in Ingredients |-> 0]]

UnitBase == [m \in Menus |-> [i \in Ingredients |-> 1]]
OptionRecipe ==
    [d \in Dishes |-> [i \in Ingredients |-> IF d = plain THEN 1 ELSE 0]]

OrderSymmetry == Permutations(Orders)
=============================================================================
