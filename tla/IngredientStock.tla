-------------------------- MODULE IngredientStock --------------------------
(***************************************************************************)
(* One ingredient of the inventory (service/ingredient_service.go,         *)
(* ingredient_levels.go, repository/ingredient_lot_repository.go): what is *)
(* on the shelf, the lots it came in, the movement rows, and the dish that *)
(* is cooked from it and goes off sale when the shelf is empty.            *)
(*                                                                         *)
(* A movement holds the ingredient's row lock from read to commit, so it   *)
(* is one step.  The two edit forms take no lock: an editor reads the row  *)
(* in one step and writes every column of it in a later one.               *)
(*                                                                         *)
(* Quantities are whole numbers: the columns are numeric(18,4) and what    *)
(* floats do below the fourth place is left out.                           *)
(***************************************************************************)
EXTENDS Integers, Sequences, Functions

CONSTANTS
    MaxQuantity,   \* bound: quantities on the shelf, moved and typed
    NumLots,       \* bound: lots ever received
    NumDates,      \* expiry dates, in order
    Percents,      \* reorder percentages an editor types; 0 for none
    IngredientEditors,   \* staff with the ingredient's form open
    MenuEditors,         \* staff with the dish's form open
    Closed               \* no form open

StockAmounts == 0..MaxQuantity
Undated == NumDates + 1
Dates == 1..Undated

ASSUME IngredientStockAssumption ==
    /\ MaxQuantity \in Nat /\ NumLots \in Nat \ {0} /\ NumDates \in Nat
    /\ Percents \subseteq 0..100

VARIABLES
    ingredient,   \* [stock, max, min, percent], the ingredient's row
    lots,         \* its lots, oldest delivery first
    replayed,     \* the shelf according to the movement rows, replayed
    dishOnSale,   \* the dish's is_available
    form,         \* [IngredientEditors -> what the editor read]
    dishForm      \* [MenuEditors -> what the editor read]

shelfVars == <<ingredient, lots, replayed, dishOnSale, form, dishForm>>

Lot == [remaining : StockAmounts, expires : Dates]
Ingredient == [stock : StockAmounts, max : StockAmounts, min : StockAmounts,
               percent : 0..100]

ShelfTypeOK ==
    /\ ingredient \in Ingredient
    /\ lots \in Seq(Lot) /\ Len(lots) <= NumLots
    /\ replayed \in Int /\ dishOnSale \in BOOLEAN
    /\ DOMAIN form = IngredientEditors
    /\ \A e \in IngredientEditors : form[e] = Closed \/ form[e] \in Ingredient
    /\ dishForm \in [MenuEditors -> {Closed} \cup BOOLEAN]

-----------------------------------------------------------------------------
(* Levels *)

Larger(a, b) == IF a >= b THEN a ELSE b
Smaller(a, b) == IF a <= b THEN a ELSE b

\* reorderLevelFrom, rounded to the nearest quantity.
ReorderLevel(max, percent, typed) ==
    IF percent = 0 THEN typed ELSE (max * percent + 50) \div 100

\* levelsAfterStockChange.
LevelsAfter(row, next) ==
    LET max == Larger(row.max, next)
    IN  [row EXCEPT !.stock = next, !.max = max,
                    !.min = ReorderLevel(max, row.percent, row.min)]

-----------------------------------------------------------------------------
(* Lots *)

Open(ls) == {i \in DOMAIN ls : ls[i].remaining > 0}
Remaining(ls) == [i \in DOMAIN ls |-> ls[i].remaining]
TotalOf(ls, I) == SumFunctionOnSet(Remaining(ls), I)

\* lotDrainOrder: the soonest expiry, then the oldest delivery.
ExpiresFirst(ls, i, j) ==
    \/ ls[i].expires < ls[j].expires
    \/ ls[i].expires = ls[j].expires /\ i < j
\* What lot i gives of quantity when the lots in front of it have given theirs.
Gives(ls, i, quantity, front) ==
    Smaller(ls[i].remaining, Larger(0, quantity - TotalOf(ls, front)))

ShrinkLotsOldestFirst(ls, quantity) ==
    [i \in DOMAIN ls |->
        [ls[i] EXCEPT !.remaining = @ - Gives(ls, i, quantity, {j \in Open(ls) : j < i})]]
DrainLots(ls, quantity) ==
    [i \in DOMAIN ls |->
        [ls[i] EXCEPT !.remaining =
            @ - Gives(ls, i, quantity, {j \in Open(ls) : ExpiresFirst(ls, j, i)})]]
CreateLot(ls, quantity, expires) ==
    Append(ls, [remaining |-> quantity, expires |-> expires])

-----------------------------------------------------------------------------

\* Create: the opening stock is an adjust movement and a lot.
ShelfInit ==
    /\ \E stock, typed \in StockAmounts, percent \in Percents, expires \in Dates :
          LET max == Larger(stock, typed)
          IN  /\ ingredient = [stock |-> stock, max |-> max, percent |-> percent,
                               min |-> ReorderLevel(max, percent, typed)]
              /\ lots = IF stock > 0 THEN CreateLot(<<>>, stock, expires) ELSE <<>>
              /\ replayed = stock
    /\ dishOnSale = TRUE
    /\ form = [e \in IngredientEditors |-> Closed]
    /\ dishForm = [e \in MenuEditors |-> Closed]

\* DisableMenusForDepletedIngredients, when the shelf holds stock.
DisableIfDepleted(stock) == dishOnSale' = (dishOnSale /\ stock > 0)
FormsStay == UNCHANGED <<form, dishForm>>

MoveTo(next) == ingredient' = LevelsAfter(ingredient, next)

-----------------------------------------------------------------------------
(* Stock movements *)

StockIn(quantity, expires) ==
    LET next == ingredient.stock + quantity
    IN  /\ quantity > 0 /\ next <= MaxQuantity /\ Len(lots) < NumLots
        /\ MoveTo(next)
        /\ lots' = CreateLot(lots, quantity, expires)
        /\ replayed' = replayed + quantity
        /\ DisableIfDepleted(next) /\ FormsStay

StockOut(quantity) ==
    LET next == ingredient.stock - quantity
    IN  /\ quantity > 0 /\ quantity <= ingredient.stock
        /\ MoveTo(next)
        /\ lots' = DrainLots(lots, quantity)
        /\ replayed' = replayed - quantity
        /\ DisableIfDepleted(next) /\ FormsStay

CountSurplusOnly(quantity) ==
    /\ quantity > 0 /\ Len(lots) < NumLots
    /\ MoveTo(quantity)
    /\ lots' = IF quantity > ingredient.stock
               THEN CreateLot(lots, quantity - ingredient.stock, Undated) ELSE lots
    /\ replayed' = quantity
    /\ DisableIfDepleted(quantity) /\ FormsStay

\* A physical count: the surplus is an undated lot, a loss is the oldest stock.
Count(quantity) ==
    /\ quantity > 0
    /\ quantity > ingredient.stock => Len(lots) < NumLots
    /\ MoveTo(quantity)
    /\ lots' = IF quantity > ingredient.stock
               THEN CreateLot(lots, quantity - ingredient.stock, Undated)
               ELSE ShrinkLotsOldestFirst(lots, ingredient.stock - quantity)
    /\ replayed' = quantity
    /\ DisableIfDepleted(quantity) /\ FormsStay

\* deductInventoryForCompletedKitchenItem: a cooked dish takes what there is.
Cook(required) ==
    LET removed == Smaller(required, ingredient.stock)
    IN  /\ required > 0
        /\ ingredient' = [ingredient EXCEPT !.stock = @ - removed]
        /\ lots' = DrainLots(lots, removed)
        /\ replayed' = replayed - removed
        /\ DisableIfDepleted(ingredient.stock - removed) /\ FormsStay

\* DiscardLot: this lot, whatever expires before it.
Discard(lot) ==
    LET quantity == Smaller(lots[lot].remaining, ingredient.stock)
        next == ingredient.stock - quantity
    IN  /\ lot \in Open(lots) /\ quantity > 0
        /\ MoveTo(next)
        /\ lots' = [lots EXCEPT ![lot].remaining = @ - quantity]
        /\ replayed' = replayed - quantity
        /\ DisableIfDepleted(next) /\ FormsStay

UpdateLotExpiry(lot, expires) ==
    /\ lots' = [lots EXCEPT ![lot].expires = expires]
    /\ UNCHANGED <<ingredient, replayed, dishOnSale, form, dishForm>>

-----------------------------------------------------------------------------
(* Edit forms *)

\* IngredientService.Update reads the row unlocked ...
OpenForm(e) ==
    /\ form[e] = Closed
    /\ form' = [form EXCEPT ![e] = ingredient]
    /\ UNCHANGED <<ingredient, lots, replayed, dishOnSale, dishForm>>

\* ... and writes its levels from what it read; the stock is not a column of
\* the form.
SaveForm(e, typed, percent) ==
    LET max == Larger(Larger(form[e].max, form[e].stock), typed)
    IN  /\ form[e] # Closed
        /\ ingredient' = [ingredient EXCEPT
              !.max = max, !.percent = percent, !.min = ReorderLevel(max, percent, typed)]
        /\ form' = [form EXCEPT ![e] = Closed]
        /\ UNCHANGED <<lots, replayed, dishOnSale, dishForm>>

\* UpdateMenuItemPrice and UpdateMenuItemAvailability read the dish unlocked ...
OpenDish(e) ==
    /\ dishForm[e] = Closed
    /\ dishForm' = [dishForm EXCEPT ![e] = dishOnSale]
    /\ UNCHANGED <<ingredient, lots, replayed, dishOnSale, form>>

\* ... and write every column of it.
SavePrice(e) ==
    /\ dishForm[e] # Closed
    /\ dishOnSale' = dishForm[e]
    /\ dishForm' = [dishForm EXCEPT ![e] = Closed]
    /\ UNCHANGED <<ingredient, lots, replayed, form>>

SaveAvailability(e, available) ==
    /\ dishForm[e] # Closed
    /\ dishOnSale' = available
    /\ dishForm' = [dishForm EXCEPT ![e] = Closed]
    /\ UNCHANGED <<ingredient, lots, replayed, form>>

ShelfNext ==
    \/ \E q \in StockAmounts, d \in Dates : StockIn(q, d)
    \/ \E q \in StockAmounts : StockOut(q) \/ Count(q) \/ Cook(q)
    \/ \E i \in DOMAIN lots : Discard(i) \/ (\E d \in Dates : UpdateLotExpiry(i, d))
    \/ \E e \in IngredientEditors :
          OpenForm(e) \/ (\E q \in StockAmounts, p \in Percents : SaveForm(e, q, p))
    \/ \E e \in MenuEditors :
          OpenDish(e) \/ SavePrice(e) \/ (\E b \in BOOLEAN : SaveAvailability(e, b))

ShelfSpec == ShelfInit /\ [][ShelfNext]_shelfVars

-----------------------------------------------------------------------------
(* Properties *)

\* "Every branch preserves SUM(remaining) == stock": the lots hold what the
\* shelf holds, whatever was counted, cooked, thrown away or edited.
LotsHoldTheStock == TotalOf(lots, DOMAIN lots) = ingredient.stock

\* The movement rows explain the shelf: replayed, they give the stock, though a
\* dish the shelf could not cover took less than its recipe.
MovementsExplainTheStock == replayed = ingredient.stock

\* Three accounts of one shelf agree after any sequence: the stock column, the
\* lots it is kept in and the movements that led to it.
StockIsExplained == LotsHoldTheStock /\ MovementsExplainTheStock

\* What is used, by a stock-out or by the kitchen, is used soonest expiry first:
\* a lot is touched only when every open lot that expires before it is empty.
SoonestIsUsedFirst ==
    [][(\E q \in StockAmounts : StockOut(q) \/ Cook(q)) =>
          \A i, j \in DOMAIN lots :
             lots'[i].remaining < lots[i].remaining /\ ExpiresFirst(lots, j, i)
             => lots'[j].remaining = 0]_shelfVars

-----------------------------------------------------------------------------
(* Comments of the source that do not hold as they stand (README, section 4) *)

\* "UpdateMenuItemPrice changes only the price."  It writes every column of the
\* dish as it was read, and reopens one the kitchen has sold out in between.
PriceEditKeepsTheRest == [][\A e \in MenuEditors : SavePrice(e) => dishOnSale' = dishOnSale]_shelfVars

\* ingredient_levels.go: "the maximum only ever climbs".  A form is saved from
\* what its editor read, and undoes what a delivery raised in between.
MaximumOnlyClimbs == [][ingredient'.max >= ingredient.max]_shelfVars
=============================================================================
