---------------------------- MODULE OrderService ----------------------------
(***************************************************************************)
(* The order flow of one restaurant: service/order_service.go with its     *)
(* helpers, over the rows it writes.  Every handler is one database        *)
(* transaction that takes the order's row lock first, so a committed       *)
(* handler is one step here; module TableLocks opens up the steps between  *)
(* the locks.                                                              *)
(*                                                                         *)
(* The rows are: orders, order_items ("lines", numbered in the order they  *)
(* are created), restaurant_tables (their status), ingredients (their      *)
(* stock) and menu_items (price and is_available).  A "dish" is a menu     *)
(* item with the options chosen for it; the note and the fulfilment type   *)
(* separate lines the way options do and are left out.  The inventory      *)
(* deduction rows of a line are its field used, keyed by ingredient.       *)
(***************************************************************************)
EXTENDS Integers, FiniteSets, Functions

CONSTANTS
    Orders,        \* ids of the orders a behaviour may open
    NumLines,      \* bound: order lines ever created
    Tables,
    Ingredients,
    Menus,
    Dishes,        \* a menu item with a choice of options
    None,          \* a null foreign key
    MenuOf,        \* [Dishes -> Menus]
    OptionsTotal,  \* [Dishes -> Nat], what the options add to the price
    Recipe,        \* [Dishes -> [Ingredients -> Nat]], options folded in
    BaseRecipe,    \* [Menus -> [Ingredients -> Nat]], without options
    Prices,        \* prices a menu item may take
    MaxQty,        \* bound: units on one line
    MaxStock       \* bound: units of one ingredient on the shelf

Lines == 1..NumLines

ASSUME OrderServiceAssumption ==
    /\ NumLines \in Nat /\ MaxQty \in Nat /\ MaxStock \in Nat
    /\ None \notin Orders \cup Tables \cup Dishes \cup [Lines -> Nat]
    /\ Prices \subseteq Nat
    /\ MenuOf \in [Dishes -> Menus]
    /\ OptionsTotal \in [Dishes -> Nat]
    /\ Recipe \in [Dishes -> [Ingredients -> Nat]]
    /\ BaseRecipe \in [Menus -> [Ingredients -> Nat]]

VARIABLES
    orders,    \* [Orders -> Order]
    lines,     \* [Lines -> Line]
    tables,    \* [Tables -> TableStatus]
    stock,     \* [Ingredients -> 0..MaxStock], ingredients.stock
    menus,     \* [Menus -> [price, onSale]]
    payments,  \* [Orders -> None or the amounts of the payment row]
    received,  \* history: stock moved in minus stock moved out by hand
    shrunk     \* history: a person has lowered a stock count

vars == <<orders, lines, tables, stock, menus, payments, received, shrunk>>

-----------------------------------------------------------------------------
(* Rows *)

ActiveStatus == {"open", "sent_to_kitchen", "cooking", "ready", "served"}
OrderStatus == ActiveStatus \cup {"none", "completed", "cancelled", "deleted"}
LiveStatus == {"pending", "cooking", "ready", "served"}
LineStatus == LiveStatus \cup {"none", "cancelled", "deleted"}
TableStatus == {"free", "occupied", "reserved", "inactive"}

Amounts == [Lines -> Nat]        \* a bill, line by line: its sum is subtotal
Stocks == [Ingredients -> 0..MaxStock]

Order == [status : OrderStatus, type : {"dine_in", "takeaway"},
          table : Tables \cup {None}, paid : BOOLEAN, bill : Amounts]

Line == [order : Orders \cup {None}, dish : Dishes \cup {None}, unit : Nat,
         qty : Nat, status : LineStatus, batch : 0..NumLines, used : Stocks]

NoBill == [l \in Lines |-> 0]
NoStock == [i \in Ingredients |-> 0]
NoOrder == [status |-> "none", type |-> "dine_in", table |-> None,
            paid |-> FALSE, bill |-> NoBill]
NoLine == [order |-> None, dish |-> None, unit |-> 0, qty |-> 0,
           status |-> "none", batch |-> 0, used |-> NoStock]

TypeOK ==
    /\ orders \in [Orders -> Order]
    /\ lines \in [Lines -> Line]
    /\ tables \in [Tables -> TableStatus]
    /\ stock \in Stocks
    /\ menus \in [Menus -> [price : Prices, onSale : BOOLEAN]]
    /\ payments \in [Orders -> Amounts \cup {None}]
    /\ received \in [Ingredients -> Int]
    /\ shrunk \in BOOLEAN

Init ==
    /\ orders = [o \in Orders |-> NoOrder]
    /\ lines = [l \in Lines |-> NoLine]
    /\ tables = [t \in Tables |-> "free"]
    /\ stock \in Stocks
    /\ menus \in [Menus -> [price : Prices, onSale : {TRUE}]]
    /\ payments = [o \in Orders |-> None]
    /\ received = stock
    /\ shrunk = FALSE

-----------------------------------------------------------------------------
(* Reading the rows of one order *)

Active(o) == orders[o].status \in ActiveStatus

\* order.Items as preloaded: soft-deleted rows are not seen.
LinesOf(ls, o) ==
    {l \in Lines : ls[l].order = o /\ ls[l].status \notin {"none", "deleted"}}
LiveLines(ls, o) == {l \in LinesOf(ls, o) : ls[l].status # "cancelled"}
HasPendingItems(o) == \E l \in LinesOf(lines, o) : lines[l].status = "pending"
HasOpenOrder(t) == \E o \in Orders : Active(o) /\ orders[o].table = t

IsNextLine(l) ==
    /\ lines[l].status = "none"
    /\ \A k \in Lines : k < l => lines[k].status # "none"

Amount(ln) == (ln.unit + OptionsTotal[ln.dish]) * ln.qty

\* priceOrder: the lines that are not cancelled, at their stored prices.
Bill(ls, o) ==
    [l \in Lines |-> IF l \in LiveLines(ls, o) THEN Amount(ls[l]) ELSE 0]

OrderStatusFromItems(current, ls, o) ==
    LET live == LiveLines(ls, o)
        rest == {l \in live : ls[l].status # "served"}
        Some(s) == \E l \in rest : ls[l].status = s
    IN  IF live = {} THEN "open"
        ELSE IF rest = {} THEN "served"
        ELSE IF \A l \in rest : ls[l].status = "ready" THEN "ready"
        ELSE IF current = "sent_to_kitchen" /\ Some("cooking") THEN current
        ELSE IF Some("cooking") \/ Some("ready") THEN "cooking"
        ELSE current

ShouldAutoCancelTakeaway(ord, ls, o) ==
    /\ ord.type = "takeaway"
    /\ LinesOf(ls, o) # {}
    /\ LiveLines(ls, o) = {}

\* refreshOrderStatusFromItems, on an order that is not closed.
RefreshedStatus(ord, ls, o) ==
    IF ShouldAutoCancelTakeaway(ord, ls, o) THEN "cancelled"
    ELSE OrderStatusFromItems(ord.status, ls, o)

Recalculated(ord, ls, o) == [ord EXCEPT !.bill = Bill(ls, o)]
Refreshed(ord, ls, o) == [ord EXCEPT !.status = RefreshedStatus(ord, ls, o)]

\* Mutant: a finished order is not reopened by a pending line.
ReopenedNever(ord) == ord

\* Mutant: a pending line takes any order back to open.
ReopenedAlways(ord) == [ord EXCEPT !.status = "open"]

\* orderStatusAfterPendingItemAdded.
Reopened(ord) ==
    [ord EXCEPT !.status = IF @ \in {"ready", "served"} THEN "open" ELSE @]

\* releaseTableIfNoOpenOrder, once order o has left the active set.
TablesWithout(o) ==
    LET t == orders[o].table
        stillOpen == \E p \in Orders \ {o} : Active(p) /\ orders[p].table = t
    IN  IF t = None \/ stillOpen THEN tables ELSE [tables EXCEPT ![t] = "free"]

-----------------------------------------------------------------------------
(* Stock *)

Least(a, b) == IF a < b THEN a ELSE b

Required(ln, i) == Recipe[ln.dish][i] * ln.qty

\* Ingredients a completed dish still has to take: no deduction row yet.
Undeducted(ln) == {i \in Ingredients : Required(ln, i) > 0 /\ ln.used[i] = 0}

\* stockDeduction: the shelf goes to zero, a shortfall is only noted.
Removed(ln, shelf) ==
    [i \in Ingredients |->
        IF i \in Undeducted(ln) THEN Least(shelf[i], Required(ln, i)) ELSE 0]

ShelfAfter(ln, shelf) ==
    [i \in Ingredients |-> shelf[i] - Removed(ln, shelf)[i]]
\* Mutant: the deduction row says the recipe, not what the shelf gave.
DeductedAsRequired(ln, shelf) ==
    [ln EXCEPT !.used = [i \in Ingredients |->
        IF i \in Undeducted(ln) THEN Required(ln, i) ELSE @[i]]]

Deducted(ln, shelf) ==
    [ln EXCEPT !.used = [i \in Ingredients |-> @[i] + Removed(ln, shelf)[i]]]

\* DisableMenusForDepletedIngredients: on sale again only by hand.
MenusAfter(touched, shelf) ==
    [m \in Menus |->
        IF \E i \in touched : BaseRecipe[m][i] > 0 /\ shelf[i] = 0
        THEN [menus[m] EXCEPT !.onSale = FALSE] ELSE menus[m]]

\* MenuRemainingServings: the base recipe of every line still queued, options
\* not counted.
QueuedLines ==
    {l \in Lines : /\ lines[l].status \in {"pending", "cooking"}
                   /\ Active(lines[l].order)}
Committed(i) ==
    SumFunctionOnSet([l \in QueuedLines |->
        BaseRecipe[MenuOf[lines[l].dish]][i] * lines[l].qty], QueuedLines)

\* Mutant: the queue's claim on the shelf is forgotten.
HasCapacityOnShelf(m, qty) ==
    \A i \in Ingredients : BaseRecipe[m][i] * qty <= stock[i]

\* ensureMenuCapacity, under the restaurant's advisory lock.
HasCapacity(m, qty) ==
    \A i \in Ingredients :
        BaseRecipe[m][i] > 0 => Committed(i) + BaseRecipe[m][i] * qty <= stock[i]

-----------------------------------------------------------------------------
(* Opening an order *)

\* A reserved table is opened only by seating its reservation.
OpenOrder(o, t, seat) ==
    /\ orders[o].status = "none"
    /\ ~HasOpenOrder(t)
    /\ tables[t] # "inactive"
    /\ seat <=> tables[t] = "reserved"
    /\ orders' = [orders EXCEPT ![o] =
                     [NoOrder EXCEPT !.status = "open", !.table = t]]
    /\ tables' = [tables EXCEPT ![t] = "occupied"]
    /\ UNCHANGED <<lines, stock, menus, payments, received, shrunk>>

OpenTakeaway(o) ==
    /\ orders[o].status = "none"
    /\ orders' = [orders EXCEPT ![o] =
                     [NoOrder EXCEPT !.status = "open", !.type = "takeaway"]]
    /\ UNCHANGED <<lines, tables, stock, menus, payments, received, shrunk>>

-----------------------------------------------------------------------------
(* Taking the order *)

NewLine(o, d, qty, status) ==
    [NoLine EXCEPT !.order = o, !.dish = d, !.unit = menus[MenuOf[d]].price,
                   !.qty = qty, !.status = status]

\* findMergeableOrderItems, kept to lines at today's price.
MergeableLines(o, d) ==
    {l \in LinesOf(lines, o) : /\ lines[l].status = "pending"
                               /\ lines[l].dish = d
                               /\ lines[l].unit = menus[MenuOf[d]].price}

\* Units of dish d land on the newest line sharing their price, or on a line
\* of their own.  "was" is the line table they land in.
PlacedUnits(was, now, o, d, qty) ==
    \/ \E l \in MergeableLines(o, d) :
          /\ \A k \in MergeableLines(o, d) : k <= l
          /\ was[l].qty + qty <= MaxQty
          /\ now = [was EXCEPT ![l].qty = @ + qty]
    \/ \E l \in Lines :
          /\ MergeableLines(o, d) = {}
          /\ IsNextLine(l)
          /\ now = [was EXCEPT ![l] = NewLine(o, d, qty, "pending")]

\* Mutant: the check for a closed order is dropped.
AddItemToAnyOrder(o, d, qty) ==
    /\ orders[o].status # "none"
    /\ menus[MenuOf[d]].onSale
    /\ HasCapacity(MenuOf[d], qty)
    /\ PlacedUnits(lines, lines', o, d, qty)
    /\ orders' = [orders EXCEPT ![o] = Reopened(Recalculated(@, lines', o))]
    /\ UNCHANGED <<tables, stock, menus, payments, received, shrunk>>

AddItem(o, d, qty) ==
    /\ Active(o)
    /\ menus[MenuOf[d]].onSale
    /\ HasCapacity(MenuOf[d], qty)
    /\ PlacedUnits(lines, lines', o, d, qty)
    /\ orders' = [orders EXCEPT ![o] = Reopened(Recalculated(@, lines', o))]
    /\ UNCHANGED <<tables, stock, menus, payments, received, shrunk>>

\* serve_immediately: the dish skips the kitchen and is deducted at once.
AddServedItem(o, d, qty) ==
    /\ Active(o)
    /\ menus[MenuOf[d]].onSale
    /\ HasCapacity(MenuOf[d], qty)
    /\ \E l \in Lines :
          LET line == NewLine(o, d, qty, "served")
          IN  /\ IsNextLine(l)
              /\ lines' = [lines EXCEPT ![l] = Deducted(line, stock)]
              /\ stock' = ShelfAfter(line, stock)
              /\ menus' = MenusAfter(Undeducted(line), stock')
    /\ orders' = [orders EXCEPT ![o] =
                     Refreshed(Recalculated(@, lines', o), lines', o)]
    /\ UNCHANGED <<tables, payments, received, shrunk>>

Editable(l) == lines[l].status = "pending" /\ Active(lines[l].order)

\* UpdateItem without a raise: other options, fewer units; the menu is not
\* asked.
LowerItem(l, d, qty) ==
    LET o == lines[l].order
    IN  /\ Editable(l)
        /\ MenuOf[d] = MenuOf[lines[l].dish]
        /\ qty <= lines[l].qty
        /\ lines' = [lines EXCEPT ![l].dish = d, ![l].qty = qty]
        /\ orders' = [orders EXCEPT ![o] = Recalculated(@, lines', o)]
        /\ UNCHANGED <<tables, stock, menus, payments, received, shrunk>>

\* UpdateItem raising a line (placeRaisedUnits): the added units stay on the
\* line only at the line's own price, otherwise they land as an add would.
RaiseItem(l, d, qty) ==
    LET o == lines[l].order
        by == qty - lines[l].qty
        edited == [lines EXCEPT ![l].dish = d]
    IN  /\ Editable(l)
        /\ MenuOf[d] = MenuOf[lines[l].dish]
        /\ by > 0
        /\ HasCapacity(MenuOf[d], by)
        /\ menus[MenuOf[d]].onSale
        /\ IF lines[l].unit = menus[MenuOf[d]].price
           THEN lines' = [edited EXCEPT ![l].qty = qty]
           ELSE PlacedUnits(edited, lines', o, d, by)
        /\ orders' = [orders EXCEPT ![o] = Recalculated(@, lines', o)]
        /\ UNCHANGED <<tables, stock, menus, payments, received, shrunk>>

\* Mutant: the total is not recalculated.
DeleteItemKeepsTotal(l) ==
    /\ Editable(l)
    /\ lines' = [lines EXCEPT ![l].status = "deleted"]
    /\ UNCHANGED <<orders, tables, stock, menus, payments, received, shrunk>>

DeleteItem(l) ==
    LET o == lines[l].order
    IN  /\ Editable(l)
        /\ lines' = [lines EXCEPT ![l].status = "deleted"]
        /\ orders' = [orders EXCEPT ![o] = Recalculated(@, lines', o)]
        /\ UNCHANGED <<tables, stock, menus, payments, received, shrunk>>

-----------------------------------------------------------------------------
(* The kitchen *)

\* MaxKitchenBatch + 1.
IsNextBatch(o, b) ==
    /\ \A l \in LinesOf(lines, o) : lines[l].batch < b
    /\ b = 1 \/ \E l \in LinesOf(lines, o) : lines[l].batch = b - 1

SendToKitchen(o) ==
    /\ Active(o)
    /\ HasPendingItems(o)
    /\ \E b \in 1..NumLines :
          /\ IsNextBatch(o, b)
          /\ lines' = [l \in Lines |->
                IF l \in LinesOf(lines, o) /\ lines[l].status = "pending"
                THEN [lines[l] EXCEPT !.status = "cooking", !.batch = b]
                ELSE lines[l]]
    /\ orders' = [orders EXCEPT ![o].status = "sent_to_kitchen"]
    /\ UNCHANGED <<tables, stock, menus, payments, received, shrunk>>

CanTransition(from, to) ==
    <<from, to>> \in {<<"pending", "cooking">>, <<"pending", "cancelled">>,
                      <<"cooking", "ready">>, <<"cooking", "cancelled">>,
                      <<"ready", "cooking">>, <<"ready", "served">>,
                      <<"ready", "cancelled">>, <<"served", "cancelled">>}

\* UpdateItemStatus to cooking: the kitchen starts a line by hand, or recalls
\* one it had called ready.  The deduction rows of a recalled line stay.
StartCooking(l) ==
    LET o == lines[l].order
    IN  /\ CanTransition(lines[l].status, "cooking")
        /\ Active(o)
        /\ lines' = [lines EXCEPT ![l].status = "cooking"]
        /\ orders' = [orders EXCEPT ![o] = Refreshed(@, lines', o)]
        /\ UNCHANGED <<tables, stock, menus, payments, received, shrunk>>

\* Mutant: only serving takes the recipe off the shelf.
FinishItemDeductsWhenServed(l, status) ==
    LET o == lines[l].order
        taken == IF status = "served" THEN lines[l] ELSE [lines[l] EXCEPT !.qty = 0]
    IN  /\ CanTransition(lines[l].status, status)
        /\ Active(o)
        /\ lines' = [lines EXCEPT ![l] =
              [@ EXCEPT !.used = Deducted(taken, stock).used, !.status = status]]
        /\ stock' = ShelfAfter(taken, stock)
        /\ menus' = MenusAfter(Undeducted(taken), stock')
        /\ orders' = [orders EXCEPT ![o] = Refreshed(@, lines', o)]
        /\ UNCHANGED <<tables, payments, received, shrunk>>

\* UpdateItemStatus to ready or served: both take the recipe off the shelf.
FinishItem(l, status) ==
    LET o == lines[l].order
    IN  /\ CanTransition(lines[l].status, status)
        /\ Active(o)
        /\ lines' = [lines EXCEPT ![l] =
                        [Deducted(@, stock) EXCEPT !.status = status]]
        /\ stock' = ShelfAfter(lines[l], stock)
        /\ menus' = MenusAfter(Undeducted(lines[l]), stock')
        /\ orders' = [orders EXCEPT ![o] = Refreshed(@, lines', o)]
        /\ UNCHANGED <<tables, payments, received, shrunk>>

\* Mutant: a served line of a paid order can still be voided.
VoidItemOfAnyOrder(l, count, frontOfHouse) ==
    /\ CanTransition(lines[l].status, "cancelled")
    /\ count = lines[l].qty
    /\ lines' = [lines EXCEPT ![l].status = "cancelled"]
    /\ UNCHANGED <<orders, tables, stock, menus, payments, received, shrunk>>

\* VoidItemUnits, and UpdateItemStatus to cancelled (all of the units).  The
\* front of house may void only once every line is sent.
VoidItem(l, count, frontOfHouse) ==
    LET o == lines[l].order
    IN  /\ CanTransition(lines[l].status, "cancelled")
        /\ Active(o)
        /\ frontOfHouse => ~HasPendingItems(o)
        /\ \/ /\ count = lines[l].qty
              /\ lines' = [lines EXCEPT ![l].status = "cancelled"]
           \/ /\ count < lines[l].qty
              /\ \E k \in Lines :
                    /\ IsNextLine(k)
                    /\ lines' = [lines EXCEPT
                          ![l].qty = @ - count,
                          ![k] = [lines[l] EXCEPT !.qty = count, !.used = NoStock,
                                                  !.status = "cancelled"]]
        /\ orders' = [orders EXCEPT ![o] =
                         Refreshed(Recalculated(@, lines', o), lines', o)]
        /\ UNCHANGED <<tables, stock, menus, payments, received, shrunk>>

-----------------------------------------------------------------------------
(* Closing the order *)

\* Judged on the effective status, as CancelOrder does.
NeverReachedKitchen(o) ==
    /\ OrderStatusFromItems(orders[o].status, lines, o) = "open"
    /\ \A l \in LinesOf(lines, o) : lines[l].status \in {"pending", "cancelled"}

\* Mutant: only what the kitchen has not started is cancelled.
CancelOrderLeavesCooking(o, supervisor) ==
    /\ Active(o)
    /\ supervisor \/ NeverReachedKitchen(o)
    /\ lines' = [l \in Lines |->
          IF l \in LinesOf(lines, o) /\ lines[l].status = "pending"
          THEN [lines[l] EXCEPT !.status = "cancelled"] ELSE lines[l]]
    /\ orders' = [orders EXCEPT ![o].status = "cancelled"]
    /\ tables' = TablesWithout(o)
    /\ UNCHANGED <<stock, menus, payments, received, shrunk>>

CancelOrder(o, supervisor) ==
    /\ Active(o)
    /\ supervisor \/ NeverReachedKitchen(o)
    /\ lines' = [l \in Lines |->
          IF l \in LiveLines(lines, o) /\ lines[l].status # "served"
          THEN [lines[l] EXCEPT !.status = "cancelled"] ELSE lines[l]]
    /\ orders' = [orders EXCEPT ![o].status = "cancelled"]
    /\ tables' = TablesWithout(o)
    /\ UNCHANGED <<stock, menus, payments, received, shrunk>>

\* validateEmptyTableClose reads the stored status.  An order nothing was put
\* on is soft-deleted, one whose lines were all voided is kept as cancelled.
CanCloseEmptyTable(o) ==
    orders[o].status = "open" /\ LiveLines(lines, o) = {}

CloseEmptyTable(o) ==
    /\ CanCloseEmptyTable(o)
    /\ orders' = [orders EXCEPT ![o].status =
                     IF LinesOf(lines, o) = {} THEN "deleted" ELSE "cancelled"]
    /\ tables' = TablesWithout(o)
    /\ UNCHANGED <<lines, stock, menus, payments, received, shrunk>>

\* refreshOrderStatusFromItems, then validateOrderReadyForPayment.
CanPay(o) ==
    LET status == RefreshedStatus(orders[o], lines, o)
    IN  /\ Active(o)
        /\ OrderStatusFromItems(status, lines, o) \in {"ready", "served"}
        /\ LiveLines(lines, o) # {}
        /\ \A l \in LiveLines(lines, o) : lines[l].status \in {"ready", "served"}

\* Ready lines whose recipe an empty shelf could not give: finalising tries
\* them again, in line order.
UnsettledLines(o) ==
    {l \in LinesOf(lines, o) : lines[l].status = "ready" /\ Undeducted(lines[l]) # {}}

\* before[l] is the shelf when the turn of line l comes, "after" the shelf when
\* every line of retry has had its turn.
FinalisedInOrder(retry, before, after) ==
    /\ \A l \in retry :
          IF \A k \in retry : l <= k THEN before[l] = stock
          ELSE \E k \in retry : /\ k < l
                                /\ \A j \in retry : j <= k \/ l <= j
                                /\ before[l] = ShelfAfter(lines[k], before[k])
    /\ \/ retry = {} /\ after = stock
       \/ \E l \in retry : /\ \A k \in retry : k <= l
                           /\ after = ShelfAfter(lines[l], before[l])

PayOrder(o) ==
    LET retry == UnsettledLines(o)
    IN  /\ CanPay(o)
        /\ \E before \in [retry -> Stocks] :
              /\ FinalisedInOrder(retry, before, stock')
              /\ lines' = [l \in Lines |->
                    IF l \in retry
                    THEN [Deducted(lines[l], before[l]) EXCEPT !.status = "served"]
                    ELSE IF l \in LinesOf(lines, o) /\ lines[l].status = "ready"
                    THEN [lines[l] EXCEPT !.status = "served"] ELSE lines[l]]
        /\ menus' = MenusAfter(UNION {Undeducted(lines[l]) : l \in retry}, stock')
        /\ orders' = [orders EXCEPT ![o] =
              [Recalculated(@, lines', o) EXCEPT !.status = "completed", !.paid = TRUE]]
        /\ payments' = [payments EXCEPT ![o] = Bill(lines', o)]
        /\ tables' = TablesWithout(o)
        /\ UNCHANGED <<received, shrunk>>

-----------------------------------------------------------------------------
(* The other services, as far as they write the rows orders depend on *)

\* Mutant: a table may be freed by hand under its order.
SetAnyTableStatus(t, status) ==
    /\ status = "inactive" => tables[t] \notin {"occupied", "reserved"}
    /\ tables' = [tables EXCEPT ![t] = status]
    /\ UNCHANGED <<orders, lines, stock, menus, payments, received, shrunk>>

\* TableService.UpdateTableStatus, and the hold and release of ReserveTable and
\* CancelReservation: never under an open order, never occupied by hand.
SetTableStatus(t, status) ==
    /\ ~HasOpenOrder(t)
    /\ status = "inactive" => tables[t] \notin {"occupied", "reserved"}
    /\ tables' = [tables EXCEPT ![t] = status]
    /\ UNCHANGED <<orders, lines, stock, menus, payments, received, shrunk>>

\* IngredientService.AdjustStock: in, out and count all set a level.
AdjustStock(i, level) ==
    /\ stock' = [stock EXCEPT ![i] = level]
    /\ received' = [received EXCEPT ![i] = @ + level - stock[i]]
    /\ shrunk' = (shrunk \/ level < stock[i])
    /\ menus' = IF level = 0 THEN MenusAfter({i}, stock') ELSE menus
    /\ UNCHANGED <<orders, lines, tables, payments>>

\* MenuService, price or availability; module IngredientStock has the stale read.
EditMenu(m, price, onSale) ==
    /\ menus' = [menus EXCEPT ![m] = [price |-> price, onSale |-> onSale]]
    /\ UNCHANGED <<orders, lines, tables, stock, payments, received, shrunk>>

-----------------------------------------------------------------------------
(* Every committed transaction *)

Quantities == 1..MaxQty

OpenStep ==
    \E o \in Orders :
        OpenTakeaway(o) \/ \E t \in Tables, seat \in BOOLEAN : OpenOrder(o, t, seat)

TakeStep ==
    \/ \E o \in Orders, d \in Dishes, q \in Quantities :
          AddItem(o, d, q) \/ AddServedItem(o, d, q)
    \/ \E l \in Lines, d \in Dishes, q \in Quantities :
          lines[l].dish # None /\ (LowerItem(l, d, q) \/ RaiseItem(l, d, q))
    \/ \E l \in Lines : DeleteItem(l)

KitchenStep ==
    \/ \E o \in Orders : SendToKitchen(o)
    \/ \E l \in Lines :
          \/ StartCooking(l)
          \/ \E status \in {"ready", "served"} : FinishItem(l, status)
          \/ \E count \in Quantities, frontOfHouse \in BOOLEAN :
                VoidItem(l, count, frontOfHouse)

CloseStep ==
    \E o \in Orders :
        \/ \E supervisor \in BOOLEAN : CancelOrder(o, supervisor)
        \/ CloseEmptyTable(o)
        \/ PayOrder(o)

SettingStep ==
    \/ \E t \in Tables, status \in TableStatus \ {"occupied"} : SetTableStatus(t, status)
    \/ \E i \in Ingredients, level \in 0..MaxStock : AdjustStock(i, level)
    \/ \E m \in Menus, price \in Prices, onSale \in BOOLEAN : EditMenu(m, price, onSale)

Next == OpenStep \/ TakeStep \/ KitchenStep \/ CloseStep \/ SettingStep

Spec == Init /\ [][Next]_vars

-----------------------------------------------------------------------------
(* What the order flow promises *)

\* A table is occupied exactly while an order that is neither paid nor
\* cancelled sits on it, and at most one does (releaseTableIfNoOpenOrder,
\* OpenOrder, UpdateTableStatus).
TableFollowsOrders ==
    \A t \in Tables :
        /\ tables[t] = "occupied" <=> HasOpenOrder(t)
        /\ \A o, p \in Orders :
              (Active(o) /\ Active(p) /\ orders[o].table = t /\ orders[p].table = t)
                  => o = p

\* A stored status of ready or served is what the lines say, so no line sent,
\* recalled or still pending hides behind a finished order on the floor plan
\* and in the kitchen queue (reopenForPendingItems, refreshOrderStatusFromItems).
FinishedStatusIsTrue ==
    \A o \in Orders :
        orders[o].status \in {"ready", "served"} =>
            OrderStatusFromItems(orders[o].status, lines, o) = orders[o].status

\* While a dish is with the cook, the stored status of its order is one that the
\* assistant counts as in the kitchen (ai_joyboy_factsheet.go:799): no add, void,
\* delete or recall after the order was sent takes the order out of that count.
DishesInTheKitchenAreCounted ==
    \A l \in Lines :
        lines[l].status = "cooking" =>
            orders[lines[l].order].status \in {"sent_to_kitchen", "cooking"}

\* A closed order leaves no work and no claim on stock behind: whatever was not
\* served is cancelled, and an order deleted as empty has no rows
\* (cancelUnservedItems, CloseEmptyTable, PayOrder).
ClosedOrdersHoldNoWork ==
    \A o \in Orders :
        ~Active(o) =>
            \A l \in LinesOf(lines, o) :
                /\ lines[l].status \in {"served", "cancelled"}
                /\ orders[o].status \notin {"none", "deleted"}

\* The amount stored on an open or paid order is its lines' sum at every
\* commit: no handler forgets recalcOrderTotals.
StoredBillIsCurrent ==
    \A o \in Orders :
        orders[o].status \in ActiveStatus \cup {"completed"} =>
            orders[o].bill = Bill(lines, o)

\* Money taken: the completed orders are the paid ones, each with one payment
\* row for exactly the amount its lines come to.
PaidExactlyTheBill ==
    \A o \in Orders :
        /\ orders[o].paid <=> orders[o].status = "completed"
        /\ orders[o].paid <=> payments[o] # None
        /\ orders[o].paid => payments[o] = Bill(lines, o)

KeepsClosedOrders ==
    \A o \in Orders :
        orders[o].status \in {"completed", "cancelled", "deleted"} =>
            /\ orders'[o] = orders[o]
            /\ payments'[o] = payments[o]
            /\ \A l \in LinesOf(lines, o) : lines'[l] = lines[l]

\* Whatever staff do later, an order that was closed keeps its row, its lines
\* and its payment: no transaction reaches past isTerminalOrder.
ClosedOrdersAreFrozen == [][KeepsClosedOrders]_vars

\* Stock is neither lost nor taken twice: what came in by hand is on the shelf
\* or in exactly one deduction row per line and ingredient, through recalls,
\* partial voids and retries at the till (HasInventoryDeduction).
StockIsAccountedFor ==
    \A i \in Ingredients :
        received[i] = stock[i] + SumFunctionOnSet([l \in Lines |-> lines[l].used[i]], Lines)

OptionsNeverAdd ==
    \A d \in Dishes, i \in Ingredients : Recipe[d][i] <= BaseRecipe[MenuOf[d]][i]

\* What the queue still has to take from the shelf.
Owed(i) ==
    SumFunctionOnSet([l \in QueuedLines |->
        IF i \in Undeducted(lines[l]) THEN Required(lines[l], i) ELSE 0], QueuedLines)

\* No oversell: unless someone lowers a count by hand or an option adds to the
\* recipe, the shelf covers every dish already promised (ensureMenuCapacity).
ShelfCoversTheQueue ==
    (~shrunk /\ OptionsNeverAdd) => \A i \in Ingredients : Owed(i) <= stock[i]

\* Under the same conditions a dish that left the kitchen has had its whole
\* recipe taken off the shelf, though its line may have been split since.
CookedDishesAreDeducted ==
    (~shrunk /\ OptionsNeverAdd) =>
        \A l \in Lines :
            lines[l].status \in {"ready", "served"} =>
                \A i \in Ingredients : lines[l].used[i] >= Required(lines[l], i)

-----------------------------------------------------------------------------
(* Comments of the source that do not hold as they stand (README, section 4) *)

\* validateEmptyTableClose: "only outstanding non-cancelled items should block
\* closing it".  DeleteItem leaves a stored status behind that blocks it too.
OnlyLiveLinesBlockEmptyClose ==
    \A o \in Orders :
        (Active(o) /\ LiveLines(lines, o) = {}) => CanCloseEmptyTable(o)

\* ensureMenuCapacity "blocks an order that would claim more portions than
\* current stock can still promise".  Not with an option that adds to the recipe.
CapacityCheckPreventsOversell ==
    ~shrunk => \A i \in Ingredients : Owed(i) <= stock[i]

\* MenuRemainingServings: committed is what is "still queued and NOT yet deducted
\* from stock".  A dish recalled to cooking is both.
CommittedIsNotYetDeducted ==
    \A l \in QueuedLines : lines[l].used = NoStock
=============================================================================
