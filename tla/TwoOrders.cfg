SPECIFICATION Spec
CONSTANTS
    o1 = o1  o2 = o2  t1 = t1  flour = flour  padThai = padThai
    plain = plain  without = without  none = none
    None = none
    Menus = {padThai}
    MenuOf <- AllPadThai
    OptionsTotal <- FreeOptions
    Orders = {o1, o2}
    NumLines = 2
    Tables = {t1}
    Ingredients = {}
    Dishes = {plain}
    Recipe <- NoRecipe
    BaseRecipe <- NoBase
    Prices = {1, 2}
    MaxQty = 2
    MaxStock = 0
SYMMETRY OrderSymmetry
INVARIANTS FinishedStatusIsTrue DishesInTheKitchenAreCounted TableFollowsOrders ClosedOrdersHoldNoWork StoredBillIsCurrent PaidExactlyTheBill
PROPERTIES ClosedOrdersAreFrozen
