SPECIFICATION Spec
CONSTANTS
    o1 = o1  o2 = o2  t1 = t1  flour = flour  padThai = padThai
    plain = plain  without = without  none = none
    None = none
    Menus = {padThai}
    MenuOf <- AllPadThai
    OptionsTotal <- FreeOptions
    Orders = {o1, o2}
    NumLines = 2
    Tables = {}
    Ingredients = {flour}
    Dishes = {plain, without}
    Recipe <- OptionRecipe
    BaseRecipe <- UnitBase
    Prices = {1}
    MaxQty = 2
    MaxStock = 2
SYMMETRY OrderSymmetry
INVARIANTS StockIsAccountedFor ShelfCoversTheQueue CookedDishesAreDeducted
