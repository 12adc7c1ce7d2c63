SPECIFICATION ShelfSpec
CONSTANTS
    ed = ed  menuEd = menuEd  closed = closed
    Closed = closed
    MaxQuantity = 3
    NumLots = 3
    NumDates = 2
    Percents = {0, 50}
    IngredientEditors = {ed}
    MenuEditors = {menuEd}
INVARIANTS StockIsExplained
PROPERTIES SoonestIsUsedFirst
