SPECIFICATION Spec
CONSTANTS
    Keys = {"floor", "takings", "menu"}
    Shops = {"a", "b"}
    MaxChanges = 1
    MaxDays = 1
    MaxSwitches = 2
    MaxOrphans = 1
INVARIANTS ToldChangesAreFetched NumbersAreThisShops
PROPERTIES NumbersNeverGoBack PolledValuesCatchUp
