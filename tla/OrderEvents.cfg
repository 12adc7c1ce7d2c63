SPECIFICATION FairSpec
CONSTANTS
    phone = phone  sent = sent  added = added  none = none
    None = none
    Actions = {sent, added}
    KitchenActions = {sent}
    Clients = {phone}
    Screens <- EveryScreen
    MaxChanges = 2
    MaxWire = 2
    MaxDrops = 1
    MaxFailures = 1
INVARIANTS NothingIsMissed
PROPERTIES ScreenCatchesUp
