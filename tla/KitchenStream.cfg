SPECIFICATION Spec
CONSTANTS
    phone = phone  sent = sent  added = added  none = none
    None = none
    Actions = {sent, added}
    KitchenActions = {sent}
    Clients = {phone}
    Screens <- KitchenScreen
    MaxChanges = 2
    MaxWire = 2
    MaxDrops = 0
    MaxFailures = 0
INVARIANTS OneQueuedEventIsEnough
