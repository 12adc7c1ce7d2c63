SPECIFICATION Spec
CONSTANTS
    t1 = t1  t2 = t2  ann = ann  bob = bob  evening = evening  night = night
    none = none
    None = none
    Tables = {t1, t2}
    NumBookings = 3
    Guests = {ann, bob}
    Slots = {evening}
SYMMETRY FloorSymmetry
CHECK_DEADLOCK FALSE
INVARIANTS HoldsAreOnTheFloor OneBookingPerSlot DeletedTablesAreBare
PROPERTIES BookingsForLaterSurvive
