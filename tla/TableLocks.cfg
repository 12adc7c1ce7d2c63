SPECIFICATION Spec
CONSTANTS
    t1 = t1  t2 = t2  ann = ann  evening = evening  none = none
    s1 = s1  s2 = s2
    None = none
    Tables = {t1, t2}
    InIdOrder <- TwoInOrder
    NumBookings = 1
    Guests = {ann}
    Slots = {evening}
    Sessions = {s1, s2}
    Arriving <- AllForTheFirst
SYMMETRY SessionSymmetry
INVARIANTS SomebodyCanMove ChecksStayTrue
PROPERTIES FloorIsImplemented
