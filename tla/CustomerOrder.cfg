SPECIFICATION Spec
CONSTANTS
    ann = ann  bob = bob  rice = rice  soup = soup
    Guests = {ann, bob}
    Lines = {rice, soup}
    NumOrders = 2
    NumKeys = 2
    NumSends = 2
    NumTokens = 2
    Fences = {"inside", "unverified", "outside"}
SYMMETRY PhoneSymmetry
INVARIANTS RetriesOrderOnce GuestsKeepTheirCode
PROPERTIES HeldLinesWaitForStaff
