SPECIFICATION Spec
CONSTANTS
    Totals = {1, 2}
    MaxChanges = 1
    MaxOvertaken = 1
INVARIANTS OwnChangesArrive OldBillsSaySo SpinnerHasItsLoad NobodyIsShortchanged
PROPERTIES BillNeverGoesBack BillCatchesUp
