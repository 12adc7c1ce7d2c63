SPECIFICATION Spec
CONSTANTS
    tap1 = tap1  tap2 = tap2 tap3 = tap3
    NumItems = 2
    Kind <- MCKind
    Questions <- MCQuestions
    Requests = {tap1, tap2, tap3}
    MaxRevisions = 1
    MaxCrashes = 1
    MaxStalls = 2
    MaxFaults = 1
SYMMETRY RequestSymmetry
CHECK_DEADLOCK FALSE
INVARIANTS RepeatsAreForMishaps ReportIsHonest ItemsAreAuditedOnce RunsWhatWasConfirmed
