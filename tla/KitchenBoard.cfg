SPECIFICATION BoardSpec
CONSTANTS
    NumChanges = 2
    NumFailures = 1
INVARIANTS NoRefreshIsForgotten
PROPERTIES BoardNeverGoesBack
