SPECIFICATION TasteSpec
CONSTANTS
    d1 = d1
    d2 = d2
    h1 = h1
    h2 = h2
    Dishes <- MCDishes
    Calls <- MCCalls
    MaxItems = 2
    Threshold = 2
    MaxRequests = 5
SYMMETRY Symmetry
INVARIANTS
    NeverOvercounted
    UnlockedHonestly
CHECK_DEADLOCK FALSE
