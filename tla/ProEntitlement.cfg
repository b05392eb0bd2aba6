SPECIFICATION ProSpec
CONSTANTS
    Users = {u1, u2}
    Purchases = {p1, p2}
    NoPurchase = NoPurchase
    Calls = {h1, h2}
    MaxEvents = 3
SYMMETRY Symmetry
INVARIANTS
    OneAccountPerPurchase
    NewestWins
    SettledAgrees
CHECK_DEADLOCK FALSE
