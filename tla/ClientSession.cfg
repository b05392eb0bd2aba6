SPECIFICATION FairSpec
CONSTANTS
    Users = {alice, bob}
    Calls = {c1, c2}
    Buyers = {c2}
    Ui = Ui
    Refresh = Refresh
    Nobody = Nobody
    MaxSends = 2
    MaxSignIns = 2
    MaxExpiries = 1
    MaxFailures = 1
INVARIANTS
    TypeOK
    IdentityMatches
PROPERTIES
    StaysSignedIn
    EveryCallEnds
CHECK_DEADLOCK FALSE
