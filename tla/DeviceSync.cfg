SPECIFICATION FairSpec
CONSTANTS
    Accounts = {alice, bob}
    Pro = {alice}
    Dishes = {d1}
    Taps = {t1}
    Nobody = Nobody
    MaxWrites = 2
    MaxDisturbances = 1
INVARIANTS
    TypeOK
    OneRowPerDish
    SyncedWasSent
    NoMisattribution
PROPERTIES
    EventuallySynced
CHECK_DEADLOCK FALSE
