SPECIFICATION Spec
CONSTANTS
    Accounts = {alice, bob}
    Pro = {alice}
    Dishes = {d1}
    Taps = {t1}
    Nobody = Nobody
    MaxWrites = 2
    MaxDisturbances = 1
PROPERTIES
    LastWriteWins
CHECK_DEADLOCK FALSE
