SPECIFICATION MCSpec
CONSTANTS
    Dishes = {first, second}
    first = first
    Creators = {c1}
    Permits = {p1, spent}
    spent = spent
    None = None
    Capacity = 1
    MaxDisturbances = 1
INVARIANTS
    ClassifiedHasPriors
    NoJobForgotten
PROPERTIES
    OverturnedOnlyIfDoubled
    EventuallySettled
CHECK_DEADLOCK FALSE
