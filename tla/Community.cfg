SPECIFICATION Spec
CONSTANTS
    u1 = u1
    u2 = u2
    h1 = h1
    h2 = h2
    Users <- MCUsers
    Handlers <- MCHandlers
    Tables <- MCTables
    MaxWrites = 2
    MaxFailures = 1
SYMMETRY Symmetry
INVARIANTS
    TypeOK
    AggregatesExact
    NothingLost
    NoOrphans
    ImagesHaveFiles
CHECK_DEADLOCK FALSE
