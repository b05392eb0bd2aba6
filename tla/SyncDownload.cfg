SPECIFICATION FairSpec
CONSTANTS
    Reactions <- MCReactions
    Ratings <- MCRatings
    Limit = 1
    MaxPages = 2
    MaxTime = 2
    MaxWrites = 3
    MaxFailures = 1
INVARIANTS
    NothingSkipped
PROPERTIES
    ImplementsDelivery
    
CHECK_DEADLOCK FALSE
