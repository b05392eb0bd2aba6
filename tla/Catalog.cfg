SPECIFICATION FairSpec
CONSTANTS
    Items = {"starter", "main", "cake"}
    Name <- MCName
    Menu <- MCMenu
    Handlers = {h1, h2}
    Seeders = {s1, s2}
    MaxRequests = 3
    MaxFailures = 2
INVARIANTS
    OneSeeding
    TwiceOnlyByRace
    DoubledOnlyByRace
PROPERTIES
    EventuallySeeded
CHECK_DEADLOCK FALSE
