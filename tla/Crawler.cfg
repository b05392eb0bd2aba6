SPECIFICATION CrawlFairSpec
CONSTANTS
    Cities <- MCCities
    Triggers = {t1, t2}
    Scheduler = scheduler
    Period = 2
    MaxFailures = 2
INVARIANTS
    OverlapOnlyByRace
PROPERTIES
    EveryCityAgain
CHECK_DEADLOCK FALSE
