SPECIFICATION MCSpec
CONSTANTS
    Suggestions = {s1}
    Users = {author, v1, v2}
    Handlers = {h1, h2}
    author = author
    field = field
    entity0 = entity0
    Original = Original
    Threshold = 2
    Author <- MCAuthor
    Field <- MCField
    Entities = {entity0, entity1}
    Fields <- MCFields
INVARIANTS
    
    NetVotesExact
    AutoApplyHadVoters
PROPERTIES
    EventuallyDecided
CHECK_DEADLOCK FALSE
