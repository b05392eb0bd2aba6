SPECIFICATION Spec
CONSTANTS
    Tokens = {t1, t2, t3}
    Handlers = {h1, h2}
    SignedIn = SignedIn
    Lifetime = 2
    Grace = 1
    Leeway = 1
    Retention = 1
    MaxTime = 4
SYMMETRY Symmetry
INVARIANTS
    OneSuccessor
    RevokeAllSticks
    NukeNeedsStaleReplay
    ReplayIsRecognised
CHECK_DEADLOCK FALSE
