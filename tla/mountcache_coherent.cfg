CONSTANTS
    Threads = {t1, t2}
    Names = {a, b}
    Idle = Idle
    NoCache = NoCache
SPECIFICATION Spec
INVARIANT ListingCoherent
