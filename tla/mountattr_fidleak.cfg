CONSTANTS
    Threads = {t1, t2}
    Modes <- MCModes
    MaxLen = 2
    MaxFids = 2
    Idle = Idle
    NoAttr = NoAttr
    NoCache = NoCache
    NoEntry = NoEntry
SPECIFICATION Spec
INVARIANT FidsAccounted
