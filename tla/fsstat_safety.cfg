CONSTANTS
    Files = {file1, file2}
    Threads = {t1, t2}
    Names = {a, b}
    Sentinel = Sentinel
    NoName = NoName
    NoThread = NoThread
    Modes <- MCModes
SPECIFICATION Spec
INVARIANT StatWholeAtRest
