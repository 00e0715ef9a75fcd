CONSTANTS
    Names = {x, y}
    Files = {f}
    Objs = {o1, o2, o3}
    SrvIds = {s1, s2, s3}
    None = None
    NoCache = NoCache
SPECIFICATION Spec
CHECK_DEADLOCK FALSE
INVARIANT DirMatchesDentry
