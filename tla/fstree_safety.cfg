CONSTANTS
    Names = {a, b}
    Users = {u1, u2}
    Fids = {f1, f2}
    NodeIds = {r, n1, n2}
    RootNode = r
    RootName = RootName
    RootUser = u1
    RootPerms = 493
    MaxQid = 3
    NoNode = NoNode
    NotOpen = NotOpen
    Idle = Idle
    Perms <- MCPerms
    OpenModes <- MCOpenModes
SPECIFICATION Spec
INVARIANT QidUnique
PROPERTY QidCounterSpec
CHECK_DEADLOCK FALSE
