CONSTANTS
    Users = {u1, u2}
    NoCall = NoCall
    Modes <- MCModes
    OModes <- MCOModes
SPECIFICATION Spec
INVARIANT OwnerJudgedByOwnerBits
