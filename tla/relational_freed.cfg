SPECIFICATION RelSpec

CONSTANTS
    Width = 3
    MaxAny = 1
    MaxBound = 31
    ChooseBound = 3
    DomainSet = {"sign"}
    Ops <- SignNe
    Ranges = {}
    Lifted = {0}
    MaxNodes = 4
    MaxBranches = 1
    Strict = FALSE

INVARIANT
    Covered

CHECK_DEADLOCK FALSE
