SPECIFICATION RelSpec

CONSTANTS
    Width = 3
    MaxAny = 2
    MaxBound = 31
    ChooseBound = 3
    DomainSet = {"interval", "sign", "zero", "bitvec", "unit", "constant", "trivial", "term"}
    Ops <- MCOps
    Ranges <- MCRanges
    Lifted = {0, 1, 2}
    MaxNodes = 4
    MaxBranches = 2
    Strict = TRUE

INVARIANT
    RelTypeOK
    Covered
    ChoicesInRange
    SplitsDecide

PROPERTY
    Narrowing

CHECK_DEADLOCK FALSE
