SPECIFICATION CompileSpec

CONSTANT
    Programs <- MCPrograms

INVARIANT
    DfaTypeOK
    Saturated
    LeastFixpoint
    FlowCovered
    EdgesSupported
    CompileTypeOK
    PlaceholdersFilled
    TaintsFollow
    TaintsComplete
    OperandsLinked
    BranchesDecided

PROPERTY
    AbstractOnce
    Terminates

CHECK_DEADLOCK FALSE
