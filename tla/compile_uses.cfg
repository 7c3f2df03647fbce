SPECIFICATION CompileSpec

CONSTANT
    Programs <- SumProgram

INVARIANT
    NoDanglingUse

CHECK_DEADLOCK FALSE
