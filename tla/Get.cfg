CONSTANTS
    pa = pa
    pm = pm
    Pipelines = {pa, pm}
    Kind <- MCKind
SPECIFICATION Spec
CHECK_DEADLOCK FALSE
INVARIANT Inv
INVARIANT GetsWhatWasKept
PROPERTY GetReturns
