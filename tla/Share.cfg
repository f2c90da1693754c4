CONSTANTS
    Subscribers = {c1, c2, c3}
    Empty = Empty
    Result = Result
SPECIFICATION Spec
CHECK_DEADLOCK FALSE
INVARIANT Inv
INVARIANT CalledRight
PROPERTY EveryEmitCalled
PROPERTY Reclaimed
