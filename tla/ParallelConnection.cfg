CONSTANTS
    N = 3
SPECIFICATION Spec
INVARIANT Inv
INVARIANT NoUseAfterFree
INVARIANT CancelInTime
PROPERTY Reclaimed
PROPERTY AllCompleteDelivers
