CONSTANTS
    Workers = {w1, w2}
    Tasks = {t1, t2, t3}
    NoTask = NoTask
SPECIFICATION Spec
CHECK_DEADLOCK FALSE
INVARIANT Inv
PROPERTY EveryTaskRuns
PROPERTY StopReturns
PROPERTY WaitIdleReturns
