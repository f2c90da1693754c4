SPECIFICATION Spec
CONSTANT p1 = p1
CONSTANT p2 = p2
CONSTANT p3 = p3
CONSTANT p4 = p4
CONSTANT p5 = p5
CONSTANT p6 = p6
CONSTANT m = m
CONSTANT n = n
CONSTANT r = r
CONSTANT c1 = c1
CONSTANT c2 = c2
CONSTANT k = k
CONSTANT d = d
CONSTANT ag = ag
CONSTANT g = g
CONSTANT q = q
CONSTANT h = h
CONSTANT Pipelines = {p1, p2, p3, p4, p5, p6}
CONSTANT Executors = {m, n}
CONSTANT Stages <- MCStages
CONSTANT Detached = {p4, p5}
CONSTANT MostPerCall = 1
CONSTANT Coroutines = {r, c1, c2, k, d, q, ag, g, h}
CONSTANT Type <- MCType
CONSTANT Body <- MCBody
CONSTANT Starts <- MCStarts
CONSTANT Roots = {r}
INVARIANT CoroutineInv
INVARIANT Composes
INVARIANT TasksLive
PROPERTY OnItsExecutor
PROPERTY EveryEmitDelivers
PROPERTY FramesReclaimed
