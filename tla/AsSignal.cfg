SPECIFICATION Spec
CONSTANT p1 = p1
CONSTANT m = m
CONSTANT c1 = c1
CONSTANT Pipelines = {p1}
CONSTANT Executors = {m}
CONSTANT Stages <- MCStages
CONSTANT Detached = {p1}
CONSTANT MostPerCall = 1
CONSTANT Coroutines = {c1}
CONSTANT Type <- MCType
CONSTANT Body <- MCBody
CONSTANT Starts <- MCStarts
CONSTANT Roots = {}
INVARIANT TasksLive
