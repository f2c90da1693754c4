CONSTANTS
    t1 = t1
    t2 = t2
    t3 = t3
    Threads = {t1, t2, t3}
    Words = {1, 2}
    Program <- MCProgram
    InitMem <- MCInitMem
SPECIFICATION Spec
INVARIANT Inv
PROPERTY Atomic
PROPERTY NonBlocking
