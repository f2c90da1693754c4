CONSTANTS
    t1 = t1
    t2 = t2
    t3 = t3
    Threads = {t1, t2}
    Words = {1, 2}
    Program <- MCCrossing
    InitMem <- MCInitMem
SPECIFICATION Spec
INVARIANT NoCircularHelp
