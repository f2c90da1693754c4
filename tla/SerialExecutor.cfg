CONSTANTS
    Threads = {th1, th2, th3}
    Tasks = {t1, t2, t3}
    Modulus = 6
    MaxOutstanding = 5
    NoTask = NoTask
SPECIFICATION Spec
INVARIANT IInv
INVARIANT BatchNotEmpty
INVARIANT NothingLost
PROPERTY Refinement
PROPERTY EventuallyTaken
