CONSTANTS
    chA = chA
    chB = chB
    selS = selS
    selT = selT
    sSend = sSend
    sRecv = sRecv
    tSend = tSend
    tRecv = tRecv
    pRecv = pRecv
    pSend = pSend
    None = None
    Channels = {chA, chB}
    Nodes <- MCNodes
    Chan <- MCChan
    Dir <- MCDir
    Selects = {selS, selT}
    Cases <- MCCases
    Timers = {selT}
    Closable = {chA}
    Cancels = {pSend}
SPECIFICATION Spec
INVARIANT Inv
INVARIANT SelectCommitsOnce
INVARIANT BothOrNeither
INVARIANT NoLostRendezvous
PROPERTY NoOvertaking
PROPERTY SelectSettles
PROPERTY CancelSettles
