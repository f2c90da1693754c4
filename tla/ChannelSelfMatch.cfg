CONSTANTS
    chA = chA
    selS = selS
    sRecv = sRecv
    sSend = sSend
    pRecv = pRecv
    pSend = pSend
    None = None
    Channels = {chA}
    Nodes <- MCNodes
    Chan <- MCChan
    Dir <- MCDir
    Selects = {selS}
    Cases <- MCCases
    Timers = {}
    Closable = {chA}
    Cancels = {pSend}
SPECIFICATION Spec
INVARIANT NoSelfMatch
