---------------------------- MODULE MCChannelSame ----------------------------
(* One channel, which may be closed.  Select selS first receives from it and  *)
(* then sends on it; besides, there are a plain receiver and a plain sender.  *)
EXTENDS Channel

CONSTANTS chA, selS, sRecv, sSend, pRecv, pSend

MCNodes == {sRecv, sSend, pRecv, pSend}
MCChan == [n \in MCNodes |-> chA]
MCDir == [n \in MCNodes |-> IF n \in {sSend, pSend} THEN "send" ELSE "recv"]
MCCases == [x \in {selS} |-> <<sRecv, sSend>>]

=============================================================================
