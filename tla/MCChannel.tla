------------------------------ MODULE MCChannel ------------------------------
(* Two channels.  Select selS sends on chA or receives from chB, select selT  *)
(* sends on chB, receives from chA or waits for another signal; besides, a    *)
(* plain receiver waits on chA, a plain sender on chB, and chA may be closed. *)
EXTENDS Channel

CONSTANTS chA, chB, selS, selT, sSend, sRecv, tSend, tRecv, pRecv, pSend

MCNodes == {sSend, sRecv, tSend, tRecv, pRecv, pSend}
MCChan == [n \in MCNodes |-> IF n \in {sSend, tRecv, pRecv} THEN chA ELSE chB]
MCDir == [n \in MCNodes |-> IF n \in {sSend, tSend, pSend} THEN "send" ELSE "recv"]
MCCases == [x \in {selS, selT} |-> IF x = selS THEN <<sSend, sRecv>> ELSE <<tSend, tRecv>>]

=============================================================================
