----------------------------- MODULE MCAsSignal -----------------------------
(* as_signal(c1) | continue_on(m) | map: the stage behind continue_on keeps  *)
(* its completion in a slot and queues its task on m.                        *)
EXTENDS Coroutine

CONSTANTS p1, m, c1

S(kind, on) == [kind |-> kind, on |-> on, stops |-> {}]

MCStages == p1 :> <<S("as_signal", Inline), S("continue_on", m), S("map", Inline)>>
MCType == c1 :> "async"
MCBody == c1 :> <<>>
MCStarts == p1 :> c1
=============================================================================
