---------------------------- MODULE MCCoroutine ----------------------------
(* Chains and coroutines over two manual executors m and n.  Every          *)
(* combinator and every kind of coroutine occurs; an awaited chain hops     *)
(* from executor to executor and another one's functor stops m.             *)
EXTENDS Coroutine

CONSTANTS p1, p2, p3, p4, p5, p6, m, n, r, c1, c2, k, d, q, ag, g, h

S(kind, on, stops) == [kind |-> kind, on |-> on, stops |-> stops]
Stage(kind) == S(kind, Inline, {})

MCStages ==
    (* co_await (as_signal(c1) | map | box | continue_on(n)) *)
    (p1 :> <<Stage("as_signal"), Stage("map"), Stage("box"), S("continue_on", n, {}), Stage("co_await")>>) @@
    (* co_await (schedule(m, f) | map_error | query_executor), where f stops m *)
    (p2 :> <<S("schedule", m, {m}), Stage("map_error"), Stage("query_executor"), Stage("co_await")>>) @@
    (* co_await (start_on(n) | flatten(schedule(m, f)) | or_else | continue_on(m)) *)
    (p3 :> <<Stage("result"), S("continue_on", n, {}), S("flatten", m, {}), Stage("or_else"), S("continue_on", m, {}),
             Stage("co_await")>>) @@
    (* coro_schedule(m, c2) *)
    (p4 :> <<S("coro_schedule", m, {})>>) @@
    (* as_signal(result) | and_then *)
    (p5 :> <<Stage("result"), Stage("and_then")>>) @@
    (* co_await schedule(n, f) *)
    (p6 :> <<S("schedule", n, {}), Stage("co_await")>>)

MCType ==
    (r :> "coroutine") @@ (c1 :> "async") @@ (c2 :> "async") @@ (k :> "coroutine") @@ (d :> "async") @@
    (q :> "coroutine") @@ (ag :> "async_gen") @@ (g :> "generator") @@ (h :> "generator")

(* r, which the owner resumes, awaits as_signal(c1); c1 draws from ag, which *)
(* awaits p2, and awaits d, which awaits p3.  r then awaits q, which draws   *)
(* from g (and g from h) and awaits p6.                                      *)
MCBody ==
    (r  :> <<<<"signal", p1>>, <<"child", q>>>>) @@
    (c1 :> <<<<"next_or_throw", ag>>, <<"child", d>>>>) @@
    (ag :> <<<<"signal", p2>>, <<"yield", "">>>>) @@
    (d  :> <<<<"signal", p3>>>>) @@
    (q  :> <<<<"next_or_throw", g>>, <<"signal", p6>>>>) @@
    (c2 :> <<<<"child", k>>>>) @@
    (k  :> <<>>) @@
    (g  :> <<<<"next_or_throw", h>>, <<"yield", "">>>>) @@
    (h  :> <<<<"yield", "">>>>)

MCStarts == (p1 :> c1) @@ (p4 :> c2)
=============================================================================
