----------------------------- MODULE Coroutine -----------------------------
(***************************************************************************)
(* Coroutines over signal chains: async, coroutine, async_gen, generator,  *)
(* co_await of a signal, coro_schedule and as_signal.                      *)
(*                                                                         *)
(* A coroutine is a frame on the heap.  It runs until it awaits a signal,  *)
(* an async or a coroutine (its child), or the next item of a generator,   *)
(* and whoever completes the awaited thing resumes it, inside its own call *)
(* stack.  Frames have different owners: an awaited child belongs to the   *)
(* co_await expression, a generator to the frame that draws from it, a     *)
(* frame given to coro_schedule to itself (its final_awaiter destroys it), *)
(* a plain coroutine<T> to whoever calls resume().  A signal that          *)
(* completes with null destroys the frame that awaits it, whoever owns it. *)
(*                                                                         *)
(* as_signal wraps an async in a second coroutine, the connection          *)
(* coroutine, whose frame also holds the slots of the rest of the chain.   *)
(*                                                                         *)
(* A body is a straight sequence of operations without try, as the loops   *)
(* over a generator are the only ones that matter here: a consumer, which  *)
(* may be a generator itself, may ask the same generator again or go on.   *)
(* Instead of returning it may throw.                                      *)
(***************************************************************************)
EXTENDS Pipeline

CONSTANTS
    Coroutines,  \* the frames that may be created
    Type,        \* Type[c]: "async", "coroutine", "async_gen" or "generator"
    Body,        \* Body[c]: its operations, <<operation, chain, coroutine or "">>
    Starts,      \* Starts[p]: the coroutine of the as_signal or coro_schedule that p begins with
    Roots        \* the coroutines that the owner resumes and destroys

IsGenerator(c) == Type[c] \in {"async_gen", "generator"}
Uses(c, op, x) == \E i \in DOMAIN Body[c] : Body[c][i] = <<op, x>>
(* The operations that draw an item, and rethrow or drop what it threw.      *)
Draws == {"next_or_throw", "next"}
Locals == [c \in Coroutines |-> {g \in Coroutines : \E op \in Draws : Uses(c, op, g)}]

ASSUME BodiesAssumption ==
    /\ IsFiniteSet(Coroutines) /\ Coroutines \cap (Pipelines \cup {"released", "owner"}) = {}
    /\ \A p \in DOMAIN Starts :
         Type[Starts[p]] = "async" /\ Stages[p][1].kind \in {"as_signal", "coro_schedule"}
    /\ \A c \in Roots : Type[c] = "coroutine"
    /\ \A c \in Coroutines : \A i \in DOMAIN Body[c] :
         LET op == Body[c][i][1]
             x == Body[c][i][2]
         IN  \/ op = "signal" /\ x \in Pipelines \ Detached /\ Type[c] # "generator"
                /\ Stages[x][Len(Stages[x])].kind = "co_await"
             \/ op = "child" /\ Type[x] \in {"async", "coroutine"} /\ Type[c] # "generator"
             \/ op = "next_or_throw" /\ IsGenerator(x) /\ (Type[c] = "generator" => Type[x] = "generator")
             \/ op = "next" /\ Type[x] = "generator"
             \/ op = "yield" /\ IsGenerator(c)

VARIABLES
    frame,      \* frame[c]: the frame of coroutine c
    completing  \* the chains whose connection coroutine is inside slot.set_...(), innermost last

covars == <<vars, frame, completing>>

(* The promise's continuation or consumer: the coroutine that awaits, the    *)
(* chain whose connection coroutine awaits, nobody because the frame was     *)
(* released, or the owner's resume().  freed counts how often destroy() was  *)
(* called, cut says that a null did, held that the owner has its coroutine<T>.*)
NoFrame ==
    [st |-> "none", pc |-> 1, raised |-> FALSE, cont |-> "owner", freed |-> 0, cut |-> FALSE, held |-> FALSE]

Init ==
    /\ PipelineInit
    /\ frame = [c \in Coroutines |-> [NoFrame EXCEPT !.held = c \in Roots]]
    /\ completing = <<>>

Running == {c \in Coroutines : frame[c].st = "running"}
Waiting == {"signal", "child", "draw"}
Exists(c) == frame[c].st \notin {"none", "destroyed"}

(* Coroutine c is at operation op.                                           *)
At(c, op) ==
    /\ c \in Running
    /\ ~frame[c].raised
    /\ frame[c].pc <= Len(Body[c])
    /\ Body[c][frame[c].pc][1] = op
Operand(c) == Body[c][frame[c].pc][2]

(* The frames whose handles lie in objects of frame c: the generators it has *)
(* drawn from and the temporary child that it awaits.  At its final suspend  *)
(* point nothing is left of them.                                            *)
Holds(f, c) ==
    IF f[c].st \in {"none", "final", "destroyed"} THEN {}
    ELSE {g \in Locals[c] : f[g].st # "none"}
           \cup {d \in Coroutines : f[c].st = "child" /\ Body[c][f[c].pc] = <<"child", d>>}

(* destroy() of the frames in cs: the destructors of what they hold destroy  *)
(* in turn.  None of these destructors asks whether its frame still exists.  *)
Destroyed(f, cs) ==
    LET Dies[c \in Coroutines] == {c} \cup UNION {Dies[d] : d \in Holds(f, c)}
        gone == UNION {Dies[c] : c \in cs}
    IN  [c \in Coroutines |->
           IF c \in gone
             THEN [NoFrame EXCEPT !.st = "destroyed", !.freed = f[c].freed + 1, !.cut = f[c].cut, !.held = f[c].held]
             ELSE f[c]]

(* await_suspend: d becomes the running coroutine and x what it returns to.  *)
Enters(f, d, x) == [f EXCEPT ![d].st = "running", ![d].cont = x]
(* await_resume of c: the next operation, or an exception.                   *)
Continues(f, c, throws) ==
    [f EXCEPT ![c].st = "running", ![c].raised = throws, ![c].pc = IF throws THEN @ ELSE @ + 1]

-----------------------------------------------------------------------------
(* A step of the chains, and what its completions do to frames: the awaiter  *)
(* slot's task resumes the coroutine, its cancel() destroys it; the task of  *)
(* coro_schedule is the promise and starts or destroys its coroutine.        *)

Handle ==
    [p \in Pipelines |->
        {c \in Coroutines : Uses(c, "signal", p)}
          \cup (IF Stages[p][1].kind = "coro_schedule" THEN {Starts[p]} ELSE {})]

(* The coroutines whose chain has just been completed, by this tag or tags.  *)
Woken(tags) ==
    UNION {Handle[p] : p \in {p \in Pipelines : out'[p] # out[p] /\ Last(out'[p]).tag \in tags}}

Resumed(c) ==
    IF frame[c].st = "none" THEN [NoFrame EXCEPT !.st = "running", !.cont = "released"]
    ELSE [frame[c] EXCEPT !.st = "running", !.pc = @ + 1]

(* Mutant: set_null() does nothing. *)
ResumesOrNothing ==
    LET resumed == Woken({"val", "err"})
    IN  frame' = [c \in Coroutines |-> IF c \in resumed THEN Resumed(c) ELSE frame[c]]

ResumesOrDestroys ==
    LET resumed == Woken({"val", "err"})
        cancelled == Woken({"null"})
        after == [c \in Coroutines |->
                    IF c \in resumed THEN Resumed(c) ELSE [frame[c] EXCEPT !.cut = @ \/ c \in cancelled]]
    IN  frame' = IF resumed \cup cancelled = {} THEN frame ELSE Destroyed(after, cancelled)

(* The completion of chain p moves; no coroutine runs meanwhile.             *)
ChainStep(p) == Running = {} /\ Flow(p) /\ ResumesOrDestroys /\ UNCHANGED completing

(* The call stack is empty up to the loop of an executor.                    *)
Returned == Running = {} /\ completing = <<>>
LoopStep == Returned /\ Run /\ ResumesOrDestroys /\ UNCHANGED completing
OwnerStep == Returned /\ Owner /\ ResumesOrDestroys /\ UNCHANGED completing

-----------------------------------------------------------------------------
(* The operations of a body.                                                 *)

(* co_await signal: signal_awaiter::await_suspend subscribes and emits.      *)
AwaitSignal(c) ==
    /\ At(c, "signal")
    /\ slot' = [slot EXCEPT ![Operand(c)].mode = "flowing"]
    /\ frame' = [frame EXCEPT ![c].st = "signal"]
    /\ UNCHANGED <<fn, queue, loop, order, stopped, out, completing>>

(* co_await async or coroutine: control goes to the child.                   *)
AwaitChild(c) ==
    /\ At(c, "child")
    /\ frame' = Enters([frame EXCEPT ![c].st = "child"], Operand(c), c)
    /\ UNCHANGED <<vars, completing>>

(* co_await gen, or next() and next_or_throw() of a generator.               *)
Draw(c) ==
    /\ \E op \in Draws : At(c, op)
    /\ frame' = Enters([frame EXCEPT ![c].st = "draw"], Operand(c), c)
    /\ UNCHANGED <<vars, completing>>

(* co_yield: the consumer gets the item, and asks again or goes on.          *)
Yield(g) ==
    LET c == frame[g].cont
        yielded == [frame EXCEPT ![g].st = "yielded", ![g].pc = @ + 1]
    IN  /\ At(g, "yield")
        /\ frame' \in {[yielded EXCEPT ![c].st = "running"], Continues(yielded, c, FALSE)}
        /\ UNCHANGED <<vars, completing>>

(* The body of c returns a value or ends by an exception; its locals are     *)
(* destroyed before final_suspend.                                           *)
Ends(c, r) ==
    /\ c \in Running
    /\ frame[c].raised \/ frame[c].pc > Len(Body[c])
    /\ frame[c].raised => r = "err"

Finalised(c) == [Destroyed(frame, Holds(frame, c)) EXCEPT ![c].st = "final"]

(* To the awaiting coroutine: get_return_or_throw(), then the temporary that *)
(* owns the child goes.                                                      *)
ReturnToParent(c, r) ==
    /\ Ends(c, r)
    /\ ~IsGenerator(c) /\ frame[c].cont \in Coroutines
    /\ frame' = Continues(Destroyed(Finalised(c), {c}), frame[c].cont, r = "err")
    /\ UNCHANGED <<vars, completing>>

(* The end of a generator is an empty item; next() does not rethrow.         *)
ReturnToConsumer(g, r) ==
    LET c == frame[g].cont
    IN  /\ Ends(g, r)
        /\ IsGenerator(g)
        /\ frame' = Continues(Finalised(g), c, r = "err" /\ Uses(c, "next_or_throw", g))
        /\ UNCHANGED <<vars, completing>>

(* A released frame destroys itself; the owner's one waits for the owner.    *)
ReturnToNobody(c, r) ==
    /\ Ends(c, r)
    /\ frame[c].cont \in {"released", "owner"}
    /\ frame' = IF frame[c].cont = "released" THEN Destroyed(Finalised(c), {c}) ELSE Finalised(c)
    /\ UNCHANGED <<vars, completing>>

(* The connection coroutine of an as_signal completes its slot.              *)
ReturnToChain(c, r) ==
    LET p == frame[c].cont
    IN  /\ Ends(c, r)
        /\ p \in Pipelines
        /\ fn' = [fn EXCEPT ![p][1] = r]
        /\ slot' = [slot EXCEPT ![p] = [mode |-> "flowing", at |-> 2, got |-> [tag |-> r, by |-> 1]]]
        /\ frame' = Finalised(c)
        /\ completing' = Append(completing, p)
        /\ UNCHANGED <<queue, loop, order, stopped, out>>

-----------------------------------------------------------------------------
(* async_connection::emit(): the connection coroutine starts, on the inline  *)
(* executor, and awaits its async.                                           *)
StartAsync(p) ==
    /\ Running = {}
    /\ slot[p].mode = "flowing" /\ slot[p].at = 1
    /\ Stages[p][1].kind = "as_signal"
    /\ slot' = [slot EXCEPT ![p].mode = "coroutine"]
    /\ frame' = Enters(frame, Starts[p], p)
    /\ UNCHANGED <<fn, queue, loop, order, stopped, out, completing>>

(* Mutant: the released connection coroutine is not destroyed. *)
ConnectionStays ==
    /\ completing # <<>> /\ Flowing = {} /\ Running = {}
    /\ completing' = Front(completing)
    /\ UNCHANGED <<vars, frame>>

(* set_value() or set_error() has returned to the innermost connection       *)
(* coroutine: its final_awaiter destroys it, with the async and the slots.   *)
ConnectionEnds ==
    /\ completing # <<>> /\ Flowing = {} /\ Running = {}
    /\ frame' = Destroyed(frame, {Starts[Last(completing)]})
    /\ completing' = Front(completing)
    /\ UNCHANGED vars

(* The owner of a coroutine<T> resumes it.                                   *)
OwnerResumes(c) ==
    /\ Returned /\ Flowing = {} /\ loop.kind = "none"
    /\ c \in Roots /\ frame[c].st = "none"
    /\ frame' = Enters(frame, c, "owner")
    /\ UNCHANGED <<vars, completing>>

(* A signal that c, or what it waits for, awaits has not finished.           *)
Awaiting(c) ==
    LET a[d \in Coroutines] ==
          \/ frame[d].st = "signal"
          \/ frame[d].st \in {"child", "draw"} /\ a[Operand(d)]
    IN  a[c]

(* ~coroutine(): the owner lets go of its coroutine<T>, at any moment that   *)
(* await.hpp:4 allows, resumed or not.  The destructor does not know whether *)
(* the frame has been destroyed by a null.                                   *)
OwnerDestroys(c) ==
    /\ Returned /\ Flowing = {} /\ loop.kind = "none"
    /\ c \in Roots /\ frame[c].held
    /\ ~Awaiting(c)
    /\ frame' = Destroyed([frame EXCEPT ![c].held = FALSE], {c})
    /\ UNCHANGED <<vars, completing>>

-----------------------------------------------------------------------------
BodyStep(c) ==
    \/ AwaitSignal(c) \/ AwaitChild(c) \/ Draw(c) \/ Yield(c)
    \/ \E r \in {"val", "err"} :
         ReturnToParent(c, r) \/ ReturnToConsumer(c, r) \/ ReturnToNobody(c, r) \/ ReturnToChain(c, r)

(* What the thread does next when it is inside a call.                       *)
Control ==
    \/ \E p \in Flowing : ChainStep(p) \/ StartAsync(p)
    \/ \E c \in Running : BodyStep(c)
    \/ ConnectionEnds \/ LoopStep

Next ==
    \/ Control \/ OwnerStep
    \/ \E c \in Coroutines : OwnerResumes(c) \/ OwnerDestroys(c)

(* The thread goes on, and the owner keeps driving the executors: one that   *)
(* has tasks gets a batch again and again (the others may be driven in       *)
(* between, hence SF).                                                       *)
Fairness ==
    /\ WF_covars(Control)
    /\ \A e \in Executors :
         SF_covars(queue[e] # <<>> /\ Returned /\ ExecuteBatch(e) /\ UNCHANGED <<frame, completing>>)

Spec == Init /\ [][Next]_covars /\ Fairness

-----------------------------------------------------------------------------
FrameOK ==
    \A c \in Coroutines :
        /\ frame[c].st \in {"none", "running", "yielded", "final", "destroyed"} \cup Waiting
        /\ frame[c].pc \in 1..(Len(Body[c]) + 1)
        /\ frame[c].raised \in BOOLEAN /\ frame[c].cut \in BOOLEAN /\ frame[c].held \in BOOLEAN
        /\ frame[c].cont \in Coroutines \cup Pipelines \cup {"released", "owner"}

(* One coroutine or one chain has control.                                    *)
OneControl == Cardinality(Running) + Cardinality(Flowing) <= 1

(* The object that holds c's handle is gone: the owner's coroutine<T>, the    *)
(* generator or the temporary in the frame that uses c.                       *)
HolderGone(c) ==
    \/ c \in Roots /\ ~frame[c].held
    \/ \E d \in Coroutines : frame[d].st = "destroyed" /\ (c \in Locals[d] \/ Uses(d, "child", c))

(* Every frame is destroyed once, by the co_await that owns it, by its        *)
(* final_awaiter, with the frame whose local it is, by its owner or by a      *)
(* null.  The one case in which the code destroys a frame twice is spelt out, *)
(* so that there is no other: a null destroyed it (await.hpp:26) although a   *)
(* coroutine<T> that its owner handles manually keeps it, directly or in the  *)
(* frame that waits for it, and then that object's destructor has run.        *)
DestroyedOnce ==
    \A c \in Coroutines :
        frame[c].freed = IF frame[c].st # "destroyed" THEN 0
                         ELSE IF frame[c].cut /\ HolderGone(c) THEN 2 ELSE 1

(* A suspended coroutine is awaited by what will resume it: the chain is on   *)
(* its way or its coroutine is, the child or generator is alive and returns   *)
(* to it.  The exception are the frames above one that a null has destroyed,  *)
(* which nobody resumes.                                                      *)
SomeoneResumes ==
    \A c \in Coroutines :
        LET x == Operand(c)
            Returns(d) == Exists(d) /\ frame[d].st \in {"running"} \cup Waiting /\ frame[d].cont = c
        IN  /\ frame[c].st = "signal" => slot[x].mode \in {"flowing", "queued", "coroutine"}
            /\ frame[c].st \in {"child", "draw"} => Returns(x) \/ frame[x].cut
            /\ frame[c].st # "none" /\ frame[c].cont \in Pipelines /\ ~frame[c].cut
                 => \/ slot[frame[c].cont].mode = "coroutine" /\ frame[c].st \in {"running"} \cup Waiting
                    \/ frame[c].st \in {"final", "destroyed"}

(* A generator does not outlive the frame whose local it is.                  *)
GeneratorsHaveOwner ==
    \A c \in Coroutines : frame[c].st \in {"final", "destroyed"} => \A g \in Locals[c] : ~Exists(g)

(* Chains and frames agree at every step (await.hpp, async.hpp, async_gen.hpp,*)
(* generator.hpp, as_signal.hpp): one control, no frame destroyed twice but   *)
(* for a manually handled one after a null, nobody waits for something that   *)
(* does not lead back to it, and generators go with their owner.              *)
CoroutineInv ==
    Inv /\ FrameOK /\ OneControl /\ DestroyedOnce /\ SomeoneResumes /\ GeneratorsHaveOwner

(* The slot of stage i of chain p lies in the frame of a connection coroutine:*)
(* as_signal moves all slots of the chain there, up to a box, which keeps the *)
(* slots behind it in its own connection.                                     *)
InConnectionFrame(p, i) ==
    Stages[p][1].kind = "as_signal" /\ \A j \in 2..(i - 1) : Stages[p][j].kind # "box"

(* Every task in a queue or a batch lies in storage that still exists: in the *)
(* frame of a connection coroutine that has not ended (as_signal.hpp:24), or  *)
(* in the frame that awaits the chain.  An executor that pops another one     *)
(* touches freed memory.                                                      *)
TasksLive ==
    \A p \in ToSet(loop.left) \cup UNION {ToSet(queue[e]) : e \in Executors} :
        IF InConnectionFrame(p, slot[p].at)
          THEN p \in ToSet(completing)
          ELSE \A c \in Coroutines : Uses(c, "signal", p) => frame[c].st = "signal" /\ Operand(c) = p

(* The coroutines that wait, directly or not, for one that a null destroyed.  *)
Stuck ==
    LET s[c \in Coroutines] ==
          \/ frame[c].cut
          \/ frame[c].st \in {"child", "draw"} /\ s[Operand(c)]
          \/ frame[c].st = "signal" /\ Stages[Operand(c)][1].kind = "as_signal" /\ s[Starts[Operand(c)]]
    IN  {c \in Coroutines : s[c]}

(* Every chain that is emitted completes its last slot, however its stages    *)
(* hop between executors, but for those that wait for a coroutine that will   *)
(* never be resumed (the cancel() at await.hpp:26 destroys only the innermost *)
(* frame).                                                                    *)
EveryEmitDelivers ==
    <>[](\A p \in Pipelines :
            \/ slot[p].mode \in {"new", "done"}
            \/ slot[p].mode = "coroutine" /\ Starts[p] \in Stuck)

(* No frame leaks: each is destroyed in the end, but for those above a null,  *)
(* the generators they own, and what is left to the owner of a coroutine<T>.  *)
FramesReclaimed ==
    <>[](\A c \in Coroutines :
            \/ ~Exists(c)
            \/ c \in Roots /\ frame[c].st = "final"
            \/ c \in Stuck \/ \E d \in Stuck : c \in Locals[d])
=============================================================================
