# Verification of serious-execution-library

TLA+ models of the library's concurrent core, TLC configurations that check
them on small instances, and TLAPS proofs of the parts for which a small
instance is not enough. `PROJECT.json` lists components, runs, mutants, the map
from definitions to source lines, findings, hazards and theorems.

## 1. The system

A *signal* is a lazy computation. `subscribe(slot_ctor)` turns it into a
*connection*; `emit()` starts the connection and returns a *cancel handle*; the
connection completes its *slot* once, with `set_value`, `set_error` or
`set_null`. Intrusive `task_node`s with `execute()` and `cancel()` run on
*executors*. Everything else is built on those five words. Nothing is reference
counted unless it says so: who may still touch a connection when its slot is
completed is the question behind most of the code.

| component | state | operations | what makes it correct |
|---|---|---|---|
| serial executor `algo/sync/serial.hpp` | `batch_` (lock-free stack), `work_` (uint32), the single node `task_` | schedule, execute, cancel, stop | `task_` in one place at a time; no task stranded; tasks one at a time, oldest first |
| lock-free stack `thread/detail/lock_free_stack.hpp` | `head_`, intrusive links | push, extract | linearizable, also when nodes come back (ABA) |
| parallel connection `algo/sync/detail/parallel.hpp`; `any`, `all`, `select` | counter, handles, requests, three serialized tasks; `done_`, results | emit, completion handlers, cancel beside, delete | one delivery of the right result, cancellation only through stored handles, deletion last |
| channel `algo/sync/channel.hpp` | two queues, `is_closed_`, mutex; `queued_in`, `requested_cancel` per node; `done_` per select | send, receive, close, unsend, unreceive | a rendezvous commits both sides or neither, nobody is lost, overtaken or called twice |
| kcas, dcss `thread/detail/multiword_{kcas,dcss}` | words, one descriptor of each kind per thread | kcas, kcas_read, helping | atomic and non-blocking |
| descriptors `thread/detail/multiword.hpp` | sequence + mutables in one word, plain immutable fields | create_new, read_immutables, read_mutables, cas_mutable | a helper sees one incarnation and decides only that one |
| contract, force, get, events | `state_`, `maybe_result_`, the event | keep/drop the promise, subscribe, set, wait | exactly one side fulfils and deletes; get returns what was promised, and returns |
| share `algo/emit/share.hpp` | reference count, `state_` (empty, list of callbacks, result) | get_signal, subscribe, emit, set_result, drop | every subscriber called once with the result; storage deleted by the last reference |
| thread pool `thread/pool/monolithic.hpp` | blocking queue, wait group, workers | schedule, worker_job, stop, wait_idle | accepted tasks run, stop drains, wait_idle means idle |
| combinators `algo/tf/seq`, `box`, `query_executor`, sources, `continue_on`, manual executor | kept completion per slot, `task_queue_` | set_*, execute, cancel, execute_batch, execute_at_most, stop | composition of functors, right executor, one completion |
| coroutines `coro/`: async, coroutine, async_gen, generator, co_await of a signal, coro_schedule, as_signal | a frame per coroutine: where it is suspended, its continuation or consumer, its owner | await, resume, yield, draw, return, throw, destroy | each frame destroyed in the end and once (section 3 has the exception), nobody waits for something that does not lead back to it, no task in a destroyed frame |
| fork `algo/tf/par/fork.hpp` | a share box | fork, fork_n | as share |
| asynchronous mutex `algo/sync/mutex.hpp` | a serial executor | lock, unlock | one critical section at a time, which is what a serial executor proves |
| arc, `sim` | see section 7 | | |

Interactions: `any`, `all` and `select` own a parallel connection, which runs
its bookkeeping on a serial executor, which keeps its tasks in a lock-free stack
and runs on another executor (the inline one, a thread pool, a manual one). A
channel claims the `done_` words of the selects it matches with one kcas; kcas
keeps its operations in reusable descriptors. `get` forces nothing by itself but
blocks on the event of a forced or promised signal. A coroutine that awaits a
signal is the last slot of a chain; `as_signal` makes a coroutine the first stage
of one.

Hard behaviours: children that complete while their siblings are still being
emitted; counters that wrap because a task is counted after it is pushed;
matching across two mutexes; helpers that arrive after the operation is over;
descriptors and nodes that are re-used; completions that free the memory they
are called from; `stop()` at any moment. `hazards` in `PROJECT.json` lists them
line by line.

## 2. Modules

| module | models | composes with |
|---|---|---|
| `SerialSpec` | what a serial executor promises: an order in which tasks are scheduled, taken, executed, one at a time | implemented by `SerialExecutor`, assumed by `ParallelConnection` |
| `SerialExecutor` | `serial.hpp`, a step per access to `batch_`, `work_`, the inner executor | |
| `SerialExecutorProofs` | theorems | |
| `StackSpec`, `LockFreeStack`, `LockFreeStackProofs` | an atomic push and take-all; the stack with weak exchanges and its links; theorems | assumed atomic by `SerialExecutor` |
| `ParallelConnection`, `ParallelConnectionProofs` | `parallel.hpp` with the completion handlers of any, all, select; theorems | uses the promise of `SerialSpec` |
| `Channel` (`MCChannel`, `MCChannelSame`), `ChannelProofs` | `channel.hpp` and the part of `select.hpp` that shares `done_` with it; theorems | takes kcas as atomic (`Kcas`), cancellation after emission from `ParallelConnection` |
| `KcasSpec`, `Kcas` (`MCKcas`) | atomic multi-word exchange; kcas, dcss and their helpers | takes descriptor reads as atomic (`Descriptor`) |
| `Descriptor` (`MCDescriptor`), `DescriptorProofs` | one reusable descriptor, field by field | |
| `Get` (`MCGet`), `GetProofs` | contract, force_storage, get, the two events; theorems | |
| `Share`, `ShareProofs` | `share.hpp`, and `fork.hpp` as one more way to make subscribers; theorems | |
| `ThreadPool`, `ThreadPoolProofs` | pool, blocking queue, wait group; theorems | |
| `Pipeline` | the sequential combinators, box, query_executor, sources, `continue_on`, detach, inline and manual executor: the stages and the steps of a chain | extended by `Coroutine` |
| `Coroutine` (`MCCoroutine`, `MCAsSignal`) | frames of the four kinds of coroutine, awaiting chains and each other, and started by chains | the chains of `Pipeline` |

Each module's header says how its state corresponds to the code; variables are
named after the members they stand for and actions after the functions. Where a
function touches shared memory several times its steps are separate actions and
the thread's place between them is a `pc`-like variable; where a mutex is held
throughout, one action is the whole critical section. Payloads are reduced to
which operation they belong to. Definitions introduced as "Mutant" are faulty
variants of the definition that follows them; no specification uses them. They
document which mistake each property detects (`mutants`).

Correspondences that are not obvious:

* `SerialExecutor.batch` holds the stack oldest first, because `execute()`
  reverses the extracted list; `LockFreeStack` models the links, and its history
  variables `stack` and `taken` the lists they should be. `inner` counts
  how often `task_` is in the inner executor's queue, so that scheduling it twice
  is a visible state rather than a corrupted list. A thread that executes
  `task_` can call `schedule()` from inside a task. `work_` is arithmetic modulo
  `Modulus`.
* `ParallelConnection.freed`: every access to a member is a step, so use after
  free is a step taken in a state with `freed`. `CancelTask` is the stopped
  executor that cancels a queued task: emit_task and try_cancel_beside_task then
  do nothing, and `dropped` remembers that the connection may leak.
* `Channel`: an agent is the thread that emits a plain operation, or the cases
  of one select in order. A failed claim that meets a decided peer, a decided
  own select, or neither, follows the three branches of `send()`/`receive()`.
  An operation is *past* (`Past`) once its agent has returned from it; from then on
  its node is reached through a queue, through the list `close()` took along
  (`closing`), through the agent that popped it (`peer`) or through its handle.
* `Kcas`: a word holds a value or a flagged pointer `<<kind, pid, sequence>>`;
  each thread has a stack of frames because `kcas_help` recurses. `window` is a
  history variable with which `kcas_read` and failing kcas find their
  linearization point.
* `Descriptor`: `imm[f]` is the incarnation that wrote field `f`, so "reads the
  fields of one incarnation" is an equation.
* `Share.ptr` is `storage_ptr_`, nulled by moves; `PushSpurious` the weak
  exchange that fails for no reason. `list` is a history of what the links
  should lead through; no action reads it.
* `Get.DropFuture` drops a future instead of subscribing to it, once its promise
  is kept; see the divergences for the other case.
* `Pipeline`: one thread, because a manual executor has no lock. A chain is a
  sequence of stages; `Upstream` is `get_executor()` of the signal in front of a
  stage. A cancelled task completes its chain with null in one step, since every
  slot forwards null. The chains of `Detached` are emitted by their owner, the
  others by the coroutine that awaits them. `order` is a history of the tasks as
  they were scheduled.
* `Coroutine`: control is either in one chain or in one coroutine, as on a call
  stack; symmetric transfer and `resume()` are the same step. `frame[c].cont` is
  the promise's continuation or consumer; `freed` counts the calls of
  `destroy()`, `cut` marks a frame that a null destroyed, whose awaiting frames are
  `Stuck`, and `held` says that its owner still has the `coroutine<T>`. `Destroyed`
  takes along what lies in a frame, to any depth (`Holds`), and like the
  destructors it does not ask whether a handle is stale. A generator has one
  consumer, which draws from it at one place of its body. `completing` is the stack of
  connection coroutines of `as_signal` that are inside `slot.set_value()`; their
  frames hold the slots of the chain (`InConnectionFrame`).

## 3. Runs

Passing runs (`kcas` and `coroutine` take about two minutes on two cores, the others less than one):

| run | instance | shows |
|---|---|---|
| `serial` | 3 threads, 3 re-used tasks, `Modulus` 6, at most 5 outstanding | `IInv` (`OneToken`, `NoNesting`, and `CounterExact` although the counter wraps), `BatchNotEmpty`, `NothingLost`; `Refinement`: it implements `SerialSpec`; `EventuallyTaken` |
| `parallel` | any, all and select, 3 children, an executor that may be stopped and cancels its tasks | `Inv` (`CountedOnce`, `Progress`, `OneDelivers`, `TasksOrdered`, `CancelsOthers`, `DeliveredOnce`, `RightResult`), `NoUseAfterFree`, `CancelInTime`; `Reclaimed`, `AllCompleteDelivers` |
| `channel` | two selects that cross on two channels, one with a timer, a plain sender and receiver, a cancellation, a close | `Inv` (`QueueClean`, `InOperation`, `OnePlace`, `HeldNodesLive`, `CompletesOnce`, `OneClaim`), `SelectCommitsOnce`, `BothOrNeither`, `NoLostRendezvous`, `NoOvertaking`; `SelectSettles`, `CancelSettles` |
| `kcas` | 2 words, two overlapping two-word kcas, a descriptor used twice, a reader | `Inv` (`NoStalePointer`, `TakenBeforeDecided`, `NoCircularHelp`), `Atomic` (implements `KcasSpec`); `NonBlocking`: each thread finishes although the others may stop anywhere |
| `descriptor` | 2 helpers, 2 fields, 3 incarnations | `IInv`, the invariant of the proofs, `ReadsOneIncarnation`, `DecidesOnce` |
| `get` | one pipeline with an `atomic_event`, one with a `mutex_event`, futures that may be dropped | `Inv` (`StorageOwned`, `HandOver`, `ResultPassed`, `NoLostWakeup`), `GetsWhatWasKept`; `GetReturns` for the atomic event |
| `pool` | 2 workers, 3 tasks, a stop, a wait_idle | `Inv` (`CountExact`, `Taken`, `Leaving`, `NoLostWakeup`, `IdleMeansDone`, `StopDrains`); `EveryTaskRuns`, `StopReturns`, `WaitIdleReturns` |
| `share` | 3 subscribers, made by the box or by fork, a box dropped at any time | `Inv` (`Phases`, `ResultPublished`, `Linked`, `CountExact`, `NoUseAfterFree`), `CalledRight`; `EveryEmitCalled`, `Reclaimed` |
| `coroutine` | 6 chains with every combinator, 2 manual executors, functors that stop one; 9 coroutines of all kinds, one of them started by `as_signal`, one by `coro_schedule`, one resumed and destroyed by its owner, a generator that draws from another | `CoroutineInv` (`TaskForCompletion`, `BatchIsFinite`, `InOrder` of the chains; `OneControl`, `DestroyedOnce`, `SomeoneResumes`, `GeneratorsHaveOwner` of the frames), `Composes`, `TasksLive`, `OnItsExecutor`; `EveryEmitDelivers`, `FramesReclaimed` |

`Inv` and `IInv` are conjunctions; in brackets are the parts that say more than
the module's type invariant `TypeOK`, which is the first part of each.

Why the bounds are enough to meet the interesting cases. Serial executor: a
batch that contains an uncounted task, a second scheduler and the thread that
executes are three threads; `Modulus` 6 lets the counter wrap.
Parallel connection: a winner, a sibling that completes by itself and one that
must be cancelled. Channel: a failed claim needs two selects on two channels and
a third party to be matched in between. Kcas: a helper needs an operation that
holds a word, and staleness a second use of a descriptor. Share: a subscriber in
the list, one racing with the publication and one after it. Coroutine: a batch
whose tasks schedule behind a task of another chain, a stop in between, and
frames three deep (owner, connection coroutine, generator) under the chain that
the stop completes with null; a null that meets the owner's coroutine, its child,
and a frame with a generator inside a generator.

Runs that end in a violation; each states what the repository says of the
program and is a finding:

| run | property | what happens |
|---|---|---|
| `channel_self_match` | `NoSelfMatch` | a select with a send and a receive case on one channel pops its own node and reaches the assertion that excludes it: the guard compares with the *back* of the opposite queue, the loop pops the *front* |
| `as_signal` | `TasksLive` | `as_signal(c) \| continue_on(m) \| map`: `set_value` queues a task that lies in the frame of the connection coroutine, which then ends and destroys the frame |
| `kcas_crossing` | `NoCircularHelp` | two kcas that name two words in opposite order, as two selects that send to each other do, help each other without end |

Other divergences met while modelling, which shape the models but have no run:

* The guard behind `channel_self_match` also makes an operation wait although
  a partner is queued in front of its own select's node (`channel.hpp:147`), so
  `NoLostRendezvous` is checked, and proved, for selects that use a channel in one
  direction.
* `receive()` on a closed channel takes the value of a waiting sender
  (`channel.hpp:200`, and the test `channelCloseSend`); DESIGN.md:238 says it gets
  an error. The model follows the code.
* `serial_executor::stop()` called by a user while `task_` is scheduled takes the
  batch that `execute()` asserts (`serial.hpp:25`, `:57-60`). The model has
  `stop()` only where `cancel()` calls it.
* `mutex_event::set()` does not notify (`event/mutex.hpp:14`), so a `get` that
  already waits sleeps on. `GetReturns` is stated for `atomic_event`.
* A null destroys only the innermost coroutine (`await.hpp:26`, `:44`): those that
  await it are never resumed and leak, and a chain begun with `as_signal` never
  completes. The comment at `as_signal.hpp:31` ("coroutine handle can be destroyed
  at any point") and its `set_null_if_not_fulfilled` cover the connection
  coroutine only when it is itself the one destroyed. `EveryEmitDelivers` and
  `FramesReclaimed` except exactly these (`Stuck`).
* The same null destroys a `coroutine<T>` that its owner handles manually, and
  `~coroutine()` (`coroutine.hpp:30-34`) destroys it again: the handle is still set
  and there is no `release()`. The same happens to a child or a generator that lies
  in such a frame. `await.hpp:4` asks the owner only "not to destroy it's frame before
  the awaited signal finishes executing", and the owner of the model
  (`OwnerDestroys`) keeps to that: it waits for signals that have not finished
  (`Awaiting`) and for nothing else. The run reaches both cases, the root `r` and its
  child `q`; `DestroyedOnce` gives the number of destructions of every frame and
  says that these are the only ones that are two.
* A future dropped before its promise is kept deletes the storage the promise
  points to (`contract.hpp:52`); `DropFuture` is guarded accordingly.
* `atomic_event::set()` notifies after the store that lets `get` return and
  destroy the event (`event/atomic.hpp:14-15`). The model has the two as separate
  steps (`Set`, `Notify`), but the life of the event is not part of its state: that
  `Notify` may touch a destroyed event is not checked.
* A `mutex_lock` that is cancelled or dropped fails `ASSERT(!is_locked_)`
  (`mutex.hpp:20`), so a mutex cannot be used over an executor that is stopped.
* `dcss` takes a spurious failure of its weak exchange for success
  (`multiword_dcss.cpp:55`). The exchanges of `Kcas` fail only on a mismatch,
  which is true of the x86 instruction. The repository also has context code for ARM,
  where a load-linked/store-conditional pair may fail for no reason; for such a build
  `Inv`, `Atomic` and `NonBlocking` of `Kcas` say nothing.
* `schedule()` of a stopped pool counts a task that the closed queue refuses
  (`monolithic.hpp:41`), and `wait_idle()` then waits for ever. `CountExact` counts such
  a task as the code does and `WaitIdleReturns` excepts it: neither catches it.

The kcas program of the passing run names the words in one order, and `Channel`
takes kcas for atomic, so the properties of `channel` hold for the code only
where kcas itself terminates.

Deadlock is not checked in `get`, `pool`, `share` and `descriptor`, whose
threads finish; their liveness properties say what must have happened by then.

## 4. Fairness

Fairness is weak and per thread: a thread inside a library call that has a next
step takes it. The operating system's scheduler and the absence of blocking in
those steps justify this; steps that wait (for a mutex, a condition variable)
are disabled while they wait. No user is obliged to do anything: nobody has to
schedule, subscribe, send, close or stop. The exceptions, with their reasons:

* `Share`, `PushCas` is strongly fair: a weak exchange does not fail
  spuriously for ever.
* `ParallelConnection`: a child that was told to cancel completes, which is
  what a cancel handle is for. A child that was not told need never complete.
  `Channel` assumes the same of the timer case.
* `Coroutine`: whoever has control goes on (`Control`, weakly fair); the owner of
  a manual executor comes back to it while it has tasks, strongly fair because
  other calls come in between. An owner need not emit, resume or stop.
* `Kcas`, `NonBlocking`: fairness for one thread only, so that the property
  does not lean on the others.
* `SerialExecutor`, `RunInner`: the inner executor eventually runs what it was
  given.

## 5. Proofs

`SerialExecutorProofs` proves, for any finite set of threads, any set of tasks
and any width of `work_`: `TypeCorrect`, `Serial` (`OneToken`, `NoNesting`),
`Counter` (`CounterExact`), `AssertionHolds` (`BatchNotEmpty`), `NoTaskStranded`
(`NothingLost`). Assumptions: fewer tasks outstanding than the modulus and fewer
threads than the modulus, that is 2^32 in the code. None of the safety
properties is inductive by itself: that `task_` is scheduled only once depends
on `work_` passing from 0 only once, and that depends on what `work_` counts. The
inductive invariant `IInv` therefore says what it counts: with `Balance` =
tasks in the stack + tasks in the batch in progress − threads that have pushed
and not yet added, `work_` is `Balance` modulo the width, and the token (in the
inner executor, about to be scheduled, or executing) exists exactly while
`Balance` is positive. The negative case, in which a batch was subtracted before
its last task was added, is the one tests hardly reach. There is one lemma per
action or group of actions, and `Invariance` combines them. From the same
invariant `SerialRefines` proves the safety part of `Refinement`: every step is a
step of `SerialSpec` or invisible under the mapping that puts what is left of the
batch in progress in front of the stack. Because at most one thread holds the
token, the mapping has no choice. This is also the mutual exclusion of
`algo/sync/mutex.hpp`, whose critical section is a task on a serial executor.

`LockFreeStackProofs` proves for any nodes and threads, without assumptions, that
the memory is what it should be (`StackInvariance`) and that `push` and `extract`
implement `StackSpec` (`StackRefines`). The invariant ties `head_` and the
intrusive links to two history sequences (`Links`) and says that a node is in one
place (`Exclusive`). It is inductive because the only links that are written are
those of nodes in no list; that is why ABA does no harm: the exchange of `push`
needs the head to be the node its link names, not the head of the same list, and
the exchange of `extract` takes whatever list is there. Histories alone would make
the refinement empty; `Links` is what carries it to the code. The theorem holds
for every instance, so the stack has no run of its own.

`DescriptorProofs` proves for any helpers, fields and modulus: `DescriptorType`,
`ReadCorrect` (`ReadsOneIncarnation`), `DecideCorrect` (`DecidesOnce`, an action
property), provided the owner uses its descriptor fewer than half the modulus
times, so that the sequence does not come round. The invariant says that the
sequence is twice the number of incarnations (less one while the fields are
being written), that every field written since then is of the present
incarnation, and that what a helper copied is of its own incarnation as long as
its pointer's sequence is the current one. Without the second check of the
sequence this would not carry over to what the helper returns.

`ChannelProofs` proves for any channels, operations, selects, timers, closes and
cancellations: `ChannelInvariance` (`Inv`), `CommitsOnce` (`SelectCommitsOnce`),
`ClaimsAreKept` (`BothOrNeither`), `FirstComeFirstServed` (`NoOvertaking`, an action
property), and for selects that use a channel in one direction (`OneWaySelects`)
`NothingLost` (`NoLostRendezvous`) and `NoSelfMatchOneWay` (`NoSelfMatch`).
Assumptions (`ChannelAssumption`): the cases of a select are distinct, no operation
is a case of two selects, and handles are used on plain operations, since that of a
case belongs to its select. That an operation completes once is not inductive: a
match, `close()`, a cancellation and a failed kcas reach its node on four different
ways, and only the marks of the node tell them apart. `OnePlace` says that a node is in its queue, in the list of
`close()`, in the hands of one agent, or marked `requested_cancel` for its canceller,
and never in two of these; `QueueClean` ties `queued_in` to the queues and
`InOperation` says what the holder of a mutex relies on, across the kcas as well.
`HeldNodesLive` (nobody holds a node that has completed) and `CompletesOnce` follow
step by step. For selects, `OneClaim` says who owns a `done_` that is set: the slot
that was filled, or the one agent between its kcas and the callback.
`NoOvertaking` is about the line of waiting nodes, in which a popped node stays
first until its kcas has succeeded (`Line`): every step leaves a line alone, appends
to it, drops its head, erases from it or empties it, and the sequence lemmas show
that each of these keeps the order of those who go on waiting.
`NothingLost` needs one more invariant (`OneSided`): only one side of a channel has
a queue, and whoever is in the loop has an empty one on its own side, so that the
node that goes back after a failed kcas meets nobody. Without `OneWaySelects` it is
false, for the reason given in section 3.

The invariants of the next four are inductive up to the parts that follow from
the others; the run of each module checks the same `Inv` that its theorem is about,
and each proof module names the inductive part `Core`.

`ParallelConnectionProofs` proves for any number N >= 1 of children, and for any,
all and select alike: `ParallelInvariance` (`Inv`), `NobodyUsesFreed`
(`NoUseAfterFree`), `CancelsInTime` (`CancelInTime`). None of the three is
inductive. Deletion is safe because the child that counts to N finds all others
returned, which needs to know whom the counter has counted (`CountedOnce`:
`counter_` is the number of children past their increment, and whoever is past it
and has not returned is alone). A delivery is single because of `done_`, and right
because no child with a decisive outcome passes `done_` by (`OneDelivers`).
Cancellation and deletion are in time because of the order of the three tasks
(`TasksOrdered`: the deletion is never in front of the cancellation, and
`state_` tells which tasks have run), also when some of them were cancelled by a
stopped executor. The count is related to the set of children by the cardinality
theorems of the library; a full count means all children.

`ShareProofs` proves for any finite set of subscribers `ShareInvariance` (`Inv`)
and `CalledOnce` (`CalledRight`). `Linked` says that the links from `state_`, and
from the cursor once `set_result()` has taken the list, lead exactly through the
history `list`; it is kept because a link is only written while its callback is in
no list, because a push replaces the head its link names, and because the walk
has read the link before it calls. `CountExact` says which subscribers hold a
reference and that `callback_count` is the number of those called on the walk.
At the end of the walk the list is empty, so all listed were called, and the one
subtraction gives back what exactly they held.

`GetProofs` proves for any set of pipelines, each with an event of either kind,
`StorageInvariance` (`Inv`) and `GetCorrect` (`GetsWhatWasKept`). `HandOver` says
who of the two sides may still touch the storage at each pair of places,
`ResultPassed` where the result is on its way from the promise to the caller, and
`NoLostWakeup` that a caller who sleeps on an `atomic_event` has its notification
still to come.

`ThreadPoolProofs` proves for any finite sets of workers (at least one) and tasks
`PoolInvariance` (`Inv`). `CountExact` gives the count of the wait group as tasks
added and not done plus workers that have executed and not yet told it, `Taken`
pairs each task that left the queue with its worker. `IdleMeansDone` follows from
the first, `StopDrains` from `Leaving` (a worker leaves only a closed and empty
queue) and both. `NoLostWakeup` is the safety side of the liveness runs: with a
task queued some worker is awake, although only the first push of a batch
notifies.

Only model-checked: all liveness (the fairness of `SerialSpec` included), which is
outside what the proof system can do here; `Inv` and `Atomic` of `Kcas`; and the
properties of `Pipeline` and `Coroutine`. Part of `Kcas.Inv` is not true of every
program (`NoCircularHelp`, see the run `kcas_crossing`), and the recursion of
`kcas_help` makes an invariant of whole stacks of frames necessary. What a chain of
combinators delivers (`Composes`) is a recursive function of its stages, and the
frames of coroutines form trees of any depth: both need inductions over data that the
provers cannot do. They are checked for the programs of their runs.

## 6. Assumptions

* Memory is sequentially consistent; one step is one access. The memory orders
  of the code are not checked.
* `sl::meta` (lists, `maybe`, `result`, assertions) is a submodule without
  content in the repository; it is modelled from its uses. In particular the
  loops over intrusive lists are assumed to have read the link of a node before
  they call into it.
* Assertions are properties, not control flow.

## 7. Not modelled, and the plan

Order of work so far: serial executor and stack, parallel connection, channel,
kcas and descriptors, get, thread pool, share and fork, pipelines, coroutines.
Next:

1. The life of a select's `done_` word under late kcas helpers
   (`multiword_kcas.cpp:114`): `Kcas` with words that end, composed with `Channel`.
2. Tasks of a pool that block on each other: a second push to a queue that is not
   empty notifies nobody (`unbound_blocking_queue.hpp:25`).
3. Proofs: the part of `Kcas.Inv` that does not depend on the order of the words
   (`NoStalePointer`, `TakenBeforeDecided`).

Not modelled, and why: `sim` (machine contexts, assembly, memory mapping: no
protocol); `arc` (a plain count in the hands of the users of a channel, which no
operation of the channel changes); the concepts of `model/` (no state); the
`is_locked_` flag of `mutex_lock` (local to its holder); `write_mutable` and
`distributed.hpp` (unused or empty); thread creation and the numbering of
processes in `multiword.hpp`; weak memory; the iterators of `sl::meta`.
