# A verification model of continuable

continuable is a header-only C++14 library: a `continuable_base` is a lazy
asynchronous operation; handlers are chained to it, operations are connected
with `&&`, `||` and `>>`, and everything starts when the object is consumed or
destroyed. Nothing in the library owns a thread: it runs on whatever thread
resolves a promise, so its shared states must survive any interleaving and any
nesting of calls.

This directory holds TLA+ models of that code, TLC configurations that check
them on small instances, and proofs checked by TLAPS that their safety properties hold
for every instance. Paths below are relative to `src/include/continuable/`.

## Inventory

| Component | State it keeps | Operations | Talks to | Hard part |
|---|---|---|---|---|
| Handler chain, `detail/core/base.hpp` | nested callbacks, one signal in flight | `then`, `fail`, `next`, `via`, executors, final callback | promises, executors, returned continuables | two paths, exceptions at every step, work that is rejected or dropped |
| `when_all`, `detail/connection/connection-all.hpp` | `left_`, `flag_`, boxes, callback | `create_callback`, `accept`, partial callback | children on any thread, the consumer's callback | races between failures and the last value, ready children, re-entrancy |
| `when_any`, `detail/connection/connection-any.hpp` | `flag_`, callback | `create_callback`, `invoke` | the same | several winners, traversal still running |
| `wait`, `detail/transforms/wait.hpp` | frame on the waiter's stack | `wait_relaxed`, `unlock` | the resolving thread | lifetime of the frame, lost wakeups |
| `wait_for`, `wait_until`, same file | shared frame, weak pointer | `wait_unsafe`, `unlock` | the resolving thread, the clock | deadline racing a late result |
| Ownership, `continuable-base.hpp`, `detail/utility/util.hpp` | `acquired_`, `frozen_`, data | moves, conversions, chaining, connecting, `freeze`, `done`, destructor | everything above | long sequences of legal calls |
| `operator>>`, `when_seq`, `detail/connection/connection-seq.hpp` | visitor, boxes | visit, detach, complete | asynchronous traversal | ready children that failed, lifetime |
| Asynchronous traversal, `detail/traversal/traverse-async.hpp` | frame, position, `detached` | traverse, resume, complete | visitor | resumption while the traversal unwinds, on another thread |
| Loops, `detail/operations/loop.hpp` | `loop_frame` | `loop`, `resolve` | callable, promise | recursion, throwing callables, empty ranges |
| `split`, `detail/operations/split.hpp` | promises | `set_value`, ... | promises, waiters that join | promises that are or become empty, arguments that may be moved once, calls inside of calls |
| `async`, `detail/operations/async.hpp` | none | one call of a callable | chain | the callable throws or is rejected |
| Coroutines, `detail/other/coroutines.hpp` | `result_`, `state_` | `await_suspend`, resolver, `promise_type` | compiler | suspension racing resolution |
| `promise_base`, erasure, `continuable-promise-base.hpp` | callable | `set_value`, ... | chain | use once, reset behind the call |
| `result`, `result_variant` | slot | set, take, change, move, destroy | everywhere | moves that throw |
| future transform, promisify, asio | `std::promise`, mapping of error codes | one callback | foreign code | broken promises, cancellations, what is an error |
| Result boxes, `detail/connection/connection-aggregated.hpp` | boxes | box, assign, unbox | both traversals | three traversals that must agree |
| Synchronous traversal, `detail/traversal/traverse.hpp` | none of its own | `map_pack`, `traverse_pack` | mappers | what is entered, what is spread, empty containers |
| Hints, traits | none at run time | - | - | compile time only |

What makes each correct, in a line: a chain delivers every result and failure to
the first handler for it and loses no exception; a connection draws one justified
verdict, once, and owes it when it is due; a wait returns what the continuable
was resolved with and never touches a dead frame; an operation is started at most
once and, unless frozen, not forgotten; a traversal visits each element once and
completes once; a loop calls its callable until it says stop; a split serves every
valid promise, whatever the waiters do meanwhile; a coroutine is resumed exactly once
per suspension; a variant's slot says what it holds; a mapped pack holds what it held
before, each element where it was, and the values of a continuable in its place.

## Modules

| Module | Models | Extends / instantiates |
|---|---|---|
| `OnceFlag` | `std::call_once`, external | |
| `Connection` | what both connections share: activations, call stacks, `call_once` around the callback | `OnceFlag` |
| `WhenAll` | `result_submitter` and its dispatcher | `Connection`, refines `Resolution` |
| `WhenAny` | `any_result_submitter` and its dispatcher | `Connection`, refines `Resolution` |
| `Resolution` | the abstract connection: what it promises to its consumer | |
| `WhenAllProofs` | inductive invariants and theorems of `WhenAll` and of `WhenAny` | `WhenAll`, `WhenAny`, TLAPS |
| `Monitor` | `std::mutex` and `std::condition_variable`, external | |
| `Wait` | `wait()`, `wait_for()`, `wait_until()` | `Monitor` |
| `Continuable` | life cycle and ownership of continuable objects | |
| `Chain` | a running chain of handlers | |
| `AsyncTraversal` | the asynchronous traversal of a nested pack | |
| `WhenSeq` | the visitor of `when_seq` | `AsyncTraversal`, refines `Resolution` |
| `Loop` | `loop_frame`, `range_loop` | |
| `Coroutine` | `awaitable` and `promise_type` | |
| `ResultVariant` | `result<...>` and its storage | |
| `Traverse` | `map_pack`, `traverse_pack`, the result boxes of connections | |
| `Promise` | `promise_base`, `split`, promisify, the asio adapter, the future transform | |
| `WaitProofs`, `ContinuableProofs`, `WhenSeqProofs`, `LoopProofs`, `CoroutineProofs`, `PromiseProofs` | inductive invariant and theorems of each | the module named, TLAPS |
| `ChainProofs` | the same for `Chain` and for `ResultVariant` | `Chain`, `ResultVariant`, TLAPS |
| `MCContinuable` | the symmetry of places and continuations, for TLC | `Continuable` |
| `MCWhenSeq` | a nested pack for TLC | `WhenSeq` |

### Connections (`Connection`, `WhenAll`, `WhenAny`, `Resolution`)

Every call into a connection is an *activation*: `Main` is the call that runs the
connection's continuation and starts the children, and each child is an activation
from the moment it is resolved. `pc` says where an activation is. An activation
runs on a thread of its own, or synchronously inside another one (`under`), which
cannot move before it returned: inside `Main` while it starts the children (a
ready child), or inside the callback (`Reentrant`). So TLC explores races and
nested calls alike.

`CreateCallback` and `Start` are the two effects of
`continuable_dispatcher::operator()`; `Arrive` is the call of
`partial_all_callback` with a value or a failure, or the destruction of an
unresolved promise; `Assign`, `CompleteOne`, `EnterOnce`, `Invoke`, `LeaveOnce` and
`PassOnce` are the atomic steps inside. The order in which the traversal visits the
boxes is left open. A value is represented by the child that produced it, the
content of a box by whether it was written.

`Resolution` has no threads: children settle, and one verdict is drawn from the
settled children. `ImplementsAllFair` and `ImplementsAny` say that the submitters
implement it, liveness included: when a verdict is allowed, one is given.
`ImplementsAll` of `WhenAll` is the safety part, which is proved. The atomics are
sequentially consistent in the model; `left_` uses the default order, and the boxes
are ordered by it.

A callback that resolves a sibling synchronously makes that sibling wait for its own
caller in `call_once`, which the standard leaves undefined. `Entangled` names this
state, `Finished` lets everything stop in it, and the liveness properties except it;
nothing else may block, since TLC checks for deadlock.

### Waiting (`Monitor`, `Wait`)

One waiting thread and one resolving thread, with one action per access to
something shared; `timed` says whether the wait has a deadline. In `wait()` the
resolver holds the mutex from its first access to the frame to its last. In
`wait_for()` and `wait_until()` it holds `rw_mutex` around the result only; a critical
section of `rw_mutex` has one access and is one step. Waking up is separate from
taking the mutex again, and may be spurious. The unlocker's destructor is modelled as
the second call of `unlock` that it is.

### Objects (`Continuable`)

`obj` holds what is in each place a program has: the two flags of the ownership and the
continuations in the data, the roots. The data is a set of parts. The first parts are
started at once when the object is invoked (the children of `&&`, `||`, `when_all` and
`when_any`, the left side of `operator>>`); the others wait until it is their turn: the
right side of `operator>>`, the continuable of `then` and `fail`, the second child of
`when_seq`, however these are nested. `Behind` makes later parts: what is first in the right
operand needs that the left one delivered (for `fail`, was started), and what is later in it
needs that too. `needs` and `delivers` are sets of sets of roots: a part may be started once
all roots of one of them were, and an object may deliver once those of one set of
`delivers` were. Whether something that was started does deliver is left open, and so is in
which order the handlers behind a failure die. Parts that were invoked are in `waiting`, and
end with `Advance` or `Abandon`.

`Replace` is `consume()`: the object left behind is a husk, without data and with its
ownership released. `Destroy` is the destructor, which invokes what is acquired and not
frozen, and runs the destructors inside otherwise: a part is `silent` if its destructor
starts nothing. `held` and `lost` are history: the program froze this, or something that
went into it; and an operation has taken that from it. Those that do are the
conversions, `operator>>`, and `then` and `fail` with a continuable (see Disagreements);
`FreezeLossConfined` says that no other one does. `StartOnDestruction` says that an object
which was never frozen starts the roots of its first parts when it dies, nothing else, and
keeps the others.

### Chains (`Chain`)

`rest` is the sequence of the stages still to come, `signal` what is in flight. A
stage is a record: which path it handles, whether it has an executor, and what its
handler may answer. `Then`, `Fail` and `NextStage` call a handler of the program,
`ThenContinuable` and `FailContinuable` are the overloads that take a continuable
instead, and `Via` is the stage that `continuable_base::via` makes of an executor.
A chain begins with a promise (`Promised`), with `async` or `async_on` (`Async` calls
the callable as a stage in front of the others), or with a continuation that was made
ready with values or a failure (`MadeReady`, `Unpack`); so does a chain that a handler
returns.

`Forward`, `Dispatch` and `FinalCallback` are the three things a callback can do
with a signal; `Returns...` are the invokers of `detail/core/base.hpp`, one per kind of
return type; the `Executor...` actions are what an executor may do with the work.
A `result<...>` is one of value, exception and empty, so `ReturnsResult` and
`ReturnsEmpty` cover it. `flying` and `skipped` are history: the exceptions nobody
has seen yet, and the stages the signal has passed. Executors that throw
terminate the program (the callers are `noexcept`) and are not modelled.

### Traversal and `when_seq` (`AsyncTraversal`, `WhenSeq`)

An activation is a call of the callable that resumes the traversal; the one that
starts it is `Begin`, any other is named after the element it was made for.
`hierarchy` is the tuple of iterators that the code keeps in types and on the stack:
the position in the innermost range first. The code walks by recursion and, after a
resumption, by `resume_state_callable::next`, which pops that tuple; both are
`Fork`, `Ascend` and the advance of the innermost position. `Detach` sets the flag
*before* it hands out the callable, so another thread may be in the pack while the
first one is on its way out (`LeaveVisitor`, `Unwind`); `OneWalker` says that this
works. `WhenSeq` adds to each step of the traversal what its visitor does.
`Resume` may happen inside the visitor (`under`) or anywhere else.

A pack is given by its tree `Sub` and by what is written in it: `Written`, the elements
in order, and `Before`, how many of them precede each place. `WrittenAssumption` says that
these fit, which is a fact about every tree, and states it without recursion, so that
proofs can use it; `MCWhenSeq` has TLC compare `Written` with the flattened tree.

The abstract connection is the one of `when_all`: as nothing behind a failed child is
started, `when_seq` implements `Resolution` in mode "all", liveness included.

### Loops (`Loop`)

`phase` follows one iteration: `loop` (the callable is about to be called), `flight`
(its continuable is pending), `resolve` (the handler has the result). `me` is where
the shared pointer of the iteration is, `starter` the other pointer, on the stack of
the continuation that made the frame. `nested` says that the iteration runs on that
stack, so it cannot be left. A plain loop takes what its callable is resolved with
from its environment; a range loop adds the comparison with `end`. A range may be
empty, and then its callable is called with `end` and goes on behind it; `RangeCovered`
excepts that case by name. `ArgumentsFirst` allows for the order of evaluation in which a callable
that throws leaves a null pointer to the catch clause: `phase` is "crashed" then, and
the run ends.

### Coroutines (`Coroutine`)

`awaiter` and `resolver` are the two program counters at each awaitable, with one
step per access to `state_`; the store of `result_` is a step of its own, ordered by
the exchange (`acq_rel` on both sides). A resolver that runs inside `done()` is the
interleaving in which it finishes before the awaiter goes on. The coroutine may
throw, catch, and rethrow between two awaits. `uncaught` is history: the await whose failure
leaves the coroutine, at once or thrown again; `OutcomeJustified` compares what the promise
is resolved with to the result of that await.

### Results (`ResultVariant`)

`Construct`, `Make` (the static functions of `result`), `Change` (assigning an
`exceptional_result`, a `cancellation_result` or an `empty_result`), `Take`
(`get_value() &&` and its relatives) and the setters act on results; each is made of
what the code makes it of, steps on the storage below. `slot` and `memory` are what
`slot_` says and what is in `storage_`. `misuse` is set when `destroy()` runs a destructor for an object that is not there, or when an object
is constructed over a live one. `MoveThrows` lets the constructor of a value throw in
the middle of `set_value`, the move constructor and the move assignment. From the
first such exception on (`threw`) the slot may be wrong, so `SlotTruthful` speaks of
the time before it; `NothingLeaks` holds throughout: each content that the program
gave away is in one place, or was taken, or was destroyed.

### Mapped packs and result boxes (`Traverse`)

A pack is a tree of tuples, arrays and containers, and an element knows its position in
the arguments, so one that is lost, doubled or displaced can be told. The code works by
overload resolution; the definitions are the functions that it amounts to: `Effective`
and `Entered` are `is_effective_t` and the conditions of `try_match`, `Mapped` and
`Traversed` the two strategies, `Spread`, `Undecorated`, `FlatTo` and `RemapContainer`
how the results are put together. A container has a type apart from its elements,
because whether it vanishes is known from the type, even if it is empty.

A behaviour is one call: the program calls `map_pack` itself (`MapDirectly`), or
connects the arguments, and then `Connect` boxes them, `Visit` starts the boxes one by one
(with `when_seq`: after the one before has delivered), `Assign` fills a box, and `Finalize`
unboxes. The initial states are all packs within the bounds. `LeftBehind` says exactly
which continuables are passed by (see Disagreements), and is written without the
functions of the code; `BoxingLeavesNoTrace` compares a connection with the `map_pack` the
code never makes.

### Promises (`Promise`)

A waiter is a continuable that is started once. `place` says who has its promise: the
program, a foreign operation (through promisify or one of the three mappings of the asio
adapter), or the promise `promise_` of the class that the documentation of `split`
shows, which waiters join by `promise_ = split(std::move(promise_), promise)`. `data` is
`data_` of the waiter's `promise_base`; it is a callable until its call has returned.
Behind the promise of a waiter in `Future` there is a `std::promise`, otherwise a chain.

`calls` is the stack of the running calls of a split, `todo` the promises that one has
not come to yet. While one is being served, the program may do anything: resolve the
promise of another waiter, drop it, let it join, or call a split again, up to `MaxCalls`
deep. `Serve` is one round of `split_promise::operator()`: everybody gets a copy of the
arguments, the last one the arguments. `cause` is what was to become of a waiter; for an
error code it is taken from the table `Meant`, not from the code's sequence of
questions. `excused` are the waiters nobody has promised anything to: dropped by the
program, or joined inside of a call of `promise_` (see Disagreements).

## Runs

| Run | Checks | Bounds | Distinct states |
|---|---|---|---|
| `WhenAll` | no race on boxes, failures reported, calls return, implements `Resolution` with its liveness (so: one justified verdict) | 3 children, callback may resolve siblings | 18,916 |
| `WhenAny` | implements `Resolution` with its liveness (so: one winner, whose result is the verdict) | 3 children, callback may resolve siblings | 10,205 |
| `Wait` | frame outlives accesses, outcome, late results, nobody blocks for ever | one waiter, one resolver: the code has no more; timed or not | 483 |
| `Continuable` | started at most once, exclusive, frozen objects start nothing, the others what comes first in them, where the frozen state gets lost | 4 places, 4 continuations, symmetry | 14,866 |
| `Chain` | exceptions accounted for, first handler, progress | 3 stages at a time, 2 exceptions | 13,149 |
| `WhenSeq` | order, one walker, one child at a time, calls return, implements `Resolution` with its liveness | a pack of 4 children, depth 3, an empty container; ready children hold values | 8,769 |
| `WhenSeqReadyFailure` | violated: see below | the same, ready children may have failed | - |
| `Coroutine` | one runner, no dangling awaitable, outcome, progress | 3 awaits | 8,518 |
| `Loop` | frame alive, one outcome, ranges covered, failures reported | 4 calls, ranges within 0 .. 3, both orders of evaluation | 1,448 |
| `ResultVariant` | slot true, every object destroyed once, no content lost or doubled | 3 results, 3 contents, moves may throw | 25,092 |
| `Traverse` | order and place of the values, what is passed by, boxing unseen, shape kept | one argument of depth 2, or two of depth 1; 2 parts; up to 2 values of a continuable | 65,548 |
| `Promise` | one true outcome, nobody forgotten, a split serves its waiters | 3 waiters, one with a future, one given to foreign operations; calls 2 deep | 78,464 |

Three children are enough for a connection to have one that wins, one that loses
while the winner is inside, and one that was not started or arrives later, or
nested in either. The theorems below remove this bound and the others for all safety
properties except those of `Traverse`.
Four places and four continuations let two connections be connected, of equal or of
different strategies, and a full place be overwritten. Three stages are one
that runs, one that a signal passes by, and one that gets it; a handler may return a
chain, so runs are unbounded although chains are bounded at every moment. Two
exceptions are one in flight and one raised meanwhile. A pack of depth 2 is the least in
which a pack is passed by inside of one that is entered, or vanishes from one that
stays; no, one and two values are the three kinds of boxes. Three waiters are a first, a
middle and a last promise of a split; a second call inside of a first one meets those the
first has served, is serving and has not come to.

Most modules also state the types of their variables (`TypeOK`), on which the proofs
rest; they are proved, and no run spends itself on them.

Deadlock is checked in every run. Where a system may come to rest (a promise that
nobody resolves, a bound that is reached, `Entangled`), an action `Finished` says so.

Every property of a passing run is accompanied by a fault: a definition marked
"Fault" next to the one it distorts, which `PROJECT.json` lists under `mutants` and
with which TLC finds the property violated.

### Fairness

A thread that is inside the library keeps running, so its steps are weakly fair.
Nothing in the library obliges anybody to resolve a promise, to run the work given
to an executor or to wake up spuriously, so those actions have no fairness.
In `Wait` the resolver's lock is strongly fair: a waiter that spuriously wakes up for
ever takes and releases the mutex for ever, and a mutex that starved the resolver
then would not be one. In `Promise` the loop over the promises and the reset behind a call
are the library's own steps; that the callbacks return is assumed, since a callback that
does not keeps the rest of the waiters waiting by what `split` is. In `Chain` the same holds
for handlers. The deadline of a timed wait is a fixed point in time that
spurious wakeups do not put off, hence strong fairness on `Timeout`; without it
(`FairSpec`) the deadline may be arbitrarily far away. In `Loop` the continuables of
the callable are assumed to be resolved or dropped in the end, since the liveness of a
loop is about nothing else; in `WhenSeq` and `Coroutine` nobody has to resolve
anything.

## Disagreements between the code and what is said of it

* `WhenSeqReadyFailure`. The visitor of `when_seq` unpacks the result of a ready child
  without asking whether it is a value (`detail/connection/connection-seq.hpp:98-105`): a
  ready failure is lost, and the connection resolves as if all had succeeded. The
  compile test connects such a child and attaches a `fail` handler.

Nine more have no run of their own; passing runs contain them, and the property that
would say otherwise excepts them by name:

* `unlocker::unlock` raises the flag and notifies without holding `cv_mutex`
  (`detail/transforms/wait.hpp:220-221`). The waiter evaluates the predicate, finds it
  false, the resolver raises the flag and notifies, and only then the waiter falls
  asleep: it sleeps until the deadline, and then does return the result, although
  `transforms/wait.hpp:55-56` says that it is blocked until the chain is finished. `wait()`
  is not affected. In `Wait`, `WaitReturns` needs the fair deadline of `DeadlineSpec`
  for that reason.
* `operator>>` executes `left.freeze(right.is_frozen())`
  (`detail/connection/connection-seq.hpp:56`), which thaws a frozen left side; `&&` and `||`
  merge the two states (`lost` in `Continuable`).
* `then` and `fail` with a continuable (`continuable-base.hpp:303-306`, `390-397`) take the
  ownership of the left side only (`detail/core/base.hpp:1005`): if the continuable they are
  given was frozen, and the left side was not, the result is invoked when it dies (`lost` in
  `Continuable`).
* The converting constructors (`continuable-base.hpp:139-149`) begin with an ownership
  of their own: a continuable that is frozen and then type erased is invoked when it
  dies (`lost` in `Continuable`).
* `range_loop` compares with `end` after the first call
  (`detail/operations/loop.hpp:165-168`); an empty range is called with `end` and then
  with what follows it (`RangeCovered` in `Loop`).
* The handler of a loop takes the pointer `me` in an argument of `next()`, and the object
  of `next()` is the result of the callable (`detail/operations/loop.hpp:97-98`). C++17
  evaluates the object first; C++14, which the library supports, leaves the order
  open. If the pointer is moved first and the callable throws, the catch clause uses a
  null pointer (`FailureReported` in `Loop`).
* `operator=` and `set_value` of the variant destroy before they construct
  (`detail/utility/result-variant.hpp:112-145`); a throwing move leaves a slot that
  says value or exception about raw memory (`SlotTruthful` in `ResultVariant`).
* A promise that joins `promise_` inside of a call of `promise_.set_value()` is in the
  `data_` that the call resets when it is done (`continuable-promise-base.hpp:159-162`): it is
  destroyed, and nobody is told. Moving `promise_` away before the call, as
  the documentation of `split` does not, avoids it (`excused` in `Promise`).
* A cancellation that reaches a future is `set_exception` of a null `std::exception_ptr`
  (`detail/transforms/future.hpp:99`), which is undefined (`FutureOutcome` in `Promise`).

Two concern the types of packs. `map_pack` enters a pack if its mapper can be called with
*all* of one of its parts (`detail/traversal/traverse.hpp:281-300`), so
`when_all(1, make_tuple(1, c))` hands `c` to the handler as it is and starts nothing, while
`continuable-traverse.hpp:42` says that it "tries to visit all plain elements"; `LeftBehind`
states the condition. And `when_all` and `when_any` of a `std::array` do not compile, since
`traverse_pack` has no way to enter one, while `when_seq`, which traverses by other means,
accepts it; the initial states of `Traverse` leave those calls out.

## Proofs

Every safety property that a run checks is a theorem about all values of the constants,
except those of `Traverse` and what is listed at the end of this section. The theorems
are at the end of each proofs module, and have the names in the table.

| Module | Theorems |
|---|---|
| `WhenAllProofs` | `TypeCorrect`, `AtMostOneInvocation`, `VerdictIsJustified`, `AssertionsHold`, `NoRaceOnBoxes`, `FailureIsReported`, `OnlyCallbacksEntangle`, `Implementation`, `NobodyIsStuck`, `CallsTerminate`, `EndsWithVerdict`, `VerdictIsFinal`; of `WhenAny`: `OneWinner`, `ArrivalIsReported`, `AnyOnlyCallbacksEntangle`, `AnyImplementation`, `AnyNobodyIsStuck`, `AnyCallsTerminate`, `AnyEndsWithVerdict`, `WinnerIsFinal` |
| `WhenSeqProofs` | `TypeCorrect`, `VisitsInOrder`, `OneThreadInThePack`, `OnlyReadyFailuresAreLost`, `TraversalIsNeverLost`, `NobodyIsStuck`; if ready children hold values: `OneAfterTheOther`, `VerdictIsJustified`, `Implementation` |
| `WaitProofs` | `TypeCorrect`, `FrameOutlivesUnlocker`, `WaitTellsTheTruth`, `LateResultCounts`, `NoWakeupLost`, `NobodyIsStuck`, `MonitorIsLeft`, `WaitTerminates` |
| `ContinuableProofs` | `TypeCorrect`, `ContinuationsAreExclusive`, `FreezeLasts`, `FrozenDiesSilently`, `UnfrozenDiesInvoked`, `ContinuationsAreNotForgotten` |
| `ChainProofs` | `TypeCorrect`, `DispatchedToItsHandler`, `NoExceptionVanishes`, `NoHandlerPassedBy`, `EndsOnceAndJustified`, `NeverStalls`; of `ResultVariant`: `SlotTellsTheTruth`, `NoContentLost` |
| `CoroutineProofs` | `TypeCorrect`, `CoroutineHasOneRunner`, `AwaitableOutlivesItsThreads`, `CoroutineOutcomeJustified`, `NoResumptionLost`, `AwaitsTerminate` |
| `LoopProofs` | `TypeCorrect`, `FrameOutlivesIterations`, `ResolvedWithLastResult`, `RangeIsCovered`, `OneCallPerPosition`, `RangeLoopTerminates`, `FailureEndsTheLoop` |
| `PromiseProofs` | `TypeCorrect`, `ToldWhatWasResolved`, `NobodyIsForgotten`, `EverybodyIsServed`, `ToldOnce` |

They rest on the named assumptions of the modules, which TLC evaluates in every run, and
on the library's theorems about finite sets, functions and sequences. All have the same
shape: an invariant `IInv`, made of named parts, holds initially and is preserved by every
action; the theorems follow from it. TLC has checked each `IInv` on the instances of the
runs before it was proved. None of the properties is inductive by itself, and what `IInv`
adds is why the code is right:

* `WhenAll`: `CountExact` (`left` is the number of the children that are counted and have
  not completed, plus one until `Main` has), so that zero means that every child arrived with
  a value (`ZeroMeansAll`); `Closed`: once somebody has completed the connection, nobody can
  be counted again; `OneInside`: one activation is inside `call_once` while the flag is
  running, and `calls` and `verdict` agree with that; `Shape` and `Reported`: where an
  activation can be, and what it leaves behind. `Implementation` shows that `Invoke`
  is `Decide`, `Arrive` is `Settle` and every other action is a stutter.
* `WhenAny`: `OneInside` again, and where who arrived can be (`AnyShape`). There is nothing to
  count; `AnyImplementation` is as above. For both, `NestedInMain` adds that without re-entrant
  callbacks a call runs inside of another one only while `Main` starts the children, so that
  `Entangled`, which the liveness properties except, is an affair of such callbacks.
* `WhenSeq`: the traversal is carried by one activation or by one callable at any
  time (`OneCarrier`), and the hierarchy of the carrier is a path to a place that has as many
  elements before it as were visited (`CarrierPlaced`), whatever the shape of the pack.
  `ChildrenTrue`, `Latest`, `Over` and `Delivered` tell what the visitor knows by then. The
  three theorems on `when_seq` have the hypothesis `ReadyKinds \subseteq {"value"}`: without
  it they are false, as `WhenSeqReadyFailure` shows.
* `Wait`: `UnlockedOnce` (the work is done with the ownership, and given up with it),
  `Published` (the flag is raised behind the store and nothing is stored afterwards) and
  `Holders` (who holds the mutex, from where the threads are). In `wait()` the waiter cannot
  leave before the resolver has released the mutex (`LeftForAReason`).
* `Continuable`: `Apart`: a continuation is in one object, or in one waiting part, or not
  created; `AllApart` says the same of the parts of an object, and `AllSilent` that whatever is
  stored in another continuable is frozen; `FlagsTrue` ties the two flags
  to what the program has done and the code has lost. The lemmas say what `Connect`, `Chain`
  and the others make of sound objects. `ContinuationsAreNotForgotten` needs one thing
  more, that an object whose data was consumed is empty (`HollowAfterUse`, which also has that
  any other one has something to start and delivers nothing before); it compares two
  states, and says that a continuation which could be started before a step can be
  started after it, unless the step started it or is one of those that `ThrownAway` names.
* `Chain`: an executor or a handler has only what the handler is for (`Dispatched`). A chain
  is a sequence of any length.
* `ResultVariant`: `destroy()` always leaves raw memory (`DestroyedIsRaw`), because an object
  lies only where the slot says so, even after a move threw.
* `Coroutine`: `Handshake` orders the steps of the two threads, and `Exchanged` says what the
  last of them to exchange the state finds there. From these follows that exactly one
  of them has the coroutine (`EnteredOnce`). `ThrownJustified` follows an exception from its
  await through its type, by which the promise tells a cancellation, to the promise.
* `Loop`: `Held` (where the pointer is, by the phase) and, for a range, that the calls are
  consecutive, the last one was made with the current position or the one before it, and a
  range that was not empty is never left (`LastCall`, `Consecutive`, `Inside`).
* `Promise`: `Running` says of every call on the stack that whoever is in it and has a
  callback still is to be visited, with whole arguments; `Disjoint` that no promise is in
  two calls, nor in a call and in `promise_`, except in the one that calls `promise_` where
  it is. The exception is the disagreement above, and `Joined` confines it.

### What is proved of the liveness properties

A liveness property takes fairness and `ENABLED`, and neither is within reach of the prover.
What is left of one when these are taken away can be proved, and is where the code could go
wrong: that nobody waits for somebody who does not come, that every step counts, and that
things are in order where they stop.

| Liveness property | Nobody is stuck | Every step counts | At the end |
|---|---|---|---|
| `CallsReturn`, `ImplementsAllFair` of `WhenAll` | `NobodyIsStuck` | `CallsTerminate` | `EndsWithVerdict`, `VerdictIsFinal` |
| `ImplementsAny` | `AnyNobodyIsStuck` | `AnyCallsTerminate` | `AnyEndsWithVerdict`, `WinnerIsFinal` |
| `ResolverReturns`, `WaitReturns` | `NoWakeupLost`, `NobodyIsStuck` | `WaitTerminates` | `MonitorIsLeft` |
| `CallsReturn`, `ImplementsAll` of `WhenSeq` | `NobodyIsStuck` | - | `TraversalIsNeverLost` |
| `Progress` | - | `NeverStalls` | `EndsOnceAndJustified` |
| `GoesOn` | `NoResumptionLost` | `AwaitsTerminate` | `NoResumptionLost` |
| `FailureReported` of `Loop` | - | `RangeLoopTerminates` (ranges) | `FailureEndsTheLoop` |
| `Served` | - | - | `EverybodyIsServed`, `ToldOnce` |

"Can go on" is spelled out in `CanGoOn` of `WhenAll`, `WhenAny` and `WhenSeq`, and in
`WaiterBlocked` and `ResolverBlocked` of `Wait`, as a condition on the state. TLC
was asked on the instances of the runs whether that is what `ENABLED` says of the steps, and
it is, in every reachable state. Further invariants were needed for them:

* `NestedInCaller` (`WhenAll`, `WhenAny`): a call runs inside of the loop that starts the
  children, or of somebody who is inside of the callback. `Completed` (`WhenAll`): who brought
  `left_` to zero does not leave before the callback was invoked.
* `Nesting` (`WhenSeq`): a visitor waits only for calls that resumed the traversal at an
  element written behind its own. As a set of numbers has a least one (`LeastNumber`, from the
  well-foundedness of `<`) nobody waits for itself around a circle.
* `Awake` (`Wait`): the waiter holds the mutex from its test of the flag until it sleeps, so
  that the flag is not raised in between. The bound of `WaitTerminates` counts a step of the
  unlocker for more than the round of the waiter that it causes; spurious wakeups are the
  only steps that can be taken for ever.
* `HandedOver` (`Coroutine`): who leaves an awaitable without the coroutine has told the other.
* `Counted` (`Loop`): the calls made and the positions left add up to the range.
* `EndingTrue` (`Chain`): what ended a chain was in flight.
* `ReadyKnown` and `Kept` (`WhenSeq`) need no hypothesis about what ready children hold. So
  `OnlyReadyFailuresAreLost` tells how far the disagreement of `WhenSeqReadyFailure` goes: a
  ready failure spoils the box of its child, and nothing else of the result.
* `DroppedIsGone` (`Promise`): who heard of the end of its promise is in no split any more.

### What is only model-checked

* Liveness itself: that a step which can be taken is taken (`CallsReturn`, `ResolverReturns`,
  `WaitReturns`, `Progress`, `GoesOn`, `Served`, `FailureReported` of `Loop`, and in
  `ImplementsAllFair`, `ImplementsAny` and `ImplementsAll` that a verdict comes).
* That the walk of the asynchronous traversal ends: the assumptions on a pack allow a node
  that contains itself and no leaf, and that there is none is an induction over the pack.
* That the calls of `Served` end: a callback may wait again, without a bound.
* `Traverse`: what recursive operators compute for every pack needs induction over
  data, which the prover cannot do.
* That `Written` is the flattened pack: the same.

Two definitions were corrected when they were reasoned about. `PromiseResolver` of
`Promise` was a `CASE` of which two guards could hold at once, which leaves open what it
is; it asks one question after the other now, as `asio.hpp` does. `NothingLeaks` of
`ResultVariant` allowed a content to be in a value and in an exception at once.


## Not modelled, and the plan

Left out, and why:

* Compile-time parts (hints, traits, feature detection) have no state; the testing
  helpers are macros for client tests.
* How an erased callable is stored is the business of a library outside of the
  repository; `Promise` models when it is there.
* `operator>>` is in `Continuable` as far as ownership and the order of the starts go. That
  the results of its two sides are handed on one behind the other is a fold over argument
  lists.
* The mapping of a container in its place, where its element type allows it, computes
  the same as the one into a new container.
* The frame of the asynchronous traversal is kept alive by its callables, and the
  boxes of `when_seq` by the frame; the models take that for granted.
* Memory orders weaker than sequential consistency, allocation failure and the depth of
  the stack.

What is left of the plan: nothing that can be done with these tools on these models. Proofs
about `Traverse`, and of the end of the asynchronous walk, want induction over packs; the
step from the theorems on progress to the liveness properties wants a prover for `ENABLED`.
