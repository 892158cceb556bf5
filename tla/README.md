# corio in TLA+

corio is a header-only C++20 coroutine runtime on top of Asio
(`src/include/corio`). Its own logic is small and entirely about *who may
resume or destroy a suspended coroutine, on which executor, and when*:
handlers are posted to executors, tasks roam between executors, a task is
aborted from anywhere while it runs, branches of a `select` are thrown away
while their handlers are queued. This directory models that logic, checks it
with TLC and proves with TLAPS, for every value of the constants, each safety
property that TLC finds to hold.

## 1. Inventory

| component | source | state | operations | modelled by |
|---|---|---|---|---|
| Task, AbortHandle, TaskSharedState | `impl/task.ipp`, `detail/task_shared_state.hpp`, `detail/context.hpp` | entry handle, abort flag, current runner, result, registered awaiter, all under one mutex | spawn, `co_await task`, abort, detach, destroy, `get_result`, completion, AbortChaser | one task: `Task`, `TaskPromise`; several, and their mutexes: `Runtime` |
| awaiters of `this_coro` | `detail/this_coro.hpp` | a cancellation flag (yield), a timer (sleep), nothing (roam) | suspend, resume, destroy | `Task` (yield, roam), `Awaiters` (yield, sleep), `Runtime` (roam, lock by lock) |
| Operation, CompletionHandler | `detail/operation.hpp`, `detail/completion_handler.hpp` | cancellation signal, pointer to a flag owned by the handler | build, await, complete, destroy | `Awaiters` |
| gather, try_gather, select | `detail/collective.hpp` and three collect handlers | rest count, results, first exception, winner, resume handle | launch the branches, a branch completes, resume the caller, destroy | `Collective`, `CollectivePromise` |
| Lazy | `impl/lazy.ipp`, `detail/lazy_promise.hpp`, `detail/promise_base.hpp` | frame, caller handle, result, context | create, await, return, move, destroy, execute | `Calls`; the entry coroutine also in `Task` |
| Generator | `impl/generator.ipp`, `detail/generator_promise.hpp` | frame, caller handle, current value, finished flag | await, yield, return, throw, `current`, move, destroy | `Calls` |
| run, block_on | `impl/run.ipp` | a thread pool, a promise, the blocked thread | start, wait, release, join | `Runtime` |
| SerialRunner | `detail/serial_runner.hpp` | an executor, or a strand and what is under it | fork | `Runtime`; elsewhere executors are given |
| AnyAwaitable | `impl/any_awaitable.ipp` | what it wraps, the Lazy of its last await | wrap, await, move, destroy | `Calls` |
| operators `&&`, `\|\|` | `detail/operators.hpp` | none | build try_gather, select | no: compile-time |
| Result, traits, assertions, defer | several | none of their own | | abstracted or no |

How they interact. Everything meets in Asio's executors: a coroutine
suspends by handing its handle to a handler that is posted (now or when an
event happens) and an executor resumes it by running the handler. The task's
coroutine, its callers and its aborters share `TaskSharedState` under its
mutex; the coroutines of one task (a chain of Lazies, the branches of a
gather) share one `TaskContext` under nothing, because a task is meant to be
sequential. `request_abort` posts an *AbortChaser* to the task's current
runner, which destroys the entry frame if the task is still there and posts
itself onward if it has roamed. Destroying a frame runs the destructors of the
awaiter it is suspended in, and these must disarm every handler that still
holds the handle.

What is hard. A handler can be queued already when the frame it would
resume is destroyed. Some handlers check a flag (yield, Operation, do_resume
of TaskAwaiter and of the collectors), some do not (`Lazy::execute`,
`roam_to`, sleep), and these depend on the order of handlers or on the timer
being withdrawn. The frame may be destroyed on one executor while it runs on
another. Completion races abort, the wake-up of the awaiter races the awaiter's
own destruction, and branches go on completing after the one that decides. The
chaser holds the task's mutex while the frame's destructors take those of the
Tasks in it; `roam_to` still holds it when the task is already running on
another thread; a thread may be blocked for a task that needs a thread.
PROJECT.json lists these hazards, each at its line, with the property
that would notice it going wrong.

What makes each component correct.

- *Task*: never resumes a destroyed frame, never destroys a running one; a
  task settles once; every awaiter is told the settled outcome, once, not
  before it is settled; an aborted or abandoned task ends; one chaser is
  after it.
- *Awaiters*: a destroyed awaiter's handler is harmless, a live one's event
  is not lost, the flag is written only while it exists.
- *Collectives*: what is delivered depends only on the order of the
  completions; the caller is resumed once, when enough of them have happened.
- *Lazy and Generator*: control returns to the caller that waits, exactly when
  its callee ends or yields; a frame goes with what holds it; a caller handle
  does not outlive its caller; a Generator says true once for each co_yield.
- *run, block_on, SerialRunner*: the blocked thread is released; a task is on
  an executor that runs one handler at a time; run returns, and nothing of its
  coroutine is left then.
- *The tasks together*: no threads wait for each other's mutexes, a mutex
  outlives its holder, and what is abandoned ends with all it owns.

## 2. Modules

### `TaskPromise` and `Task`

`TaskPromise` is what a task promises to whoever awaits it: an outcome
settled once, *cancelled* only on request, told to each awaiter, and a result
that is moved out once (a second reader gets a moved-from value, as in the
code: `await_resume` and `get_result` both `std::move`).

`Task` is the detailed machine. One action is one critical section of
`TaskSharedState`, one handler run by an executor, or one step of the task's
own coroutine from one suspension to the next.

| in `Task` | in the code |
|---|---|
| `queue` | the handlers posted to each executor, FIFO (Asio) |
| `frame`, `at` | the entry coroutine and the executor that runs or will run it |
| `entry` | `entry_handle_ != nullptr`; `is_finished()` is its negation |
| `currRunner` | `curr_runner_` and `context_.runner`, which are always written together |
| `requestedAbort`, `result`, `resumer` | the members of the same names |
| `taken` | the value in `result_` has been moved out |
| `awaiter[a]` | one `TaskAwaiter`: idle, waiting, dropped, or what it returned |
| `Resume`, `GuardedResume` | a posted handle without / with a cancellation flag |
| `RunAbortChaser` | `AbortChaser::operator()`: finished, chase on, destroy |
| `Roam` | `ExecutorSwitchAwaiter::await_suspend` |
| `Suspend`, `Complete` | awaiting an operation or a task, and its completion |
| `Finish`, `Exit` | the end of `launch_task`, and `final_suspend` |
| `Await`, `RunDoResume`, `DropAwait` | `TaskAwaiter` |
| `fault` | undefined behaviour the step ran into; nothing is modelled after it |

`co_await this_coro::yield` goes through an Operation on `asio::post` and
`do_yield()` through YieldAwaiter; both guard their handler with a flag and are
the one action `Yield` here. `spawn_background` has no Task object and nothing
to abort; it is in `Runtime`. A move assignment over a Task drops its reference
without aborting and is the action `Detach`.

Constants say what the program does: `Foreign` (it awaits operations bound to
another executor), `Revisit` (it roams back to an executor it has been on),
`Parallel` (executors that are not serial), `ConcurrentAwaits` (several
coroutines await the task at once). The README of corio asks for serial
executors and says nothing of the rest, so the runs and the theorems say for
each property which of them it needs.

### `Collective` and `CollectivePromise`

`CollectivePromise` says what is delivered as a function of the completions so
far (`Answer`): gather every result, try_gather every value or only the first
exception, select only the first completion. `Collective` has the launching
loop (branches run inline inside `await_suspend`), the three `do_co_await`
bodies, `CollectorBase::resume`, the posted `do_resume`, and the destructors
that throw the remaining branches away. `canceled` is the flag `do_resume`
shares with the awaiter and all it looks at; that it tells when the caller is
gone is a matter of who sets it (`DestroyAwaiter`), and of the handler keeping
it alive. What the branches await is abstract, so a branch's own handler is
guarded by the branch's state; `Awaiters` has the real flags. Which of the three
functions is called is chosen in `Init`, so one run covers all. Ranges and
tuples have the same logic and are one model; select's `no_` and its tuple
form's `result_.has_value()` are the same variable.

### `Awaiters`

Several coroutines on one serial executor, each suspending again and again
through one kind of awaiter and liable to be destroyed whenever it is
suspended. `event` is what Asio has outstanding, `queue` what is ready to
run, `flag` what `cancelled`/`cancelled_` points to, including nullptr and
memory that went away with the CompletionHandler. `Withdraw` is Asio's
cancellation, which does nothing once the handler is ready: that is the case
the flags are for. `CancelIO` lets the program cancel the I/O object itself,
`LateDestroy` lets a sleeper be destroyed when its expired handler is queued.
An operation outside `Cancelable` (such as `asio::post`) ignores the signal.
With `Discards` an Operation may also end unawaited, when `cancelled_` is still
null; the runs leave that to programs that await what they make.

The three `await_suspend`, the three destructors and the three handlers are
operators of their own (`SuspendYield`, `DestroySleep`, `OperationHeeds`, ...),
joined in `Suspend`, `Destroy` and `RunHandler`.

### `Calls`

The inside of one task: coroutines that call each other. `frame` says where
each is (running, waiting in a co_await of another, suspended on anything else,
collecting its branches, stopped at a co_yield or at its end), `holder` in whose
frame its Lazy or Generator object lives, `callerHandle` what its promise
would resume, `callee` what the awaiter of a waiting coroutine refers to. The
last two are written apart in the code and must agree, which is `Chained`.
`AwaitSuspend` resumes the callee *wherever it is*, as symmetric transfer
does: a callee that is suspended on an event of its own (`resumed_early`) or has
ended (`resumed_done`) is not protected by anything in the code.
`Transfer` is FinalAwaiter, at a co_yield or at the end; `Destroyed` the cascade
of destructors. gather and select appear as `Collect`, `Launch` and
`Collected`, which is all of `Collective` that matters here: branches are
launched inline, and when the caller goes on the branches and what was moved
into them are destroyed. `ByReference` lets a branch await an object that stays
in its launcher's frame, as passing an lvalue to gather or select does.

An AnyAwaitable is a coroutine too: its `operator co_await` starts a fresh
invoker that awaits what it wraps (`AwaitAny`), and `await_resume` leaves the
object without a frame (`empty`) but alive. The assignment `lazy_ = invoker_(...)`
over a Lazy that still had a frame would forget it (`leaked`). What the
coroutines are is the variable `kind`, chosen from `Kinds` in `Init`.

A Generator that threw is not marked finished, so awaiting it again resumes an
ended coroutine (`resumed_done`). `AwaitThrown` says whether programs do that;
nothing in corio's documentation says they may, and the passing run has it
FALSE.

### `Runtime`

The other modules take a critical section as one step, one task at a time, and
executors that are serial because they are said to be. `Runtime` is what makes
that so: threads, strands, mutexes and the ownership of Tasks.

| in `Runtime` | in the code |
|---|---|
| `caller` | the thread in `run` or `block_on`: blocked in `future.get()`, joining the pool, returned |
| `pool`, `queue`, `job` | `asio::thread_pool`, of `run` and of another runtime (`Abroad`, with the threads `Others`): the handlers per executor and what each thread does |
| `mutex[t]` | who holds `mu_` of the TaskSharedState of `t` |
| `runner[t]` | `curr_runner_` and `context_.runner`: an executor and the one under it |
| `Resume`, `GuardedResume` | a posted handle without / with a cancellation flag |
| `frame`, `entry`, `asked` | the entry coroutine, `entry_handle_ != nullptr`, `requested_abort_` |
| `owner[t]` | in whose frame the Task object is, or that there is none |
| `future[t]` | the promise of `launch_with_future` |
| `ForkRunner` | `SerialRunner::fork_runner` |
| `Spawn`, `SpawnBackground`, `BlockOn` | the three ways a coroutine starts a task |
| `RunAbortChaser`, `EndAbortChaser` | `AbortChaser::operator()` up to and from `destroy()`; between them `Drop` destroys what the frame owns, at any depth, each with its own mutex |
| `Roam`, `Unlock` | `ExecutorSwitchAwaiter::await_suspend` up to the end of its lock, and the unlocking |
| `SetPromise`, `Finish`, `Exit` | the end of `launch_with_future`, of `launch_task`, and of the frame |
| `Return`, `StopPool`, `Join` | the end of `block_on` and of `run` |
| `fault` | a bare handle resumed a dead frame; nothing is modelled after it |

A critical section that neither waits for another mutex nor posts the task
that shares it is one step; only the chaser's and `roam_to`'s are not. A
worker that needs a mutex somebody holds has no step until it is free.
Programs are data: a `Program` says whether `run` is multi-threaded, how many
tasks there are, which of six `Features` they use (spawning on the same
executor, abort, detach, background tasks, block_on in a coroutine, Tasks shared
out to other frames), and to which `places` they roam. `Init` chooses one of
`Programs`.

A task may `roam_to` any of the program's places whenever it runs and is not
there already, which is all `await_suspend` asks: again and again, back to where
it was, and to the pool of another runtime, or from there home. A place is what
the constructors of SerialRunner make of an executor, a pool's own (`Plain`) or a
strand (`OfStrand`); a task forked by one that roamed gets a strand over the pool
it roamed to. The one condition added is that the executor is `Serial`, as
corio's README asks of the caller. A task that roams back may run into what
`TaskRoamBack` shows, a bare handle left behind by the frame's destruction: then
`fault` is set and the behaviour ends (`Defined`). It ends as well when `run`
has returned, although tasks on another runtime would go on.

Two assumptions are about programs that block a thread: they leave `Reserve`
workers free, and what a coroutine blocks for neither awaits an event that may
not come nor roams (`FreeToWait`); the coroutine of `run` itself does both. `OneInside` is what `Task` assumes as
`Parallel = {}`: every executor that run, block_on, spawn and `fork_runner`
produce, on either pool, runs one handler at a time, also for a task whose runner
changes.

### The others

`MCTask`, `MCCollective`, `MCAwaiters`, `MCCalls` and `MCRuntime` give the
constants their values for TLC. `TaskProofs`, `CollectiveProofs`,
`AwaitersProofs`, `CallsProofs` and `RuntimeProofs` hold the proofs about the
modules they are named after, and `QueueFacts` the lemmas about FIFO queues that
three of them share.

## 3. Runs

| run | instance | shows |
|---|---|---|
| `TaskSerial` | 3 executors, 2 awaits on different executors; serial, no foreign operations, no roaming back, one await at a time | all safety and liveness of the task; whoever awaits is registered or has its wake-up posted (`WakePosted`) |
| `TaskRoamBack` | 2 executors, roaming back | `NoDeadResume` violated |
| `TaskForeign` | 2 executors, foreign operations | `NoRunningDestroy` violated |
| `CollectiveAll` | 3 branches, 2 executors; `Init` chooses the function and whether the branches roam | the promise, up to the first undefined behaviour; no `do_resume` comes after the caller has gone (`NoDeadCaller`), and it is posted when enough branches have completed (`ResumePosted`); without roaming the caller is resumed |
| `CollectiveRoamParallel` | 2 branches that roam between 2 executors | `Sequential` violated |
| `AwaitersGuarded` | a yield, a sleep, a cancelable and a non-cancelable operation | dead handlers are harmless, flags exist when written, a suspended coroutine's handler is to come and will be heeded (`EventKept`), no event is lost |
| `AwaitersSleep` | a sleeper destroyed late | `NoDeadResume` violated |
| `AwaitersClose` | the program cancels the I/O object | `NoStrayWrite` violated |
| `CallsOwned` | an entry coroutine, 2 branches, a Generator of up to 2 co_yields and a Lazy, or instead of the Lazy an AnyAwaitable that may wrap the Generator; each created at most once by whoever calls it | who awaits only what its frame holds is always resumed, and rightly; no frame is orphaned, forgotten or resumed after its end; the Generator's answers are true |
| `CallsLoser` | the same, awaiting by reference | `NoDeadResume` violated |
| `RuntimeOwned` | 2 workers and 1 of another runtime, a strand over either pool and the pool itself to roam to, 2 or 3 tasks, 5 programs that between them use every feature but `share` | one thread inside a task, no deadlock on mutexes, no mutex destroyed while locked; whoever blocks is released, the abandoned is pursued (`AbortPursued`) and ends unless it roams for ever, run returns and leaves nothing of what ended on its pool |
| `RuntimeBackground` | a background task that roams | `MutexOutlives` violated |

Bounds. No counter and no queue is cut off. A task has at most one handler
that would resume it, at most one chaser (`AbortChased`) and one wake-up per
await, so queues are short by themselves; coroutines suspend any number of
times. Three executors are the least on which a chaser can follow a task that
moves on while it is being chased; two awaits are the least that can overwrite
each other, and they sit on the task's own and on another executor so that both
a FIFO order and no order at all between wake-up and chaser occur. Three
branches let one complete before, at, and after the deciding one. In
`Awaiters` there is one coroutine per kind of awaiter, and a destroyed one never
comes back: coroutines interact only through the order of the queue. In `Calls`
any of the coroutines of a shape may call any other, so every shape with up to
four levels occurs; a Generator awaited by one coroutine and then moved into another
needs two co_yields (`MaxYields`, the only cut-off counter), and two branches
are the least of which one can lose. The branches are interchangeable
(`BranchSymmetry`); the run checks no liveness, so the reduction is sound.

`Runtime` has the least numbers with which its questions arise: two workers, so
that one can hold what the other waits for and one can be blocked while the
other works; a root and one more task with all the features, and three tasks in
the program without any, where a task that is being destroyed owns one that
owns another.

The programs that roam do so from a pool of one thread to a strand
(`OnOneThread`), from strand to strand (`OnTheMove`), each task once, and
between two runtimes, away and back without end (`Emigrants`); the other
runtime has one worker of its own, since `run` does not join it. The five
programs have 42,660 states together; more of them would cost time for the
strong fairness of the liveness properties, and the safety properties are
proved for all. Tasks get their names in order and the next idle worker takes a
handler, since neither names nor workers differ; no state is lost. `Reserve` is
1. What depends neither on the number of executors nor on how the task is used
(`AwaitSeesFinished`, `AbortChased`, `KeepsPromise`) is proved for `Task`
without the assumptions of `TaskSerial`. No safety property rests on these
bounds: section 5 proves each for any number of executors, coroutines,
branches, tasks and workers.

Where `Deadlock` is off, the system may stop: a task that ended, or one that
awaits an event that never comes.

### Violations: where code and documentation disagree

- `TaskRoamBack`. `roam_to` posts a bare handle. If the task roams away and
  back while the chaser waits in the old executor's queue, the chaser finds
  the runner unchanged and destroys a frame whose resume is still queued
  behind it.
- `TaskForeign`. An operation on another executor's I/O object resumes the
  task there; `curr_runner_` still names the old one, where the chaser
  destroys the frame under a running thread.
- `CollectiveRoamParallel`. The branches share the caller's `TaskContext`, so
  one branch that roams moves the runner of all while others still resume on
  the old executor: one task on two threads.
- `AwaitersSleep`. Cancelling a timer that has expired does nothing, and its
  handler has no flag to look at.
- `AwaitersClose`. A program that closes the socket a coroutine waits on
  makes the handler return without resuming; the flag dies with it, and the
  Operation's destructor writes to it later.
- `CallsLoser`. A Lazy or Generator awaited by reference in the losing branch
  of a select is not cancelled. It goes on, and when it ends or yields it
  resumes the caller handle of the branch that was destroyed.
- `RuntimeBackground`. `roam_to` posts the coroutine while it still holds the
  mutex. Another thread may resume it at once and, in a background task, run it
  to its end without that mutex; the TaskSharedState is freed with the frame
  and the first thread unlocks a mutex that is gone. (A task that has a Task
  takes the mutex to finish, and so waits.)

Both runs of `Task`, and `Emigrants` in `Runtime`, stop at the same fault: of what
a task does that roams back, `RuntimeOwned` shows what happens up to there.

More limits are constants or assumptions of the passing runs rather than
runs of their own. Of two coroutines that await one task at a time, the
first is never resumed (`register_resumer` overwrites; `ConcurrentAwaits`).
gather, try_gather or select of an empty range launches nothing, and nobody
calls `resume()` (`Count` = 0 violates `CallerResumed`). Two tasks that hold
each other's Tasks lock each other's mutexes in opposite orders, and one that
holds its own locks it twice (with `share` TLC violates `NoLockCycle`). With
`Reserve` = 0 every worker may be blocked in `block_on` for a task that needs
one (`BlockOnServed`). Where `hardware_concurrency()` is 0 the pool has no
thread and `run` waits for ever; `RuntimeAssumption` asks for one worker. A
task that roams between executors for ever stays ahead of its chaser: `AbortEnds`
is checked without `Revisit`, and `AbandonedEnds` excepts a task whose runner
changes again and again (TLC violates it without that). A coroutine of `run`
that roamed to another runtime and ends there sets its promise on a thread that
`run` does not join: `run` returns while the frame, and the Tasks in it, may still
be there, so `RootEnded` speaks of coroutines that end on the pool of `run` (TLC
violates it without the condition). An Operation that is
destroyed unawaited dereferences a null `cancelled_` (`Discards`), and a
Generator awaited again after it threw resumes an ended coroutine
(`AwaitThrown`). `co_await` of a
`std::future` spawns its polling coroutine on `system_executor`, which is not
serial (`Parallel`): there `NoRunningDestroy` fails just as in `TaskForeign`,
and `SerialSafe` excludes it by assumption.

## 4. Fairness

`FairSpec` of `Task`, `Collective` and `Awaiters` assumes two things only: an
executor that has a handler at its head and is free runs it (Asio runs
everything that is posted while the context runs), and code that is running
reaches its next suspension or its end (weak fairness on `Body`). Awaited
events need not happen, nobody has to call anything, and a task may suspend
for ever: `AbortEnds` and `DestroyedTaskEnds` hold for a task parked on an
event that never comes, which is the case they are for.

`Runtime` has threads, so it says more. A worker that is in the middle of
something goes on (weak fairness of `Step(w)`): the operating system runs it,
and a coroutine does not loop for ever between two suspensions. A handler at
the head of an executor is taken if it can be taken again and again (strong
fairness of `Take` per executor): with fewer workers than busy executors a
free worker need not be there all the time, but the scheduler of
`asio::thread_pool` is one FIFO queue, so an executor that waits reaches its
front. The executors are taken together where that asks less: the two pools are
one (`Lines`), and so are the strands over either pool that were made for the
same task; each line is served if one of its executors can be taken again and
again. All of it is required only while `Defined`. The calling thread goes on when its future is set and when all workers
are idle (`Return`, `Join`). `StopPool` has no fairness, so a caller that
keeps its pool, as one of `block_on` does, is covered too. A mutex is not
assumed to be fair: where a lock must be got for an action, weak fairness of
the worker's step is enough, since no holder is followed for ever by another.
Calls has no liveness properties.

## 5. Proofs

The sets of executors, awaiters, coroutines, branches, tasks and workers are any
sets (workers, branches and the coroutines of one task finite), and no queue is
bounded. Nothing is assumed past the
named assumptions on the constants and what the tables say of the program.

The liveness properties are out of this prover's reach, and so are proved only in
the half that is safety: that whoever should be told, resumed or ended always
has something on its way to it (`WakePosted`, `ResumePosted`, `EventKept`,
`AbortPursued`). What fairness adds, that it arrives, is TLC's.

### `TaskProofs`

| theorem | property | assumes of the program |
|---|---|---|
| `TypeCorrect` | `TypeOK` | nothing |
| `AwaitNeverEarly` | `AwaitSeesFinished` | nothing |
| `OneChaser` | `AbortChased` | nothing |
| `TaskKeepsPromise` | `KeepsPromise` (refinement of `TaskPromise`) | nothing |
| `WakeNotLost` | `WakePosted` | one coroutine awaits the task at a time |
| `SerialSafe` | `NoRunningDestroy` | serial executors, no foreign operations |
| `OneWaySafe` | `NoDeadResume` | the same, and no roaming back |

- `Inv` = `TypeOK`, `StateInv` and `QueueInv` is inductive in every program.
  `StateInv` ties the result, the handle and the frame together. `QueueInv`
  says what a queued handler means: a chaser was requested, a wake-up implies
  that the task is over, there is one chaser and, while an aborted task lives,
  there is one. The wake-up clause is why no awaiter resumes early;
  `AbortChased` alone is not inductive because a step that posts a chaser needs
  to know that none is queued unless `requestedAbort` was set.
- The refinement maps the outcome to `entry` and `result`; every action is a
  step of the promise or a stutter, and the step of `RunDoResume` needs
  `QueueInv` (a queued wake-up implies a settled task).
- `WakePosted` is inductive beside `Inv`. The step that ends the task turns "is
  registered" into "has its `do_resume` posted", and that handler is only
  removed by running it, which makes the awaiter return.
- `TokenInv` says that at most one handler would resume the frame and it is
  on `at`. With it `SerialInv` is inductive in serial programs: the coroutine
  is where `curr_runner_` says and the chaser compares with the executor it
  runs on. So when it destroys the frame, the frame is on the same executor,
  which is busy with the chaser.
- `OrderInv` adds that, when the task never roams back, a bare resume is in
  front of any chaser in the same queue: a chaser can reach an executor only
  after the task did (`visited`), and the task posts its bare resume there
  first. `TaskRoamBack` is what happens without it.

The lemmas before them say what posting to and popping from a queue does to the
sets and orders of handlers.

### `CollectiveProofs`

| theorem | property | assumes of the program |
|---|---|---|
| `TypeCorrect` | `TypeOK` | nothing |
| `WakeNotLost` | `ResumePosted` | at least one branch |
| `DeadNotResumed` | `NoDeadCaller` | nothing |
| `SequentialAtHome` | `Sequential` | no branch roams |
| `CollectiveKeepsPromise` | `KeepsPromise` (refinement of `CollectivePromise`) | nothing |

- Everything a collector keeps (`results`, `rest_count_`, the first exception,
  the winner) is a function of the order in which the branches completed
  (`DoneInv`, `RestInv`, `GatherInv`, `TryGatherInv`, `SelectInv`). That function
  is what the abstract `Answer` computes, so the refinement is these invariants
  read at the moment of `do_resume`.
- `ResumeInv` and `WakeInv` say that `resume()` was called exactly when enough
  branches have completed, and that its handler stays posted until the caller
  goes on or is destroyed. `try_gather` may ask twice; the second finds the
  handle taken.
- `DeadNotResumed` needs that the flag is set exactly when the caller is gone
  (in `DoneInv`), which every step that ends the wait must keep: the caller's
  turn, and its destruction with `do_resume` posted, on this executor or, after
  a branch roamed, on another.
- `HomeInv` holds in a call that does not roam: every handler is on the executor
  the call was made on, which runs one at a time, and none is a bare handle.
  `SequentialAtHome` is the other side of the run `CollectiveRoamParallel`.

### `AwaitersProofs`

| theorem | property | assumes of the program |
|---|---|---|
| `TypeCorrect` | `TypeOK` | nothing |
| `DeadNotResumed` | `NoDeadResume` | no sleeper is destroyed with its expired handler queued (`~LateDestroy`) |
| `FlagOutlivesWrite` | `NoStrayWrite` | it awaits its Operations and cancels no awaited I/O object (`~Discards`, `~CancelIO`) |
| `EventNotLost` | `EventKept` | the same |

- `Guarded` is inductive in every program: a coroutine has at most one handler,
  armed or queued and never both, only while it is suspended or when it was
  destroyed suspended; and the flag that handler will read is *clear* exactly
  while the coroutine is there. A handler of a dead one therefore reads *set*;
  a sleeper's has no flag, and there `LateDestroy` decides.
- `StillWaits` adds that the handler of a suspended coroutine is one it heeds.
  So the handler, and the flag in it, is still there when a destructor writes,
  and no handler is passed over while its coroutine waits.

### `RuntimeProofs`

| theorem | property | assumes of the program |
|---|---|---|
| `TypeCorrect` | `TypeOK` | nothing |
| `OneThreadInside` | `OneInside` | nothing |
| `RootEndedFirst` | `RootEnded` | nothing (the property speaks of a coroutine that ends on the pool of `run`) |
| `AbandonedPursued` | `AbortPursued` | nothing |
| `MutexKept` | `MutexOutlives` | no program has both background tasks and places to roam to |
| `NoLockDeadlock` | `NoLockCycle` | no program keeps a Task in another running task's frame (`share`) |

- `Inv` holds in every program. `JobInv` says what a worker's place in the code
  tells of its task: how far the frame is, on which executor, and that the
  worker holds the mutex. `SerialInv`: every runner that `run`, `block_on`,
  `spawn` and `fork_runner` make, and every place a task roams to, is on an
  executor that runs one handler at a time, and these do, on threads of the pool
  they are over. `QueueInv`: a queue holds at most one handler that would resume a
  given coroutine, a live one is posted where `curr_runner_` says, and a
  resume elsewhere or later belongs to a frame that is destroyed.
  `OneInside` follows: two threads inside a task would be on the same serial
  executor, or hold the same mutex.
- `LockInv` says that a task whose mutex `roam_to` still holds is alive: to
  end it, somebody else would need that mutex, unless it is a background task.
- `Forest`, no set of tasks is closed under "is in the frame of", is inductive
  without `share`: a new task owns nothing when it is put into its parent, and
  is only given what its parent owned. Workers that waited for each other would
  be destroying such a set.
- `RootInv` follows the promise of the root: it is set by the coroutine in its
  last steps, the caller goes on after it, and `Join` after every worker of its
  pool is idle. A worker that is ending the root is, by `SerialInv`, one of the pool
  its runner is over, and the root has no more chance to roam.
- `AskInv`: destroying a Task has asked, and what is asked has an AbortChaser
  posted or at work. A step may take that handler only by making it the job of
  a worker, which ends with the frame gone or the handler posted again.

### `CallsProofs`

All are for programs that await what their own frame holds (`~ByReference`);
`CallsLoser` shows why.

| theorem | property | also assumes |
|---|---|---|
| `TypeCorrect` | `TypeOK` | |
| `NoDeadCaller` | `NoDeadResume` | |
| `OneAwaiter` | `NoEarlyResume` | |
| `EndIsKnown` | `NoDoneResume` | no Generator is awaited after it threw (`~AwaitThrown`) |
| `AnyIsEmpty` | `NoLeak` | |
| `ChainUnbroken` | `Chained` | |
| `GoesWithHolder` | `NoOrphan` | |
| `AnswersTrue` | `TruthfulAnswers` | |

- `Forest`: no coroutine is in its own frame, at any depth. It is what makes a
  transfer of control go up and a destruction go down.
- `TreeInv` says that a frame exists only while its holder's does, `KindInv` what
  each kind of coroutine can be doing, and `ChainInv`, the heart of it, that
  the caller of a coroutine that is under way is its holder, which waits for
  exactly this one. So a handle that is resumed is there, waits for its
  resumer, and nobody else resumes it.
- Destroying a frame destroys everything in it at any depth, `Within`, which is
  defined as the least set closed under "is held by" so that no recursion is
  needed. The proofs need that a running coroutine can destroy only what is not
  under way: nothing active is within an object it may drop, by `ChainInv` and
  `Forest`.
- `GeneratorInv` follows the value and the finished flag from `co_yield` to the
  answer of the next `co_await`.
- With `AwaitThrown` a coroutine may be resumed after its end. Nothing is
  modelled past that, so the proofs keep type, tree and kind there and the rest
  up to it.

Only model-checked: the liveness properties `AwaiterWoken`, `AbortEnds`,
`DestroyedTaskEnds`, `CallerResumed`, `EventResumes`, `Released`,
`BlockOnServed`, `AbandonedEnds` and `RunReturns`.

## 6. Not modelled

- The mutex in `Task`, `Collective`, `Awaiters` and `Calls`: a critical section
  is one action there. `Runtime` has the mutexes, but not awaiting: its tasks
  await events, not each other.
- Values, exceptions' contents, and the type-level code.
- Handlers that fire after their coroutine was destroyed in `Task` (they
  are guarded and do nothing; `Awaiters` is the module that checks that).
- Exceptions thrown by allocation, by `asio::post` or by the initiation of an
  asio operation. `run` ending with handlers still queued is in `Runtime` (they
  are never run); what their destruction by asio frees is not.
- `~std::promise`, which wakes whoever waits with `broken_promise` if a frame is
  destroyed before it set its promise: in `Runtime` such a waiter waits on, so
  `Released` asks more of the code than C++ does.
- That a parameter of a coroutine lives until its frame is destroyed: in `Calls`
  an object that was moved in goes when the coroutine ends, like a local. What
  is destroyed earlier is not under way at that point (`ChainInv`), so no
  handle tells the difference.
- Move assignment over a Lazy or Generator that still has a frame, other than
  the one in AnyAwaitable: the code forgets the old frame, which leaks. `Calls`
  has moves into a new place only. `release()` and `reset()` by hand.
- An AnyAwaitable that refers to an lvalue it does not own.
- The polling loop of `co_await` of a `std::future`, and the lifetime of that
  future, which the poller uses by reference; `Task` covers the parallel
  executor it runs on.
- The operators `&&`, `||` and `&`, which build the collectives at compile time,
  and Result, whose three states appear where a module needs them.
- `bench/` and `example/`, which use corio and are no part of it.

## 7. Plan

Done: `TaskPromise`, `Task`; `CollectivePromise`, `Collective`; `Awaiters`;
`Calls`, with AnyAwaitable; `Runtime`; and the proofs of all their safety
properties.

Next, in this order:

1. Proofs about `Calls` in programs that await by reference: that a frame goes
   with what holds it (`NoOrphan`), that the Generator's answers are true and
   that nothing is resumed after its end need the tree but not the chain, and
   TLC finds them to hold there (`NoDeadResume` and `NoLeak` do not).
2. More safety halves: that whoever blocks in `block_on` waits for a promise
   that its coroutine has not yet set or that is set (`Released`).
3. Composition: a select over tasks, with `Collective`'s branches awaiting
   `TaskPromise` instances and dropping their awaits; `await_future` and the
   future it polls.
