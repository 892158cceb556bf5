-------------------------------- MODULE Task --------------------------------
(***************************************************************************)
(* One spawned task and everything that touches it concurrently: the       *)
(* executors that run its coroutine, the Task object and the AbortHandles  *)
(* that abort it, the AbortChaser that runs after it from executor to      *)
(* executor, and the coroutines that co_await it.  Sources:                *)
(* detail/task_shared_state.hpp, impl/task.ipp, and the awaiters of        *)
(* detail/this_coro.hpp through which the task's own coroutine suspends.   *)
(*                                                                         *)
(* Every access to TaskSharedState is inside one critical section of its   *)
(* mutex, so a critical section is one action; between two of them the     *)
(* executors interleave freely.  An executor is a FIFO queue of posted     *)
(* handlers, one running at a time (asio, external).                       *)
(***************************************************************************)
EXTENDS Naturals, Sequences

CONSTANTS
  Executors,        \* the executors the program uses
  Home,             \* the one the task is spawned on
  Parallel,         \* executors that run handlers in parallel (system_executor)
  Awaiters,         \* the co_await expressions applied to the task
  AwaitOn,          \* the executor of the coroutine each of them is in
  ConcurrentAwaits, \* may two of them be suspended at the same time?
  Revisit,          \* may the task roam back to an executor it has been on?
  Foreign,          \* may it await an operation bound to another executor?
  None

ASSUME TaskAssumption ==
  /\ Home \in Executors
  /\ Parallel \subseteq Executors
  /\ AwaitOn \in [Awaiters -> Executors]
  /\ {ConcurrentAwaits, Revisit, Foreign} \subseteq BOOLEAN
  /\ None \notin Awaiters

VARIABLES
  queue,          \* the handlers posted to each executor (asio)
  frame,          \* the entry coroutine: suspended, running or gone
  at,             \* the executor it runs on, or will be resumed on
  entry,          \* entry_handle_ # nullptr, i.e. ~is_finished()
  requestedAbort, \* requested_abort_
  currRunner,     \* curr_runner_ and context_.runner, always written together
  result,         \* result_
  taken,          \* the value of result_ has been moved out
  resumer,        \* resumer_: the registered awaiter
  awaiter,        \* the state of each TaskAwaiter and what it returned
  owner,          \* the Task object
  visited,        \* executors the task has been on (history, for Revisit)
  fault           \* undefined behaviour the step ran into

shared == <<entry, requestedAbort, currRunner, result, taken, resumer>>
vars == <<queue, frame, at, shared, awaiter, owner, visited, fault>>

Results == {"value", "exception"}

\* The handlers the code posts.  Lazy::execute and ExecutorSwitchAwaiter post
\* a bare handle; the other awaiters post a closure that checks a flag which
\* the awaiter's destructor, run when the frame is destroyed, has set.
Resume == [kind |-> "resume"]
GuardedResume == [kind |-> "guarded_resume"]
DoResume(a) == [kind |-> "do_resume", awaiter |-> a]
AbortChaser(e) == [kind |-> "chaser", prev |-> e]

Handlers ==
  {Resume, GuardedResume} \cup {DoResume(a) : a \in Awaiters}
                          \cup {AbortChaser(e) : e \in Executors}

Post(q, e, h) == [q EXCEPT ![e] = Append(@, h)]
Popped(e) == [queue EXCEPT ![e] = Tail(@)]

\* An executor takes its next handler when the coroutine is not running on
\* it, or at any time if it is not serial.
Free(e) == e \in Parallel \/ ~(frame \in {"running", "exiting"} /\ at = e)
Takes(e, h) == Free(e) /\ queue[e] # <<>> /\ Head(queue[e]) = h

-----------------------------------------------------------------------------
\* Task::Task: the entry coroutine is created suspended and posted.
Init ==
  /\ queue = Post([e \in Executors |-> <<>>], Home, Resume)
  /\ frame = "queued" /\ at = Home
  /\ entry = TRUE /\ requestedAbort = FALSE /\ currRunner = Home
  /\ result = "none" /\ taken = FALSE /\ resumer = None
  /\ awaiter = [a \in Awaiters |-> "idle"]
  /\ owner = "held" /\ visited = {Home} /\ fault = "none"

\* TaskSharedState::request_task_resume, its posts added to q.
RequestTaskResume(q) ==
  /\ queue' = IF resumer = None THEN q
              ELSE Post(q, AwaitOn[resumer], DoResume(resumer))
  /\ resumer' = None

\* Mutant: every abort posts a chaser of its own.
RequestAbortAgain ==
  IF result # "none"
  THEN UNCHANGED <<requestedAbort, queue>>
  ELSE /\ requestedAbort' = TRUE
       /\ queue' = Post(queue, currRunner, AbortChaser(currRunner))

\* Mutant: the awaiter is woken when the abort is requested.
RequestAbortWakes ==
  IF result # "none" \/ requestedAbort
  THEN UNCHANGED <<requestedAbort, queue>>
  ELSE /\ requestedAbort' = TRUE
       /\ queue' = LET q == Post(queue, currRunner, AbortChaser(currRunner))
                   IN  IF resumer = None THEN q
                       ELSE Post(q, AwaitOn[resumer], DoResume(resumer))

\* TaskSharedState::request_abort.
RequestAbort ==
  IF result # "none" \/ requestedAbort
  THEN UNCHANGED <<requestedAbort, queue>>
  ELSE /\ requestedAbort' = TRUE
       /\ queue' = Post(queue, currRunner, AbortChaser(currRunner))

-----------------------------------------------------------------------------
\* Handlers that resume the entry coroutine.
Start(e) ==
  /\ frame' = "running" /\ at' = e /\ queue' = Popped(e)
  /\ UNCHANGED <<shared, awaiter, owner, visited, fault>>

\* A bare handle: nothing tells the handler that the frame is gone.
RunResume(e) ==
  /\ Takes(e, Resume)
  /\ \/ frame = "queued" /\ Start(e)
     \/ /\ frame # "queued"
        /\ fault' = "resumed_dead" /\ queue' = Popped(e)
        /\ UNCHANGED <<frame, at, shared, awaiter, owner, visited>>

RunGuardedResume(e) ==
  /\ Takes(e, GuardedResume)
  /\ \/ frame = "queued" /\ Start(e)
     \/ /\ frame # "queued"
        /\ queue' = Popped(e)
        /\ UNCHANGED <<frame, at, shared, awaiter, owner, visited, fault>>

\* Mutant: the chaser does not look where the task has gone.
RunAbortChaserNoChase(e, prev) ==
  /\ Takes(e, AbortChaser(prev))
  /\ \/ /\ ~entry
        /\ queue' = Popped(e)
        /\ UNCHANGED <<frame, entry, resumer, fault>>
     \/ /\ entry
        /\ frame' = "destroyed" /\ entry' = FALSE
        /\ fault' = IF frame = "running" THEN "destroyed_running" ELSE fault
        /\ RequestTaskResume(Popped(e))
  /\ UNCHANGED <<at, requestedAbort, currRunner, result, taken, awaiter,
                 owner, visited>>

\* Mutant: a chaser that finds the task gone elsewhere gives up.
RunAbortChaserGivesUp(e, prev) ==
  /\ Takes(e, AbortChaser(prev))
  /\ IF entry /\ currRunner = prev
     THEN /\ frame' = "destroyed" /\ entry' = FALSE
          /\ fault' = IF frame = "running" THEN "destroyed_running" ELSE fault
          /\ RequestTaskResume(Popped(e))
     ELSE queue' = Popped(e) /\ UNCHANGED <<frame, entry, resumer, fault>>
  /\ UNCHANGED <<at, requestedAbort, currRunner, result, taken, awaiter,
                 owner, visited>>

\* Mutant: the frame is destroyed and nobody is told.
RunAbortChaserSilent(e, prev) ==
  /\ Takes(e, AbortChaser(prev))
  /\ IF entry /\ currRunner = prev
     THEN /\ frame' = "destroyed" /\ entry' = FALSE
          /\ fault' = IF frame = "running" THEN "destroyed_running" ELSE fault
          /\ queue' = Popped(e) /\ UNCHANGED resumer
     ELSE /\ queue' = IF entry
                     THEN Post(Popped(e), currRunner, AbortChaser(currRunner))
                     ELSE Popped(e)
          /\ UNCHANGED <<frame, entry, resumer, fault>>
  /\ UNCHANGED <<at, requestedAbort, currRunner, result, taken, awaiter,
                 owner, visited>>

\* AbortChaser::operator(): done, chase on, or destroy the frame.
RunAbortChaser(e, prev) ==
  /\ Takes(e, AbortChaser(prev))
  /\ \/ /\ ~entry
        /\ queue' = Popped(e)
        /\ UNCHANGED <<frame, entry, resumer, fault>>
     \/ /\ entry /\ currRunner # prev
        /\ queue' = Post(Popped(e), currRunner, AbortChaser(currRunner))
        /\ UNCHANGED <<frame, entry, resumer, fault>>
     \/ /\ entry /\ currRunner = prev
        /\ frame' = "destroyed" /\ entry' = FALSE
        /\ fault' = IF frame = "running" THEN "destroyed_running" ELSE fault
        /\ RequestTaskResume(Popped(e))
  /\ UNCHANGED <<at, requestedAbort, currRunner, result, taken, awaiter,
                 owner, visited>>

-----------------------------------------------------------------------------
\* What the running coroutine does next.

\* YieldAwaiter: posts itself to the executor of the context.
Yield ==
  /\ frame = "running"
  /\ frame' = "queued" /\ at' = currRunner
  /\ queue' = Post(queue, currRunner, GuardedResume)
  /\ UNCHANGED <<shared, awaiter, owner, visited, fault>>

\* Awaits an event whose completion will be posted to f: another task, or an
\* asio operation, whose completion runs on the executor of its I/O object.
Suspend(f) ==
  /\ frame = "running"
  /\ f = currRunner \/ Foreign
  /\ frame' = "parked" /\ at' = f
  /\ UNCHANGED <<queue, shared, awaiter, owner, visited, fault>>

\* The event happens.  (One that comes after the frame was destroyed posts a
\* guarded handler that does nothing; it is left out.)
Complete ==
  /\ frame = "parked"
  /\ frame' = "queued"
  /\ queue' = Post(queue, at, GuardedResume)
  /\ UNCHANGED <<at, shared, awaiter, owner, visited, fault>>

\* ExecutorSwitchAwaiter: the runner changes and the bare handle is posted
\* in one critical section.
Roam(f) ==
  /\ frame = "running"
  /\ f # currRunner
  /\ Revisit \/ f \notin visited
  /\ frame' = "queued" /\ at' = f /\ currRunner' = f
  /\ queue' = Post(queue, f, Resume)
  /\ visited' = visited \cup {f}
  /\ UNCHANGED <<entry, requestedAbort, result, taken, resumer, awaiter,
                 owner, fault>>

\* The end of launch_task: result, wake-up and null handle, under the lock.
Finish(r) ==
  /\ frame = "running"
  /\ frame' = "exiting"
  /\ result' = r /\ entry' = FALSE
  /\ RequestTaskResume(queue)
  /\ UNCHANGED <<at, requestedAbort, currRunner, taken, awaiter, owner,
                 visited, fault>>

\* final_suspend with destroy_when_exit: the frame frees itself.
Exit ==
  /\ frame = "exiting"
  /\ frame' = "freed"
  /\ UNCHANGED <<queue, at, shared, awaiter, owner, visited, fault>>

-----------------------------------------------------------------------------
\* Mutant: a missing result is not turned into CancellationError.
AwaitResumeUnchecked(a) ==
  /\ awaiter' = [awaiter EXCEPT ![a] =
       IF entry THEN "assertion" ELSE IF taken THEN "moved" ELSE result]
  /\ taken' = (taken \/ result # "none")

\* TaskAwaiter::await_resume.
AwaitResume(a) ==
  /\ awaiter' = [awaiter EXCEPT ![a] =
       IF entry THEN "assertion"
       ELSE IF result = "none" THEN "cancelled"
       ELSE IF taken THEN "moved" ELSE result]
  /\ taken' = (taken \/ result # "none")

\* co_await task: await_suspend registers the awaiter, or, when the task is
\* finished, returns false and await_resume follows at once.
Await(a) ==
  /\ owner = "held" /\ awaiter[a] = "idle" /\ Free(AwaitOn[a])
  /\ ConcurrentAwaits \/ \A b \in Awaiters : awaiter[b] # "waiting"
  /\ \/ /\ entry
        /\ resumer' = a /\ awaiter' = [awaiter EXCEPT ![a] = "waiting"]
        /\ UNCHANGED taken
     \/ /\ ~entry
        /\ AwaitResume(a)
        /\ UNCHANGED resumer
  /\ UNCHANGED <<queue, frame, at, entry, requestedAbort, currRunner, result,
                 owner, visited, fault>>

\* Mutant: do_resume does not test *canceled.
RunDoResumeUnguarded(e, a) ==
  /\ Takes(e, DoResume(a))
  /\ queue' = Popped(e)
  /\ AwaitResume(a)
  /\ UNCHANGED <<frame, at, entry, requestedAbort, currRunner, result,
                 resumer, owner, visited, fault>>

\* do_resume, posted by request_task_resume.
RunDoResume(e, a) ==
  /\ Takes(e, DoResume(a))
  /\ queue' = Popped(e)
  /\ \/ awaiter[a] = "waiting" /\ AwaitResume(a)
     \/ awaiter[a] # "waiting" /\ UNCHANGED <<awaiter, taken>>
  /\ UNCHANGED <<frame, at, entry, requestedAbort, currRunner, result,
                 resumer, owner, visited, fault>>

\* ~TaskAwaiter while suspended: a select that lost, an aborted awaiter.
DropAwait(a) ==
  /\ awaiter[a] = "waiting" /\ Free(AwaitOn[a])
  /\ awaiter' = [awaiter EXCEPT ![a] = "dropped"]
  /\ UNCHANGED <<queue, frame, at, shared, owner, visited, fault>>

-----------------------------------------------------------------------------
\* Task::abort and AbortHandle::abort, from any thread at any time.
Abort ==
  /\ RequestAbort
  /\ UNCHANGED <<frame, at, entry, currRunner, result, taken, resumer,
                 awaiter, owner, visited, fault>>

\* Mutant: the destructor only drops its reference.
DestroyTaskQuietly ==
  /\ owner = "held" /\ owner' = "destroyed"
  /\ UNCHANGED <<queue, frame, at, shared, awaiter, visited, fault>>

\* Task::~Task aborts a task that is not finished.
DestroyTask ==
  /\ owner = "held" /\ owner' = "destroyed"
  /\ IF entry THEN RequestAbort ELSE UNCHANGED <<requestedAbort, queue>>
  /\ UNCHANGED <<frame, at, entry, currRunner, result, taken, resumer,
                 awaiter, visited, fault>>

\* Task::detach, and a move assignment over this Task: the reference to the
\* shared state is dropped and nothing else happens.
Detach ==
  /\ owner = "held" /\ owner' = "detached"
  /\ UNCHANGED <<queue, frame, at, shared, awaiter, visited, fault>>

\* Task::get_result, which asserts that there is one.
GetResult ==
  /\ owner = "held" /\ result # "none"
  /\ taken' = TRUE
  /\ UNCHANGED <<queue, frame, at, entry, requestedAbort, currRunner, result,
                 resumer, awaiter, owner, visited, fault>>

-----------------------------------------------------------------------------
Run(e) ==
  \/ RunResume(e)
  \/ RunGuardedResume(e)
  \/ \E prev \in Executors : RunAbortChaser(e, prev)
  \/ \E a \in Awaiters : RunDoResume(e, a)

Body ==
  \/ Yield
  \/ \E f \in Executors : Suspend(f) \/ Roam(f)
  \/ \E r \in Results : Finish(r)
  \/ Exit

Caller ==
  \/ Abort \/ DestroyTask \/ Detach \/ GetResult
  \/ \E a \in Awaiters : Await(a) \/ DropAwait(a)

\* Past undefined behaviour nothing is modelled.
Next ==
  /\ fault = "none"
  /\ Body \/ Caller \/ Complete \/ \E e \in Executors : Run(e)

Spec == Init /\ [][Next]_vars

\* asio runs every posted handler, and the task's own code reaches its next
\* suspension or its end.  No event has to happen and nobody has to call.
FairSpec ==
  /\ Spec
  /\ WF_vars(fault = "none" /\ Body)
  /\ \A e \in Executors : WF_vars(fault = "none" /\ Run(e))

-----------------------------------------------------------------------------
TypeOK ==
  /\ queue \in [Executors -> Seq(Handlers)]
  /\ frame \in {"queued", "parked", "running", "exiting", "freed", "destroyed"}
  /\ at \in Executors
  /\ entry \in BOOLEAN /\ requestedAbort \in BOOLEAN
  /\ currRunner \in Executors
  /\ result \in Results \cup {"none"} /\ taken \in BOOLEAN
  /\ resumer \in Awaiters \cup {None}
  /\ awaiter \in [Awaiters -> Results \cup {"idle", "waiting", "dropped",
                                          "cancelled", "moved", "assertion"}]
  /\ owner \in {"held", "destroyed", "detached"}
  /\ visited \subseteq Executors
  /\ fault \in {"none", "resumed_dead", "destroyed_running"}

IsChaser(e, i) == queue[e][i].kind = "chaser"

(***************************************************************************)
(* The coroutine is never resumed once the AbortChaser has destroyed it,   *)
(* although Lazy::execute and roam_to post a bare handle with no           *)
(* cancellation flag: only the order of the handlers protects them.        *)
(***************************************************************************)
NoDeadResume == fault # "resumed_dead"

(***************************************************************************)
(* The AbortChaser destroys the coroutine while it is suspended, never     *)
(* while a thread is inside it, which the chase across executors is for    *)
(* (the comment at task_shared_state.hpp:94).                              *)
(***************************************************************************)
NoRunningDestroy == fault # "destroyed_running"

(***************************************************************************)
(* An awaiter that is resumed finds the task finished: the assertion of    *)
(* TaskAwaiter::await_resume (task.ipp:148) cannot fail.                   *)
(***************************************************************************)
AwaitSeesFinished == \A a \in Awaiters : awaiter[a] # "assertion"

(***************************************************************************)
(* However many times and from however many places a task is aborted, one  *)
(* AbortChaser is after it: never two, and never none while the task is    *)
(* still to be cancelled, wherever it roams in the meantime.               *)
(***************************************************************************)
AbortChased ==
  /\ \A e, f \in Executors : \A i \in DOMAIN queue[e], j \in DOMAIN queue[f] :
       IsChaser(e, i) /\ IsChaser(f, j) => e = f /\ i = j
  /\ requestedAbort /\ entry =>
       \E e \in Executors : \E i \in DOMAIN queue[e] : IsChaser(e, i)

(***************************************************************************)
(* Whoever waits for the task will be told: it is registered as long as    *)
(* the task goes on, and its wake-up is on its own executor from then on,  *)
(* whichever earlier awaiters of the task have come, been resumed or been  *)
(* dropped ("register_resumer" keeps only the last).                       *)
(***************************************************************************)
WakePosted ==
  \A a \in Awaiters : awaiter[a] = "waiting" =>
    IF entry THEN resumer = a
    ELSE \E i \in DOMAIN queue[AwaitOn[a]] : queue[AwaitOn[a]][i] = DoResume(a)

Outcome ==
  IF entry THEN "pending" ELSE IF result = "none" THEN "cancelled" ELSE result

Promise == INSTANCE TaskPromise WITH
  outcome <- Outcome, asked <- requestedAbort, spent <- taken, told <- awaiter

(***************************************************************************)
(* A task keeps what TaskPromise promises: it settles once, is cancelled   *)
(* only on request, tells every awaiter the settled outcome and hands its  *)
(* result out once.                                                        *)
(***************************************************************************)
KeepsPromise == Promise!Spec

(***************************************************************************)
(* A coroutine suspended on a task that has finished or was cancelled is   *)
(* resumed, or was itself destroyed: request_task_resume loses no wake-up. *)
(***************************************************************************)
AwaiterWoken ==
  \A a \in Awaiters :
    (awaiter[a] = "waiting" /\ ~entry) ~> awaiter[a] # "waiting"

(***************************************************************************)
(* An accepted abort ends the task: README.md, "the corresponding task     *)
(* will be canceled the next time it suspends".                            *)
(***************************************************************************)
AbortEnds == requestedAbort ~> ~entry

(***************************************************************************)
(* Destroying the Task object ends the task (the README's warning on       *)
(* ~Task), even a task parked on an event that never comes.                *)
(***************************************************************************)
DestroyedTaskEnds == owner = "destroyed" ~> ~entry
=============================================================================
