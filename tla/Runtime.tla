------------------------------- MODULE Runtime -------------------------------
(***************************************************************************)
(* The runtime around the tasks: run and block_on with the thread they     *)
(* block, the worker threads of the pool, the strand each forked task      *)
(* gets, who owns the Task objects, and the mutex of each TaskSharedState. *)
(* Task takes a critical section as one step and its executors as serial;  *)
(* here a thread takes and releases the mutex, may have to wait for it,    *)
(* and SerialRunner decides where a task runs.  Sources: impl/run.ipp,     *)
(* detail/serial_runner.hpp, impl/task.ipp, detail/task_shared_state.hpp   *)
(* and ExecutorSwitchAwaiter in detail/this_coro.hpp.                      *)
(*                                                                         *)
(* A task may roam again and again: to strands of the program, home, and   *)
(* to the pool of another runtime, whose threads run does not join.        *)
(*                                                                         *)
(* A critical section in which a thread neither waits for another mutex    *)
(* nor posts the task that shares it is one step.  What is left are two:   *)
(* the AbortChaser, which destroys the frame and all it owns under the     *)
(* lock, and roam_to, which posts the coroutine before it unlocks.         *)
(***************************************************************************)
EXTENDS Naturals, Sequences, FiniteSets

CONSTANTS
  Tasks,           \* all that are ever spawned
  Root,            \* the one of run or block_on itself
  Workers,         \* the threads that run handlers
  Others,          \* those of them that belong to another runtime
  Pool,            \* the executor of the pool that run makes
  Abroad,          \* the executor of the pool of the other runtime
  Places,          \* what SerialRunner makes of the executors programs roam to
  Caller,          \* the thread that calls run or block_on
  Reserve,         \* workers that nested calls of block_on leave free
  Programs,        \* the programs considered
  None

\* Every program spawns and destroys tasks, of which it has at most tasks.
\* Some also spawn on this_coro::executor, abort or detach a task, call
\* spawn_background, or block_on in a coroutine, or keep a Task in the frame
\* of another running task.  A task may roam_to any of the program's places.
Features == {"same_executor", "abort", "detach", "background", "block_on", "share"}
Program == [multi_thread : BOOLEAN, tasks : SUBSET Tasks,
            uses : SUBSET Features, places : SUBSET Places]

\* The two pools, and the strand over one of them that was made for x.
Pools == {Pool, Abroad}
Strand(k, x) == [over |-> k, of |-> x]
IsStrand(e) == e.over \in Pools /\ e = Strand(e.over, e.of)

\* SerialRunner of an any_io_executor, and of a strand.
Plain(e) == [executor |-> e, inner |-> e]
OfStrand(s) == [executor |-> s, inner |-> s.over]

ASSUME RuntimeAssumption ==
  /\ Root \in Tasks /\ Reserve \in Nat
  /\ IsFiniteSet(Workers) /\ Others \subseteq Workers /\ Workers # Others
  /\ Programs \subseteq Program
  /\ Pool # Abroad
  /\ \A k \in Pools, t \in Tasks : Strand(k, t) \notin Pools
  /\ \A r \in Places :
       \/ r = Plain(r.executor) /\ (r.executor \in Pools \/ IsStrand(r.executor))
       \/ r = OfStrand(r.executor) /\ r.executor \notin Pools /\ IsStrand(r.executor)
  /\ {Caller, None, "background", "detached", "destroyed"} \cap Tasks = {}
  /\ {Caller, None} \cap {"background", "detached", "destroyed"} = {}
  /\ None # Caller /\ None \notin Workers

Strands == {Strand(k, t) : k \in Pools, t \in Tasks}
Executors == Pools \cup Strands \cup {r.executor : r \in Places}
Over(e) == IF e \in Pools THEN e ELSE e.over

VARIABLES
  program,  \* one of Programs
  caller,   \* the thread in run or block_on
  pool,     \* "open" until the pool is destroyed
  queue,    \* the handlers posted to each executor (asio)
  job,      \* what each worker is doing
  mutex,    \* the worker that holds mu_ of each task's shared state
  runner,   \* curr_runner_ and context_.runner
  frame,    \* the entry coroutine
  entry,    \* tasks whose entry_handle_ is not null
  asked,    \* tasks whose requested_abort_ is set
  owner,    \* in whose frame the Task object is
  future,   \* the std::promise of launch_with_future, if block_on made it
  fault     \* undefined behaviour the step ran into

outside == <<program, caller, pool, fault>>
tasks == <<runner, frame, entry, asked, owner, future>>
vars == <<outside, queue, job, mutex, tasks>>

\* The threads of the pool that run makes, and of either pool.
Threads ==
  IF program.multi_thread THEN Workers \ Others
  ELSE {CHOOSE w \in Workers \ Others : TRUE}
ThreadsOf(k) == IF k = Pool THEN Threads ELSE Others

\* A coroutine is resumed through a bare handle when it starts and after
\* roam_to, else through a handler that looks whether it is still there.
Resume(t) == [kind |-> "resume", task |-> t]
GuardedResume(t) == [kind |-> "guarded", task |-> t]
AbortChaser(t) == [kind |-> "chaser", task |-> t]
Handlers == {Resume(t) : t \in Tasks} \cup {GuardedResume(t) : t \in Tasks}
                                      \cup {AbortChaser(t) : t \in Tasks}

\* A worker is idle, or runs a handler of the executor on.
Job(k, t, e) == [kind |-> k, task |-> t, on |-> e]
Idle == Job("idle", Root, Pool)
Does(w, k) == job[w].kind = k
Become(w, k) == job' = [job EXCEPT ![w].kind = k]
Done(w) == job' = [job EXCEPT ![w] = Idle]

Post(q, e, h) == [q EXCEPT ![e] = Append(@, h)]
Owned(t) == {u \in Tasks : owner[u] = t}

-----------------------------------------------------------------------------
\* Mutant: a strand is taken for a serial executor that can be shared.
ForkRunnerInner(r, u) == Plain(r.inner)

\* fork_runner, which makes a strand for u.
ForkRunner(r, u) ==
  IF r.inner = r.executor THEN Plain(r.inner) ELSE OfStrand(Strand(r.inner, u))

\* What run passes to block_on.
RunExecutor ==
  IF program.multi_thread THEN OfStrand(Strand(Pool, Root)) ELSE Plain(Pool)

Init ==
  /\ program \in Programs
  /\ caller = "blocked" /\ pool = "open"
  /\ runner = [t \in Tasks |-> RunExecutor]
  /\ queue = [e \in Executors |->
                IF e = RunExecutor.executor THEN <<Resume(Root)>> ELSE <<>>]
  /\ job = [w \in Workers |-> Idle]
  /\ mutex = [t \in Tasks |-> None]
  /\ frame = [t \in Tasks |-> IF t = Root THEN "queued" ELSE "none"]
  /\ entry = {Root} /\ asked = {}
  /\ owner = [t \in Tasks |-> IF t = Root THEN Caller ELSE None]
  /\ future = [t \in Tasks |-> IF t = Root THEN "pending" ELSE "none"]
  /\ fault = "none"

-----------------------------------------------------------------------------
\* request_abort, under the lock of t.
RequestAbort(t) ==
  IF t \in entry \ asked
  THEN /\ asked' = asked \cup {t}
       /\ queue' = Post(queue, runner[t].executor, AbortChaser(t))
  ELSE UNCHANGED <<asked, queue>>

\* Mutant: the destructor leaves the task alone.
DestroyTaskQuietly(t) ==
  /\ mutex[t] = None /\ owner' = [owner EXCEPT ![t] = "destroyed"]
  /\ UNCHANGED <<asked, queue>>

\* Task::~Task, which waits for the lock.
DestroyTask(t) ==
  /\ mutex[t] = None
  /\ owner' = [owner EXCEPT ![t] = "destroyed"]
  /\ RequestAbort(t)

-----------------------------------------------------------------------------
\* A worker takes a handler.  The workers of a strand, or of a pool of one
\* thread, run one handler at a time.
Serial(e) == e \in Pools => Cardinality(ThreadsOf(e)) = 1
Busy(e) == \E w \in Workers : ~Does(w, "idle") /\ job[w].on = e

\* The pool that run makes is still there to be run, or e is not over it.
Open(e) == pool = "open" \/ Over(e) # Pool

\* The handler resumes the coroutine; or it was left behind when the frame was
\* destroyed, and finds its flag set, or has none and resumes a dead frame.
TakeResume(w, e, t) ==
  /\ Head(queue[e]) \in {Resume(t), GuardedResume(t)}
  /\ \/ /\ frame[t] = "queued"
        /\ frame' = [frame EXCEPT ![t] = "running"]
        /\ job' = [job EXCEPT ![w] = Job("body", t, e)] /\ UNCHANGED fault
     \/ /\ frame[t] # "queued"
        /\ fault' = IF Head(queue[e]) = Resume(t) THEN "resumed_dead" ELSE fault
        /\ UNCHANGED <<frame, job>>

TakeChaser(w, e, t) ==
  /\ Head(queue[e]) = AbortChaser(t)
  /\ job' = [job EXCEPT ![w] = Job("chaser", t, e)] /\ UNCHANGED <<frame, fault>>

\* The workers of a pool are alike: its next idle one takes it.
NextIdle(w, k) ==
  LET idle == {v \in ThreadsOf(k) : Does(v, "idle")} IN
  w \in idle /\ w = CHOOSE v \in idle : TRUE

Take(w, e) ==
  /\ queue[e] # <<>> /\ Open(e) /\ NextIdle(w, Over(e))
  /\ ~(Serial(e) /\ Busy(e))
  /\ queue' = [queue EXCEPT ![e] = Tail(@)]
  /\ \E t \in Tasks : TakeResume(w, e, t) \/ TakeChaser(w, e, t)
  /\ UNCHANGED <<program, caller, pool, mutex, runner, entry, asked, owner, future>>

\* AbortChaser::operator() gets the lock: the task is finished, or has gone
\* elsewhere, or its frame is destroyed under the lock.
RunAbortChaser(w) ==
  LET t == job[w].task IN
  /\ Does(w, "chaser") /\ mutex[t] = None
  /\ \/ /\ t \notin entry
        /\ Done(w) /\ UNCHANGED <<queue, mutex, frame>>
     \/ /\ t \in entry /\ runner[t].executor # job[w].on
        /\ queue' = Post(queue, runner[t].executor, AbortChaser(t))
        /\ Done(w) /\ UNCHANGED <<mutex, frame>>
     \/ /\ t \in entry /\ runner[t].executor = job[w].on
        /\ mutex' = [mutex EXCEPT ![t] = w]
        /\ frame' = [frame EXCEPT ![t] = "destroying"]
        /\ Become(w, "destroy") /\ UNCHANGED queue
  /\ UNCHANGED <<outside, runner, entry, asked, owner, future>>

\* Mutant: the chaser returns with the mutex locked.
EndAbortChaserLocked(w) ==
  LET t == job[w].task IN
  /\ Does(w, "destroy") /\ Owned(t) = {}
  /\ frame' = [frame EXCEPT ![t] = "gone"] /\ entry' = entry \ {t}
  /\ Done(w)
  /\ UNCHANGED <<outside, queue, mutex, runner, asked, owner, future>>

\* destroy() returns, and the chaser with it.
EndAbortChaser(w) ==
  LET t == job[w].task IN
  /\ Does(w, "destroy") /\ Owned(t) = {}
  /\ frame' = [frame EXCEPT ![t] = "gone"] /\ entry' = entry \ {t}
  /\ mutex' = [mutex EXCEPT ![t] = None]
  /\ Done(w)
  /\ UNCHANGED <<outside, queue, runner, asked, owner, future>>

-----------------------------------------------------------------------------
\* The coroutine that a worker w runs.

\* Names mean nothing: a spawned task gets the next one.
Fresh(u) ==
  LET unused == {v \in program.tasks : frame[v] = "none"} IN
  u \in unused /\ u = CHOOSE v \in unused : TRUE

\* Task::Task: the shared state is made and the entry coroutine posted.
Launch(u, r) ==
  /\ Fresh(u)
  /\ runner' = [runner EXCEPT ![u] = r]
  /\ frame' = [frame EXCEPT ![u] = "queued"]
  /\ entry' = entry \cup {u}
  /\ queue' = Post(queue, r.executor, Resume(u))

\* Mutant: the Task is left in the frame of the task it stands for.
KeepersSelf(t, u) == {t, u}

\* Whose frame a new Task is in: it is returned to the coroutine that spawns
\* it, and programs that share have it anywhere.
Keepers(t, u) ==
  {t} \cup (IF "share" \in program.uses
            THEN {u} \cup {v \in entry : frame[v] # "destroying"} ELSE {})

\* spawn: on a runner of its own, or (spawn on this_coro::executor) on the
\* executor its parent is on.  Tasks its parent owns may be moved into it.
Spawn(w, u) ==
  LET t == job[w].task IN
  /\ Does(w, "body")
  /\ \/ Launch(u, ForkRunner(runner[t], u))
     \/ /\ "same_executor" \in program.uses
        /\ Launch(u, Plain(runner[t].executor))
  /\ \E moved \in SUBSET Owned(t), k \in Keepers(t, u) :
       owner' = [v \in Tasks |->
                   IF v = u THEN k ELSE IF v \in moved THEN u ELSE owner[v]]
  /\ UNCHANGED <<outside, job, mutex, asked, future>>

\* spawn_background: the shared state belongs to the frame.
SpawnBackground(w, u) ==
  /\ "background" \in program.uses /\ Does(w, "body")
  /\ Launch(u, ForkRunner(runner[job[w].task], u))
  /\ owner' = [owner EXCEPT ![u] = "background"]
  /\ UNCHANGED <<outside, job, mutex, asked, future>>

\* A Task it owns is destroyed, by the coroutine or with its frame.
Drop(w, u) ==
  /\ job[w].kind \in {"body", "exit", "destroy"} /\ owner[u] = job[w].task
  /\ DestroyTask(u)
  /\ UNCHANGED <<outside, job, mutex, runner, frame, entry, future>>

\* Task::abort.
Abort(w, u) ==
  /\ "abort" \in program.uses /\ Does(w, "body")
  /\ owner[u] = job[w].task /\ mutex[u] = None
  /\ RequestAbort(u)
  /\ UNCHANGED <<outside, job, mutex, runner, frame, entry, owner, future>>

\* Task::detach, and a move assignment over a Task: no lock, no abort.
Detach(w, u) ==
  /\ "detach" \in program.uses /\ Does(w, "body") /\ owner[u] = job[w].task
  /\ owner' = [owner EXCEPT ![u] = "detached"]
  /\ UNCHANGED <<outside, queue, job, mutex, runner, frame, entry, asked, future>>

\* Mutant: block_on spawns its task where it is called.
BlockOnRunnerHere(r, u) == Plain(r.executor)

\* block_on spawns on the executor it is given, a new strand over the pool.
BlockOnRunner(r, u) == OfStrand(Strand(Pool, u))

\* block_on called by a coroutine: its worker is blocked in future.get().
Blocked == {w \in Workers : Does(w, "block")}

BlockOn(w, u) ==
  LET t == job[w].task IN
  /\ "block_on" \in program.uses /\ Does(w, "body")
  /\ Cardinality(Blocked) + Reserve < Cardinality(Threads)
  /\ Launch(u, BlockOnRunner(runner[t], u))
  /\ owner' = [owner EXCEPT ![u] = t]
  /\ future' = [future EXCEPT ![u] = "pending"]
  /\ Become(w, "block")
  /\ UNCHANGED <<outside, mutex, asked>>

WaitsFor(w, u) == Does(w, "block") /\ owner[u] = job[w].task /\ future[u] # "none"

\* future.get() returns, and the Task<void> is destroyed.
Unblock(w, u) ==
  /\ WaitsFor(w, u) /\ future[u] = "set"
  /\ DestroyTask(u)
  /\ Become(w, "body")
  /\ UNCHANGED <<outside, mutex, runner, frame, entry, future>>

\* What a worker is blocked for must not itself wait for what may not come,
\* nor roam onto a strand that is blocked.
FreeToWait(t) == \A w \in Workers : ~WaitsFor(w, t)

\* ExecutorSwitchAwaiter::await_suspend, which does nothing if the task is
\* there already, up to the end of its block.  The README asks for a serial
\* executor; it may be of another runtime ...
Roam(w, r) ==
  LET t == job[w].task IN
  /\ Does(w, "body") /\ FreeToWait(t)
  /\ r \in program.places /\ Serial(r.executor) /\ runner[t].executor # r.executor
  /\ mutex[t] = None
  /\ mutex' = [mutex EXCEPT ![t] = w]
  /\ runner' = [runner EXCEPT ![t] = r]
  /\ frame' = [frame EXCEPT ![t] = "queued"]
  /\ queue' = Post(queue, r.executor, Resume(t))
  /\ Become(w, "unlock")
  /\ UNCHANGED <<outside, entry, asked, owner, future>>

\* ... and the destructor of the lock_guard.
Unlock(w) ==
  /\ Does(w, "unlock")
  /\ mutex' = [mutex EXCEPT ![job[w].task] = None]
  /\ Done(w)
  /\ UNCHANGED <<outside, queue, tasks>>

\* It awaits an event, which happens or not.
Suspend(w) ==
  /\ Does(w, "body") /\ FreeToWait(job[w].task)
  /\ frame' = [frame EXCEPT ![job[w].task] = "parked"]
  /\ Done(w)
  /\ UNCHANGED <<outside, queue, mutex, runner, entry, asked, owner, future>>

Complete(t) ==
  /\ frame[t] = "parked" /\ Open(runner[t].executor)
  /\ frame' = [frame EXCEPT ![t] = "queued"]
  /\ queue' = Post(queue, runner[t].executor, GuardedResume(t))
  /\ UNCHANGED <<outside, job, mutex, runner, entry, asked, owner, future>>

-----------------------------------------------------------------------------
\* Mutant: an exception is not passed on to the promise.
SetPromiseOrNot(w) ==
  LET t == job[w].task IN
  /\ Does(w, "body") /\ future[t] = "pending"
  /\ future' \in {future, [future EXCEPT ![t] = "set"]}
  /\ Become(w, "ending")
  /\ UNCHANGED <<outside, queue, mutex, runner, frame, entry, asked, owner>>

\* launch_with_future, last thing: set_value or set_exception.
SetPromise(w) ==
  LET t == job[w].task IN
  /\ Does(w, "body") /\ future[t] = "pending"
  /\ future' = [future EXCEPT ![t] = "set"]
  /\ Become(w, "ending")
  /\ UNCHANGED <<outside, queue, mutex, runner, frame, entry, asked, owner>>

Ends(w) ==
  \/ Does(w, "body") /\ future[job[w].task] = "none"
  \/ Does(w, "ending")

\* Mutant: the finishing task does not take the lock.
FinishUnlocked(w) ==
  LET t == job[w].task IN
  /\ Ends(w)
  /\ entry' = entry \ {t} /\ frame' = [frame EXCEPT ![t] = "exiting"]
  /\ Become(w, "exit")
  /\ UNCHANGED <<outside, queue, mutex, runner, asked, owner, future>>

\* The end of launch_task, which waits for the lock, or of
\* launch_task_background, which does without.
Finish(w) ==
  LET t == job[w].task IN
  /\ Ends(w) /\ (owner[t] = "background" \/ mutex[t] = None)
  /\ entry' = entry \ {t} /\ frame' = [frame EXCEPT ![t] = "exiting"]
  /\ Become(w, "exit")
  /\ UNCHANGED <<outside, queue, mutex, runner, asked, owner, future>>

\* final_suspend: the frame has freed itself and what it owned.
Exit(w) ==
  LET t == job[w].task IN
  /\ Does(w, "exit") /\ Owned(t) = {}
  /\ frame' = [frame EXCEPT ![t] = "gone"]
  /\ Done(w)
  /\ UNCHANGED <<outside, queue, mutex, runner, entry, asked, owner, future>>

-----------------------------------------------------------------------------
\* The thread that called run or block_on: future.get() returns and the
\* Task<void> goes out of scope.
Return ==
  /\ caller = "blocked" /\ future[Root] = "set"
  /\ DestroyTask(Root)
  /\ caller' = "released"
  /\ UNCHANGED <<program, pool, fault, job, mutex, runner, frame, entry, future>>

\* At the end of run the pool is destroyed: what is queued is never run ...
StopPool ==
  /\ caller = "released" /\ caller' = "joining" /\ pool' = "stopped"
  /\ UNCHANGED <<program, fault, queue, job, mutex, tasks>>

\* Mutant: the workers are not waited for.
JoinAtOnce ==
  /\ caller = "joining" /\ caller' = "returned"
  /\ UNCHANGED <<program, pool, fault, queue, job, mutex, tasks>>

\* ... and what is running on it is waited for.
Join ==
  /\ caller = "joining" /\ \A w \in Workers \ Others : Does(w, "idle")
  /\ caller' = "returned"
  /\ UNCHANGED <<program, pool, fault, queue, job, mutex, tasks>>

-----------------------------------------------------------------------------
Step(w) ==
  \/ RunAbortChaser(w) \/ EndAbortChaser(w)
  \/ \E u \in Tasks :
       \/ Spawn(w, u) \/ SpawnBackground(w, u) \/ BlockOn(w, u) \/ Unblock(w, u)
       \/ Drop(w, u) \/ Abort(w, u) \/ Detach(w, u)
  \/ \E r \in Places : Roam(w, r)
  \/ Unlock(w) \/ Suspend(w) \/ SetPromise(w) \/ Finish(w) \/ Exit(w)

Main == Return \/ StopPool \/ Join

\* Past undefined behaviour nothing is modelled, nor what tasks on another
\* runtime do when run has returned and its pool is gone.
Defined == fault = "none" /\ caller # "returned"

Next ==
  /\ Defined
  /\ \/ \E w \in Workers : Step(w) \/ \E e \in Executors : Take(w, e)
     \/ \E t \in Tasks : Complete(t)
     \/ Main

Spec == Init /\ [][Next]_vars

\* The pools, and what was made for the same task over either: one executor
\* for fairness, which asks less of asio than it does.
Lines ==
  {Pools} \cup {{Strand(k, e.of) : k \in Pools} \cap Executors : e \in Executors \ Pools}

\* Threads run on; asio's scheduler is a queue, so every executor that can
\* be served again and again is served.  Events need not happen.
FairSpec ==
  /\ Spec
  /\ \A w \in Workers : WF_vars(Defined /\ Step(w))
  /\ \A line \in Lines :
       SF_vars(Defined /\ \E w \in Workers, e \in line : Take(w, e))
  /\ WF_vars(Defined /\ (Return \/ Join))

-----------------------------------------------------------------------------
Runners == {Plain(e) : e \in Executors} \cup {OfStrand(s) : s \in Executors \ Pools}
Owners == Tasks \cup {Caller, None, "background", "detached", "destroyed"}

TypeOK ==
  /\ program \in Programs /\ pool \in {"open", "stopped"}
  /\ caller \in {"blocked", "released", "joining", "returned"}
  /\ queue \in [Executors -> Seq(Handlers)]
  /\ job \in [Workers ->
       [kind : {"idle", "body", "ending", "exit", "block", "unlock", "chaser",
                "destroy"},
        task : Tasks, on : Executors]]
  /\ mutex \in [Tasks -> Workers \cup {None}]
  /\ \A t \in Tasks : mutex[t] # None =>
       job[mutex[t]].task = t /\ job[mutex[t]].kind \in {"unlock", "destroy"}
  /\ runner \in [Tasks -> Runners]
  /\ frame \in [Tasks -> {"none", "queued", "running", "parked", "exiting",
                          "destroying", "gone"}]
  /\ entry \subseteq Tasks /\ asked \subseteq Tasks
  /\ owner \in [Tasks -> Owners]
  /\ future \in [Tasks -> {"none", "pending", "set"}]
  /\ fault \in {"none", "resumed_dead"}

(***************************************************************************)
(* The threads inside a coroutine: those that run it and those that        *)
(* destroy it.                                                             *)
(***************************************************************************)
Inside(t) ==
  {w \in Workers : job[w].task = t /\
     job[w].kind \in {"body", "ending", "exit", "block", "destroy"}}

(***************************************************************************)
(* One thread at a time is inside a task, whether it runs its coroutine or *)
(* destroys it: every task run, block_on, spawn and roam_to start or move  *)
(* is on a serial executor ("A task is a set of coroutines executed        *)
(* sequentially", README.md), and the AbortChaser comes there after it.    *)
(***************************************************************************)
OneInside == \A t \in Tasks : Cardinality(Inside(t)) <= 1

\* An AbortChaser of t is posted or at work.
Chased(t) ==
  \/ \E e \in Executors : \E i \in DOMAIN queue[e] : queue[e][i] = AbortChaser(t)
  \/ \E w \in Workers : job[w].task = t /\ job[w].kind \in {"chaser", "destroy"}

(***************************************************************************)
(* A task that was asked to end, or whose Task was destroyed, has ended or *)
(* is pursued: the AbortChaser is never dropped on its way after it, from  *)
(* executor to executor and through the mutex, and destroying the frame    *)
(* that owns a Task asks the task below to end as well.                    *)
(***************************************************************************)
AbortPursued ==
  \A t \in entry : t \in asked \/ owner[t] = "destroyed" => Chased(t)

\* Nothing refers to the shared state of t any more: no frame, no Task, no
\* AbortChaser.
Freed(t) ==
  /\ frame[t] \in {"none", "gone"} /\ owner[t] \notin Tasks \cup {Caller}
  /\ ~Chased(t)

(***************************************************************************)
(* A mutex is not destroyed while a thread holds it: roam_to holds that of *)
(* a state it has no reference to, after the coroutine that has one was    *)
(* posted to another thread.                                               *)
(***************************************************************************)
MutexOutlives == \A t \in Tasks : mutex[t] # None => ~Freed(t)

\* The worker w, which holds a mutex, waits for one that v holds.
Waits(w, v) ==
  /\ Does(w, "destroy")
  /\ \E u \in Owned(job[w].task) : mutex[u] = v

(***************************************************************************)
(* No threads wait for each other's mutexes, nor one for its own, although *)
(* the AbortChaser holds one while the destructors of all the Tasks in the *)
(* frame take theirs (task_shared_state.hpp:102).                          *)
(***************************************************************************)
NoLockCycle ==
  \A S \in (SUBSET Workers) \ {{}} : \E w \in S : \A v \in S : ~Waits(w, v)

(***************************************************************************)
(* When run returns the coroutine it ran is gone, and every Task in its    *)
(* frame with it, wherever it roamed on the way: nothing uses what it      *)
(* captured any more.  Unless it ended on another runtime: there it has    *)
(* set its promise, but nobody waits until its frame is gone.              *)
(***************************************************************************)
RootEnded ==
  caller = "returned" /\ Over(runner[Root].executor) = Pool =>
    frame[Root] = "gone" /\ Owned(Root) = {}

\* Tasks that somebody still blocks for although the coroutine has ended.
Unreleased ==
  {t \in Tasks : future[t] # "none" /\ frame[t] = "gone" /\ owner[t] # "destroyed"}

(***************************************************************************)
(* Whoever blocks in block_on is released once the coroutine has ended, by *)
(* a value or an exception.                                                *)
(***************************************************************************)
Released == Unreleased # {} ~> (Unreleased = {} \/ ~Defined)

(***************************************************************************)
(* A coroutine somebody blocks for gets its turn, although a worker may be *)
(* blocked for it (run.ipp:38).                                            *)
(***************************************************************************)
BlockOnServed ==
  \A t \in Tasks :
    (future[t] # "none" /\ frame[t] = "queued")
      ~> (frame[t] # "queued" \/ pool = "stopped" \/ ~Defined)

(***************************************************************************)
(* A task that is aborted, or whose Task was destroyed with the frame that *)
(* owned it, ends, at any depth of ownership ("abort task cascade" in      *)
(* test_task.cpp), as long as there is a pool to run the AbortChaser.      *)
(* Unless it roams for ever: then it may stay ahead of the AbortChaser; or *)
(* runs into the undefined behaviour of one that roams back.               *)
(***************************************************************************)
AbandonedEnds ==
  \A t \in Tasks :
    \/ (t \in asked \/ owner[t] = "destroyed")
         ~> (t \notin entry \/ pool = "stopped" \/ ~Defined)
    \/ []<><<runner'[t] # runner[t]>>_vars

(***************************************************************************)
(* run returns: no worker it joins is stuck, but for one that is blocked   *)
(* in a block_on of its own.                                               *)
(***************************************************************************)
RunReturns == caller = "joining" ~> (~Defined \/ Blocked # {})
=============================================================================
