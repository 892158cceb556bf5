----------------------------- MODULE Collective -----------------------------
(***************************************************************************)
(* co_await of gather, try_gather and select (detail/collective.hpp and    *)
(* the three collect handlers): the caller launches one branch coroutine   *)
(* per awaitable object inside await_suspend, is suspended, and is resumed *)
(* through a posted handler when enough branches are done.  All branches   *)
(* share the caller's TaskContext, so all of them follow its runner.       *)
(***************************************************************************)
EXTENDS Naturals, Sequences

CONSTANTS
  Count,      \* how many awaitable objects
  Executors,  \* the serial executors of the program
  Home,       \* the one the caller runs on
  Roams,      \* do branches roam between executors: FALSE, TRUE, or both
  None

ASSUME CollectiveAssumption ==
  /\ Count \in Nat
  /\ Home \in Executors
  /\ Roams \subseteq BOOLEAN
  /\ None \notin Nat

Kinds == {"gather", "try_gather", "select"}
Branches == 0..(Count - 1)
Results == {"value", "exception"}
Nothing == [i \in Branches |-> "none"]

VARIABLES
  kind,           \* which of the three functions was called
  roams,          \* whether its branches roam
  queue,          \* the handlers posted to each executor (asio)
  runner,         \* ctx_->runner, shared by the caller and the branches
  caller,         \* the coroutine that awaits
  canceled,       \* *canceled_, shared by the awaiter and do_resume
  launched,       \* no: how many branches have been launched
  branch,         \* the coroutine of each branch
  at,             \* the executor it runs on, or will be resumed on
  restCount,      \* rest_count_
  results,        \* results_, or result_ of select in its branch's place
  firstException, \* first_exception_: the branch that threw it
  no,             \* no_: the branch that won
  resumeHandle,   \* resume_handle_ # nullptr
  delivered,      \* what collect_results returned or threw
  order,          \* the completions in order (history)
  fault           \* undefined behaviour the step ran into

handler == <<restCount, results, firstException, no>>
call == <<kind, roams>>
vars == <<call, queue, runner, caller, canceled, launched, branch, at, handler,
          resumeHandle, delivered, order, fault>>

\* A branch resumes through the guarded handler of what it awaits, or, after
\* roam_to, through a bare handle; the caller through do_resume.
BranchResume(i) == [kind |-> "branch", branch |-> i]
BareResume(i) == [kind |-> "bare", branch |-> i]
CallerResume == [kind |-> "caller"]

Handlers == {CallerResume} \cup {BranchResume(i) : i \in Branches}
                           \cup {BareResume(i) : i \in Branches}

Post(q, e, h) == [q EXCEPT ![e] = Append(@, h)]
Popped(e) == [queue EXCEPT ![e] = Tail(@)]

Running == {i \in Branches : branch[i] = "running"}
Free(e) ==
  /\ ~(caller = "launching" /\ e = Home)
  /\ \A i \in Running : at[i] # e
Takes(e, h) == Free(e) /\ queue[e] # <<>> /\ Head(queue[e]) = h

\* register_handle_ and init: the caller enters launch_all_await.
Init ==
  /\ kind \in Kinds /\ roams \in Roams
  /\ queue = [e \in Executors |-> <<>>] /\ runner = Home
  /\ caller = "launching" /\ canceled = FALSE /\ launched = 0
  /\ branch = [i \in Branches |-> "unlaunched"]
  /\ at = [i \in Branches |-> Home]
  /\ restCount = Count /\ results = Nothing
  /\ firstException = None /\ no = None
  /\ resumeHandle = TRUE /\ delivered = Nothing
  /\ order = <<>> /\ fault = "none"

-----------------------------------------------------------------------------
\* One turn of the loop of launch_all_await: the branch is resumed inline.
Launch ==
  /\ caller = "launching" /\ launched < Count
  /\ \A i \in Running : at[i] # Home
  /\ branch' = [branch EXCEPT ![launched] = "running"]
  /\ launched' = launched + 1
  /\ UNCHANGED <<call, queue, runner, caller, canceled, at, handler,
                 resumeHandle, delivered, order, fault>>

\* await_suspend returns.
Launched ==
  /\ caller = "launching" /\ launched = Count
  /\ \A i \in Running : at[i] # Home
  /\ caller' = "suspended"
  /\ UNCHANGED <<call, queue, runner, canceled, launched, branch, at, handler,
                 resumeHandle, delivered, order, fault>>

\* The branch awaits something whose completion goes to the current runner.
Suspend(i) ==
  /\ branch[i] = "running"
  /\ branch' = [branch EXCEPT ![i] = "parked"]
  /\ at' = [at EXCEPT ![i] = runner]
  /\ UNCHANGED <<call, queue, runner, caller, canceled, launched, handler,
                 resumeHandle, delivered, order, fault>>

\* It happens.
Complete(i) ==
  /\ branch[i] = "parked"
  /\ branch' = [branch EXCEPT ![i] = "queued"]
  /\ queue' = Post(queue, at[i], BranchResume(i))
  /\ UNCHANGED <<call, runner, caller, canceled, launched, at, handler,
                 resumeHandle, delivered, order, fault>>

\* ExecutorSwitchAwaiter in a branch moves the runner of the whole task.
Roam(i, f) ==
  /\ branch[i] = "running" /\ roams /\ f # runner
  /\ branch' = [branch EXCEPT ![i] = "queued"]
  /\ at' = [at EXCEPT ![i] = f] /\ runner' = f
  /\ queue' = Post(queue, f, BareResume(i))
  /\ UNCHANGED <<call, caller, canceled, launched, handler, resumeHandle,
                 delivered, order, fault>>

-----------------------------------------------------------------------------
\* CollectorBase::resume, when the condition holds.
ResumeIf(condition) ==
  IF condition /\ resumeHandle
  THEN /\ queue' = Post(queue, runner, CallerResume)
       /\ resumeHandle' = FALSE
  ELSE UNCHANGED <<queue, resumeHandle>>

\* Mutant: a branch that throws does not get to rest_count_--.
GatherDoneSkips(i, r) ==
  /\ results' = [results EXCEPT ![i] = r]
  /\ restCount' = IF r = "value" THEN restCount - 1 ELSE restCount
  /\ ResumeIf(restCount' = 0)
  /\ UNCHANGED <<firstException, no>>

\* Mutant: a branch that throws is counted in the catch block as well.
GatherDoneTwice(i, r) ==
  /\ results' = [results EXCEPT ![i] = r]
  /\ restCount' = IF r = "value" THEN restCount - 1 ELSE restCount - 2
  /\ ResumeIf(restCount' = 0)
  /\ UNCHANGED <<firstException, no>>

\* do_co_await of gather after its co_await.
GatherDone(i, r) ==
  /\ results' = [results EXCEPT ![i] = r]
  /\ restCount' = restCount - 1
  /\ ResumeIf(restCount = 1)
  /\ UNCHANGED <<firstException, no>>

\* Mutant: the last exception replaces the first.
TryGatherDoneLast(i, r) ==
  /\ results' = [results EXCEPT ![i] = IF r = "value" THEN r ELSE @]
  /\ firstException' = IF r = "exception" THEN i ELSE firstException
  /\ restCount' = restCount - 1
  /\ ResumeIf(r = "exception" \/ restCount = 1)
  /\ UNCHANGED no

\* do_co_await of try_gather.
TryGatherDone(i, r) ==
  /\ results' = [results EXCEPT ![i] = IF r = "value" THEN r ELSE @]
  /\ firstException' = IF r = "exception" /\ firstException = None
                       THEN i ELSE firstException
  /\ restCount' = restCount - 1
  /\ ResumeIf(firstException' # firstException \/ restCount = 1)
  /\ UNCHANGED no

\* do_co_await of select.
SelectDone(i, r) ==
  /\ IF no = None
     THEN no' = i /\ results' = [results EXCEPT ![i] = r]
     ELSE UNCHANGED <<no, results>>
  /\ ResumeIf(no = None)
  /\ UNCHANGED <<restCount, firstException>>

Finish(i, r) ==
  /\ branch[i] = "running"
  /\ branch' = [branch EXCEPT ![i] = "done"]
  /\ order' = Append(order, [branch |-> i, result |-> r])
  /\ \/ kind = "gather" /\ GatherDone(i, r)
     \/ kind = "try_gather" /\ TryGatherDone(i, r)
     \/ kind = "select" /\ SelectDone(i, r)
  /\ UNCHANGED <<call, runner, caller, canceled, launched, at, delivered, fault>>

-----------------------------------------------------------------------------
\* Two coroutines of one task on two threads share everything unprotected.
Alone == Running = {} /\ caller # "launching"
StartFault == IF Alone THEN "none" ELSE "parallel"

RunBranchResume(e, i) ==
  /\ Takes(e, BranchResume(i))
  /\ queue' = Popped(e)
  /\ IF branch[i] = "queued"
     THEN /\ branch' = [branch EXCEPT ![i] = "running"]
          /\ fault' = StartFault
     ELSE UNCHANGED <<branch, fault>>
  /\ UNCHANGED <<call, runner, caller, canceled, launched, at, handler,
                 resumeHandle, delivered, order>>

RunBareResume(e, i) ==
  /\ Takes(e, BareResume(i))
  /\ queue' = Popped(e)
  /\ \/ /\ branch[i] = "queued"
        /\ branch' = [branch EXCEPT ![i] = "running"]
        /\ fault' = StartFault
     \/ /\ branch[i] # "queued"
        /\ fault' = "resumed_dead" /\ UNCHANGED branch
  /\ UNCHANGED <<call, runner, caller, canceled, launched, at, handler,
                 resumeHandle, delivered, order>>

BranchesDestroyed ==
  [i \in Branches |-> IF branch[i] = "done" THEN "done" ELSE "destroyed"]

\* Mutant: the destructor leaves the flag alone.
DestroyAwaiterQuietly ==
  branch' = BranchesDestroyed /\ UNCHANGED canceled

\* ~BasicCollectAwaiter: cancel, and the branches still there are destroyed.
DestroyAwaiter ==
  branch' = BranchesDestroyed /\ canceled' = TRUE

\* collect_results.
Collected ==
  IF kind = "try_gather" /\ firstException # None
  THEN [Nothing EXCEPT ![firstException] = "exception"] ELSE results

\* The caller is past its co_await, or its frame is destroyed.
Gone == caller \in {"returned", "destroyed"}

\* do_resume, which looks at nothing but the flag: the caller goes on, and
\* its awaiter is destroyed.
RunCallerResume(e) ==
  /\ Takes(e, CallerResume)
  /\ queue' = Popped(e)
  /\ \/ /\ canceled
        /\ UNCHANGED <<caller, canceled, delivered, branch, fault>>
     \/ /\ ~canceled /\ Gone
        /\ fault' = "dead_caller"
        /\ UNCHANGED <<caller, canceled, delivered, branch>>
     \/ /\ ~canceled /\ ~Gone
        /\ caller' = "returned" /\ delivered' = Collected
        /\ DestroyAwaiter /\ fault' = StartFault
  /\ UNCHANGED <<call, runner, launched, at, handler, resumeHandle, order>>

\* The caller's frame is destroyed on its runner while it waits: its task is
\* aborted, or it lost an outer select.
Cancel ==
  /\ caller = "suspended" /\ Free(runner)
  /\ caller' = "destroyed" /\ DestroyAwaiter /\ fault' = StartFault
  /\ UNCHANGED <<call, queue, runner, launched, at, handler, resumeHandle,
                 delivered, order>>

-----------------------------------------------------------------------------
Body(i) ==
  \/ Suspend(i)
  \/ \E r \in Results : Finish(i, r)
  \/ \E f \in Executors : Roam(i, f)

Run(e) ==
  \/ RunCallerResume(e)
  \/ \E i \in Branches : RunBranchResume(e, i) \/ RunBareResume(e, i)

Step ==
  \/ Launch \/ Launched \/ Cancel
  \/ \E i \in Branches : Body(i) \/ Complete(i)
  \/ \E e \in Executors : Run(e)

\* Past undefined behaviour nothing is modelled.
Next == fault = "none" /\ Step

Spec == Init /\ [][Next]_vars

\* Code runs on to its next suspension and asio runs every posted handler;
\* nothing a branch awaits has to happen.
FairSpec ==
  /\ Spec
  /\ WF_vars(fault = "none" /\ (Launch \/ Launched))
  /\ \A i \in Branches : WF_vars(fault = "none" /\ Body(i))
  /\ \A e \in Executors : WF_vars(fault = "none" /\ Run(e))

-----------------------------------------------------------------------------
TypeOK ==
  /\ kind \in Kinds /\ roams \in BOOLEAN
  /\ queue \in [Executors -> Seq(Handlers)]
  /\ runner \in Executors
  /\ caller \in {"launching", "suspended", "returned", "destroyed"}
  /\ canceled \in BOOLEAN
  /\ launched \in 0..Count
  /\ branch \in [Branches -> {"unlaunched", "running", "parked", "queued",
                              "done", "destroyed"}]
  /\ at \in [Branches -> Executors]
  /\ restCount \in 0..Count
  /\ results \in [Branches -> Results \cup {"none"}]
  /\ firstException \in Branches \cup {None} /\ no \in Branches \cup {None}
  /\ resumeHandle \in BOOLEAN
  /\ delivered \in [Branches -> Results \cup {"none"}]
  /\ order \in Seq([branch : Branches, result : Results])
  /\ fault \in {"none", "parallel", "resumed_dead", "dead_caller"}

Promise == INSTANCE CollectivePromise WITH
  done <- order,
  caller <- CASE caller = "returned" -> "returned"
              [] caller = "destroyed" -> "gone"
              [] OTHER -> "waiting"

(***************************************************************************)
(* gather, try_gather and select deliver what CollectivePromise says,      *)
(* although branches go on completing between the one that decides and the *)
(* caller's turn to run.                                                   *)
(***************************************************************************)
KeepsPromise == Promise!Spec

(***************************************************************************)
(* The resumption of the caller is not lost: once enough awaitable objects *)
(* have completed, do_resume is posted somewhere until the caller is gone  *)
(* on or destroyed, although only one completion posts it.                 *)
(***************************************************************************)
ResumePosted ==
  fault = "none" /\ Promise!Enough /\ ~Gone =>
    \E e \in Executors : \E k \in DOMAIN queue[e] : queue[e][k] = CallerResume

(***************************************************************************)
(* A caller that has gone on or is destroyed is not resumed by a do_resume *)
(* posted before, wherever the branches have roamed: do_resume knows only  *)
(* the flag it shares with the awaiter, so whatever ends the wait has to   *)
(* have left its mark there.                                               *)
(***************************************************************************)
NoDeadCaller == fault # "dead_caller"

(***************************************************************************)
(* "A task is a set of coroutines executed sequentially" (README.md): the  *)
(* caller and its branches never run on two threads at a time.             *)
(***************************************************************************)
Sequential == fault # "parallel"

(***************************************************************************)
(* Whoever awaits them is resumed once enough awaitable objects have       *)
(* completed: gather "returns when all awaitable objects are completed".   *)
(***************************************************************************)
CallerResumed == (~roams /\ Promise!Enough) ~> Gone
=============================================================================
