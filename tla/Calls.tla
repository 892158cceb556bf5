-------------------------------- MODULE Calls --------------------------------
(***************************************************************************)
(* The coroutines of one task on its serial executor: Lazies and           *)
(* Generators that await each other, the branches that gather and select   *)
(* launch, and the frames they live in.  An awaited coroutine is resumed   *)
(* by symmetric transfer and, at its end or at a co_yield, resumes the     *)
(* caller handle stored in its promise; a frame is destroyed with the Lazy *)
(* or Generator object that holds it, wherever that object has been moved. *)
(* Sources: impl/lazy.ipp, impl/generator.ipp, the promises in             *)
(* detail/lazy_promise.hpp, detail/generator_promise.hpp and               *)
(* detail/promise_base.hpp, impl/any_awaitable.ipp, and                    *)
(* BasicCollectAwaiter in detail/collective.hpp.                           *)
(*                                                                         *)
(* What the coroutines suspend on otherwise (timers, operations) never     *)
(* resumes a destroyed frame here: that is the subject of Awaiters.        *)
(***************************************************************************)
EXTENDS Naturals, FiniteSets

CONSTANTS
  Coroutines,
  Kinds,       \* what they may be in the programs considered
  ByReference, \* may a branch await an object that its launcher keeps?
  AwaitThrown, \* is a Generator awaited again after it threw?
  MaxYields,   \* how often a generator yields (bound)
  None

\* launch_task, do_co_await of a collective, a coroutine of the program, the
\* invoker of an AnyAwaitable, or none at all.
Kind == {"entry", "branch", "lazy", "generator", "any", "none"}

ASSUME CallsAssumption ==
  /\ IsFiniteSet(Coroutines)
  /\ Kinds \subseteq [Coroutines -> Kind]
  /\ ByReference \in BOOLEAN /\ AwaitThrown \in BOOLEAN
  /\ MaxYields \in Nat
  /\ None \notin Coroutines

VARIABLES
  kind,         \* one of Kinds
  frame,        \* where each coroutine is
  holder,       \* the coroutine whose frame its Lazy or Generator object is in
  callee,       \* lazy_ or gen_ of the awaiter a waiting coroutine is in
  callerHandle, \* caller_handle_
  value,        \* result_ of a Lazy, value_ of a Generator
  finished,     \* finished_ of a Generator
  yields,       \* co_yields so far (history)
  reported,     \* times co_await returned true (history)
  fault         \* undefined behaviour the step ran into

promise == <<callerHandle, value, finished>>
vars == <<kind, frame, holder, callee, promise, yields, reported, fault>>

Entries == {c \in Coroutines : kind[c] = "entry"}
Branches == {c \in Coroutines : kind[c] = "branch"}
Lazies == {c \in Coroutines : kind[c] = "lazy"}
Generators == {c \in Coroutines : kind[c] = "generator"}
Anys == {c \in Coroutines : kind[c] = "any"}

Gone == {"uncreated", "destroyed"}
Alive(c) == frame[c] \notin Gone
Held(c) == {d \in Coroutines : holder[d] = c}

\* The executor runs one coroutine at a time, and await_suspend of a
\* collective launches all its branches before it returns to the executor.
Running == {c \in Coroutines : frame[c] = "running"}
ToLaunch ==
  {b \in Branches : frame[b] = "initial" /\ frame[holder[b]] = "collecting"}
Idle == Running = {} /\ ToLaunch = {}

Init ==
  /\ kind \in Kinds
  /\ frame = [c \in Coroutines |->
                IF c \in Entries THEN "initial" ELSE "uncreated"]
  /\ holder = [c \in Coroutines |-> None]
  /\ callee = [c \in Coroutines |-> None]
  /\ callerHandle = [c \in Coroutines |-> None]
  /\ value = [c \in Coroutines |-> "none"]
  /\ finished = {}
  /\ yields = [g \in Generators |-> 0] /\ reported = [g \in Generators |-> 0]
  /\ fault = "none"

-----------------------------------------------------------------------------
\* Mutant: a Lazy or Generator does not destroy its frame.
DestroyedAlone(f, S) ==
  [c \in Coroutines |-> IF c \in S THEN "destroyed" ELSE f[c]]

\* The coroutines of S and all those their frames hold, at any depth: the
\* least set around S that has with a coroutine those its frame holds.
Within(S) ==
  LET closed == {T \in SUBSET Coroutines :
                   S \subseteq T /\ \A c \in Coroutines : holder[c] \in T => c \in T}
  IN  {c \in Coroutines : \A T \in closed : c \in T}

\* Destroying a frame destroys the objects in it, and so their frames.
Destroyed(f, S) ==
  LET gone == Within(S)
  IN  [c \in Coroutines |-> IF c \in gone THEN "destroyed" ELSE f[c]]

\* LazyAwaiter::await_resume: the result is moved out and the frame destroyed.
LazyAwaitResume(c, d, f) ==
  /\ frame' = [Destroyed(f, {d}) EXCEPT ![c] = "running"]
  /\ UNCHANGED reported

\* NextAwaiter::await_resume.
NextAwaitResume(c, g, f) ==
  /\ frame' = [f EXCEPT ![c] = "running"]
  /\ reported' = IF value'[g] = "none" THEN reported
                 ELSE [reported EXCEPT ![g] = @ + 1]

\* Mutant: lazy_ keeps the frame that has ended.
AnyAwaitResumeKeeps(c, d, f) ==
  frame' = [f EXCEPT ![c] = "running"] /\ UNCHANGED reported

\* LazyAwaiter::await_resume of lazy_ in an AnyAwaitable, which has no frame
\* then until it is awaited again.
AnyAwaitResume(c, d, f) ==
  frame' = [f EXCEPT ![c] = "running", ![d] = "empty"] /\ UNCHANGED reported

AwaitResume(c, d, f) ==
  /\ callee' = [callee EXCEPT ![c] = None]
  /\ \/ d \in Lazies /\ LazyAwaitResume(c, d, f)
     \/ d \in Anys /\ AnyAwaitResume(c, d, f)
     \/ d \in Generators /\ NextAwaitResume(c, d, f)

\* FinalAwaiter::await_suspend: d has stopped, which leaves the frames f, and
\* control goes to its caller handle.
Transfer(d, f) ==
  LET c == callerHandle[d] IN
  \/ /\ c = None
     /\ frame' = f /\ UNCHANGED <<callee, reported, fault>>
  \/ /\ c # None /\ f[c] = "waiting" /\ callee[c] = d
     /\ AwaitResume(c, d, f) /\ UNCHANGED fault
  \/ /\ c # None /\ ~(f[c] = "waiting" /\ callee[c] = d)
     /\ fault' = IF f[c] = "destroyed" THEN "resumed_dead" ELSE "resumed_early"
     /\ frame' = f /\ UNCHANGED <<callee, reported>>

-----------------------------------------------------------------------------
\* Lazy::execute: the entry coroutine is posted, and resumed.
Begin(c) ==
  /\ c \in Entries /\ frame[c] = "initial" /\ Running = {}
  /\ frame' = [frame EXCEPT ![c] = "running"]
  /\ UNCHANGED <<holder, callee, promise, yields, reported, fault>>

\* A coroutine function is called: get_return_object and initial_suspend.
Create(c, d) ==
  /\ frame[c] = "running"
  /\ frame[d] = "uncreated" /\ d \in Branches \cup Lazies \cup Generators
  /\ frame' = [frame EXCEPT ![d] = "initial"]
  /\ holder' = [holder EXCEPT ![d] = c]
  /\ UNCHANGED <<callee, promise, yields, reported, fault>>

\* The constructor of AnyAwaitable, which takes d.
Wrap(c, y, d) ==
  /\ frame[c] = "running"
  /\ y \in Anys /\ frame[y] = "uncreated"
  /\ holder[d] = c /\ Alive(d) /\ d \in Lazies \cup Generators
  /\ frame' = [frame EXCEPT ![y] = "empty"]
  /\ holder' = [holder EXCEPT ![y] = c, ![d] = y]
  /\ UNCHANGED <<callee, promise, yields, reported, fault>>

\* std::move of d into the argument of another coroutine.
Move(c, d, e) ==
  /\ frame[c] = "running" /\ d # e
  /\ {d, e} \subseteq Held(c) /\ Alive(d) /\ d \notin Branches
  /\ frame[e] = "initial"
  /\ holder' = [holder EXCEPT ![d] = e]
  /\ UNCHANGED <<frame, callee, promise, yields, reported, fault>>

\* ~Lazy and ~Generator.
Drop(c, d) ==
  /\ frame[c] = "running" /\ holder[d] = c /\ Alive(d) /\ d \notin Branches
  /\ frame' = Destroyed(frame, {d})
  /\ UNCHANGED <<holder, callee, promise, yields, reported, fault>>

-----------------------------------------------------------------------------
\* is_finished.
IsFinished(d) == IF d \in Lazies THEN value[d] # "none" ELSE d \in finished

\* A Generator that threw has ended and is not finished.
Thrown(d) == d \in Generators /\ value[d] = "exception"

CanAwait(c, d) ==
  /\ frame[c] = "running" /\ Alive(d)
  /\ \/ holder[d] = c
     \/ ByReference /\ c \in Branches /\ holder[d] = holder[c]
  /\ AwaitThrown \/ ~Thrown(d)

\* await_ready: the awaiter does not suspend.
AwaitReady(c, d) ==
  /\ CanAwait(c, d) /\ d \in Lazies \cup Generators /\ IsFinished(d)
  /\ UNCHANGED value /\ AwaitResume(c, d, frame)
  /\ UNCHANGED <<holder, callerHandle, finished, yields, fault>>

\* Mutant: only the first caller is stored.
ChainCoroutineOnce(c, d) ==
  callerHandle' = [callerHandle EXCEPT ![d] = IF @ = None THEN c ELSE @]

\* chain_coroutine.
ChainCoroutine(c, d) == callerHandle' = [callerHandle EXCEPT ![d] = c]

\* What resuming d does.
Resumed(d) ==
  CASE frame[d] \in {"initial", "yielded"} -> "none"
    [] frame[d] = "final" -> "resumed_done"
    [] OTHER -> "resumed_early"

\* await_suspend: control goes to d, wherever it is suspended.
AwaitSuspend(c, d) ==
  /\ CanAwait(c, d) /\ d \in Lazies \cup Generators /\ ~IsFinished(d)
  /\ ChainCoroutine(c, d)
  /\ callee' = [callee EXCEPT ![c] = d]
  /\ frame' = [frame EXCEPT ![c] = "waiting", ![d] = "running"]
  /\ fault' = Resumed(d)
  /\ UNCHANGED <<holder, value, finished, yields, reported>>

\* AnyAwaitable::operator co_await: lazy_ is assigned a new Lazy, which
\* starts at once and awaits d, the object inside y.
AwaitAny(c, y, d) ==
  /\ CanAwait(c, y) /\ y \in Anys /\ holder[d] = y /\ Alive(d)
  /\ AwaitThrown \/ ~Thrown(d)
  /\ IF IsFinished(d)
     THEN /\ callerHandle' = [callerHandle EXCEPT ![y] = c]
          /\ callee' = [callee EXCEPT ![c] = y]
          /\ frame' = [frame EXCEPT ![c] = "waiting", ![y] = "running"]
     ELSE /\ callerHandle' = [callerHandle EXCEPT ![y] = c, ![d] = y]
          /\ callee' = [callee EXCEPT ![c] = y, ![y] = d]
          /\ frame' = [frame EXCEPT ![c] = "waiting", ![y] = "waiting",
                                    ![d] = "running"]
  /\ fault' = IF frame[y] # "empty" THEN "leaked"
              ELSE IF IsFinished(d) THEN "none" ELSE Resumed(d)
  /\ UNCHANGED <<holder, value, finished, yields, reported>>

\* current(): the value is moved out, or the exception rethrown.
Current(c, g) ==
  /\ frame[c] = "running" /\ holder[g] = c /\ Alive(g)
  /\ g \in Generators /\ value[g] = "value"
  /\ value' = [value EXCEPT ![g] = "moved"]
  /\ UNCHANGED <<frame, holder, callee, callerHandle, finished, yields,
                 reported, fault>>

-----------------------------------------------------------------------------
\* A coroutine awaits something that is not a coroutine, and it happens.
Suspend(c) ==
  /\ frame[c] = "running"
  /\ frame' = [frame EXCEPT ![c] = "suspended"]
  /\ UNCHANGED <<holder, callee, promise, yields, reported, fault>>

Happen(c) ==
  /\ frame[c] = "suspended" /\ Idle
  /\ frame' = [frame EXCEPT ![c] = "running"]
  /\ UNCHANGED <<holder, callee, promise, yields, reported, fault>>

\* The frames once the locals of d are destroyed and it is in state s.
Left(d, s) == Destroyed([frame EXCEPT ![d] = s], Held(d))

\* The entry coroutine frees itself: destroy_when_exit.
ReturnEntry(c) ==
  /\ c \in Entries /\ frame[c] = "running"
  /\ frame' = Left(c, "destroyed")
  /\ UNCHANGED <<holder, callee, promise, yields, reported, fault>>

\* return_value or unhandled_exception of LazyPromise, and final_suspend.
ReturnLazy(d, r) ==
  /\ d \in Lazies \cup Branches /\ frame[d] = "running"
  /\ value' = [value EXCEPT ![d] = r]
  /\ Transfer(d, Left(d, "final"))
  /\ UNCHANGED <<holder, callerHandle, finished, yields>>

\* The co_return of the invoker.
ReturnAny(y) ==
  /\ y \in Anys /\ frame[y] = "running"
  /\ Transfer(y, [frame EXCEPT ![y] = "final"])
  /\ UNCHANGED <<holder, promise, yields>>

\* Mutant: return_void leaves the last value in place.
ReturnGeneratorKeeps(g) ==
  /\ g \in Generators /\ frame[g] = "running"
  /\ finished' = finished \cup {g} /\ UNCHANGED value
  /\ Transfer(g, Left(g, "final"))
  /\ UNCHANGED <<holder, callerHandle, yields>>

\* Mutant: return_void does not set finished_.
ReturnGeneratorUnfinished(g) ==
  /\ g \in Generators /\ frame[g] = "running"
  /\ value' = [value EXCEPT ![g] = "none"] /\ UNCHANGED finished
  /\ Transfer(g, Left(g, "final"))
  /\ UNCHANGED <<holder, callerHandle, yields>>

\* return_void of GeneratorPromise, and final_suspend.
ReturnGenerator(g) ==
  /\ g \in Generators /\ frame[g] = "running"
  /\ value' = [value EXCEPT ![g] = "none"] /\ finished' = finished \cup {g}
  /\ Transfer(g, Left(g, "final"))
  /\ UNCHANGED <<holder, callerHandle, yields>>

\* unhandled_exception of GeneratorPromise: finished_ stays false.
ThrowGenerator(g) ==
  /\ g \in Generators /\ frame[g] = "running"
  /\ value' = [value EXCEPT ![g] = "exception"]
  /\ Transfer(g, Left(g, "final"))
  /\ UNCHANGED <<holder, callerHandle, finished, yields>>

\* co_yield.
YieldValue(g) ==
  /\ g \in Generators /\ frame[g] = "running" /\ yields[g] < MaxYields
  /\ value' = [value EXCEPT ![g] = "value"]
  /\ yields' = [yields EXCEPT ![g] = @ + 1]
  /\ Transfer(g, [frame EXCEPT ![g] = "yielded"])
  /\ UNCHANGED <<holder, callerHandle, finished>>

-----------------------------------------------------------------------------
\* co_await gather(...) or select(...): launch_all_await starts.
Collect(c) ==
  /\ frame[c] = "running"
  /\ \E b \in Branches : holder[b] = c /\ frame[b] = "initial"
  /\ frame' = [frame EXCEPT ![c] = "collecting"]
  /\ UNCHANGED <<holder, callee, promise, yields, reported, fault>>

\* lazy.get().resume() on the next branch.
Launch(b) ==
  /\ Running = {} /\ b \in ToLaunch
  /\ frame' = [frame EXCEPT ![b] = "running"]
  /\ UNCHANGED <<holder, callee, promise, yields, reported, fault>>

\* do_resume, once at least one branch has ended: the awaiter is destroyed,
\* with the branches and what was moved into them.
Collected(c) ==
  /\ Idle /\ frame[c] = "collecting"
  /\ \E b \in Branches : holder[b] = c /\ frame[b] = "final"
  /\ frame' = [Destroyed(frame, Held(c) \cap Branches) EXCEPT ![c] = "running"]
  /\ UNCHANGED <<holder, callee, promise, yields, reported, fault>>

\* The AbortChaser destroys the task.
Abort(c) ==
  /\ c \in Entries /\ Idle
  /\ frame[c] \in {"suspended", "waiting", "collecting"}
  /\ frame' = Destroyed(frame, {c})
  /\ UNCHANGED <<holder, callee, promise, yields, reported, fault>>

-----------------------------------------------------------------------------
\* The coroutines that a program writes.
Body(c) ==
  \/ \E d \in Coroutines : Create(c, d) \/ Drop(c, d) \/ Current(c, d)
  \/ \E d, e \in Held(c) : Move(c, d, e)
  \/ \E d \in Coroutines : AwaitReady(c, d) \/ AwaitSuspend(c, d)
  \/ \E y \in Anys, d \in Coroutines : Wrap(c, y, d) \/ AwaitAny(c, y, d)
  \/ Suspend(c) \/ Collect(c)
  \/ ReturnEntry(c) \/ \E r \in {"value", "exception"} : ReturnLazy(c, r)
  \/ ReturnGenerator(c) \/ ThrowGenerator(c) \/ YieldValue(c)

\* Past undefined behaviour nothing is modelled.
Next ==
  /\ fault = "none" /\ UNCHANGED kind
  /\ \E c \in Coroutines :
       \/ c \notin Anys /\ Body(c)
       \/ ReturnAny(c)
       \/ Begin(c) \/ Happen(c) \/ Launch(c) \/ Collected(c) \/ Abort(c)

Spec == Init /\ [][Next]_vars

-----------------------------------------------------------------------------
TypeOK ==
  /\ kind \in Kinds
  /\ frame \in [Coroutines -> {"uncreated", "initial", "running", "waiting",
                               "suspended", "collecting", "yielded", "final",
                               "empty", "destroyed"}]
  /\ holder \in [Coroutines -> Coroutines \cup {None}]
  /\ callee \in [Coroutines -> Coroutines \cup {None}]
  /\ callerHandle \in [Coroutines -> Coroutines \cup {None}]
  /\ value \in [Coroutines -> {"none", "value", "moved", "exception"}]
  /\ finished \subseteq Generators
  /\ yields \in [Generators -> 0..MaxYields]
  /\ reported \in [Generators -> 0..(MaxYields + 1)]
  /\ fault \in {"none", "resumed_dead", "resumed_early", "resumed_done",
                "leaked"}

(***************************************************************************)
(* A coroutine that ends or yields resumes its caller handle, and never    *)
(* finds there a caller that was destroyed while it waited: select cancels *)
(* "the remaining unfinished co_await operations" (README.md).             *)
(***************************************************************************)
NoDeadResume == fault # "resumed_dead"

(***************************************************************************)
(* No coroutine is resumed by anyone but what it is suspended on: not by a *)
(* second co_await, nor through a caller handle it has left behind.        *)
(***************************************************************************)
NoEarlyResume == fault # "resumed_early"

(***************************************************************************)
(* A coroutine that has ended is not resumed: is_finished says so, at the  *)
(* end of a Generator as at that of a Lazy.  One that threw is an          *)
(* exception to that (generator_promise.hpp:28).                           *)
(***************************************************************************)
NoDoneResume == fault # "resumed_done"

(***************************************************************************)
(* An AnyAwaitable that is awaited again has no frame any more: the move   *)
(* assignment of Lazy would forget it (lazy.ipp:13), never to be destroyed *)
(* and liable to resume whoever awaited it.                                *)
(***************************************************************************)
NoLeak == fault # "leaked"

(***************************************************************************)
(* No caller is abandoned: whoever waits in a co_await waits for a live    *)
(* coroutine that will resume exactly it, and that is under way, however   *)
(* the object was moved and whoever had awaited it before.                 *)
(***************************************************************************)
Chained ==
  fault = "none" =>
    \A c \in Coroutines : frame[c] = "waiting" =>
      /\ callerHandle[callee[c]] = c
      /\ frame[callee[c]] \in {"running", "waiting", "suspended", "collecting"}

(***************************************************************************)
(* No coroutine outlives the frame its object is in: when a task is        *)
(* aborted "all objects on the coroutine stack will be destructed"         *)
(* (README.md), through every level of Lazies, Generators and branches.    *)
(***************************************************************************)
NoOrphan == \A c \in Coroutines \ Entries : Alive(c) => Alive(holder[c])

(***************************************************************************)
(* co_await of a Generator answers true once for each co_yield, and once   *)
(* more if it throws, which current() then rethrows: "indicating whether a *)
(* new co_yield was encountered" (README.md).                              *)
(***************************************************************************)
TruthfulAnswers ==
  fault = "none" =>
    \A g \in Generators :
      reported[g] = yields[g] + (IF value[g] = "exception" THEN 1 ELSE 0)
=============================================================================
