------------------------------ MODULE Awaiters ------------------------------
(***************************************************************************)
(* The awaiters a coroutine suspends through, and what protects it from    *)
(* the handler of an awaiter that is gone: YieldAwaiter shares a flag with *)
(* its handler, SleepAwaiter cancels its timer, and Operation (use_corio)  *)
(* emits a cancellation signal and sets a flag that lives in the           *)
(* CompletionHandler.  Several coroutines run on one serial executor, each *)
(* suspends again and again through awaiters of its kind, and a suspended  *)
(* one may be destroyed by whatever runs: an AbortChaser, a select.        *)
(* Sources: detail/this_coro.hpp, detail/operation.hpp and                 *)
(* detail/completion_handler.hpp.                                          *)
(***************************************************************************)
EXTENDS Naturals, Sequences

CONSTANTS
  Coroutines,
  Kind,        \* the awaiter each coroutine uses
  Cancelable,  \* the coroutines whose asio operation heeds the signal
  CancelIO,    \* may the program cancel an I/O object being waited on?
  Discards,    \* may an Operation be destroyed that was never awaited?
  LateDestroy  \* may a sleeper be destroyed with its expired handler queued?

ASSUME AwaitersAssumption ==
  /\ Kind \in [Coroutines -> {"yield", "sleep", "operation"}]
  /\ Cancelable \subseteq Coroutines
  /\ \A c \in Coroutines : Kind[c] = "sleep" => c \in Cancelable
  /\ {CancelIO, Discards, LateDestroy} \subseteq BOOLEAN

VARIABLES
  queue,  \* the handlers that are ready to run (asio)
  frame,  \* each coroutine: running, suspended, done or destroyed
  event,  \* "armed": its timer or asio operation is outstanding (asio)
  flag,   \* what cancelled points to: nullptr, a Boolean, or freed memory
  made,   \* coroutines that hold an Operation they have not awaited yet
  fault   \* undefined behaviour the step ran into

vars == <<queue, frame, event, flag, made, fault>>

\* What asio calls the handler with; a yield is always "ok".
Outcomes == {"ok", "error", "aborted"}
Handler(c, outcome) == [co |-> c, outcome |-> outcome]
Handlers == {Handler(c, o) : c \in Coroutines, o \in Outcomes}

Running == {c \in Coroutines : frame[c] = "running"}

Init ==
  /\ queue = <<>>
  /\ \E c \in Coroutines :
       frame = [d \in Coroutines |-> IF d = c THEN "running" ELSE "unstarted"]
  /\ event = [c \in Coroutines |-> "none"]
  /\ flag = [c \in Coroutines |-> "null"]
  /\ made = {}
  /\ fault = "none"

-----------------------------------------------------------------------------
\* The next coroutine is resumed for the first time (Lazy::execute).
Begin(c) ==
  /\ frame[c] = "unstarted" /\ Running = {}
  /\ frame' = [frame EXCEPT ![c] = "running"]
  /\ UNCHANGED <<queue, event, flag, made, fault>>

\* async_xxx(use_corio) builds an Operation; nothing is initiated yet.
Make(c) ==
  /\ frame[c] = "running" /\ Kind[c] = "operation" /\ c \notin made
  /\ made' = made \cup {c}
  /\ flag' = [flag EXCEPT ![c] = "null"]
  /\ UNCHANGED <<queue, frame, event, fault>>

\* YieldAwaiter::await_suspend: posts, with a flag it shares.
SuspendYield(c) ==
  /\ Kind[c] = "yield"
  /\ flag' = [flag EXCEPT ![c] = "clear"]
  /\ queue' = Append(queue, Handler(c, "ok"))
  /\ UNCHANGED <<event, made>>

\* SleepAwaiter::await_suspend: the timer starts; there is no flag.
SuspendSleep(c) ==
  /\ Kind[c] = "sleep"
  /\ event' = [event EXCEPT ![c] = "armed"]
  /\ UNCHANGED <<queue, flag, made>>

\* Mutant: cancelled_ is not taken from the completion handler.
SuspendOperationNoFlag(c) ==
  /\ Kind[c] = "operation" /\ c \in made
  /\ made' = made \ {c}
  /\ event' = [event EXCEPT ![c] = "armed"]
  /\ UNCHANGED <<queue, flag>>

\* Operation::await_suspend: the operation is initiated with a handler that
\* owns the flag.
SuspendOperation(c) ==
  /\ Kind[c] = "operation" /\ c \in made
  /\ made' = made \ {c}
  /\ flag' = [flag EXCEPT ![c] = "clear"]
  /\ event' = [event EXCEPT ![c] = "armed"]
  /\ UNCHANGED queue

Suspend(c) ==
  /\ frame[c] = "running"
  /\ frame' = [frame EXCEPT ![c] = "suspended"]
  /\ SuspendYield(c) \/ SuspendSleep(c) \/ SuspendOperation(c)
  /\ UNCHANGED fault

\* Mutant: the destructors cancel what is outstanding and set no flag.
SetFlagNever(c) == UNCHANGED <<flag, fault>>

\* *cancelled = true in a destructor.
SetFlag(c) ==
  /\ flag' = [flag EXCEPT ![c] = IF @ = "clear" THEN "set" ELSE @]
  /\ fault' = IF flag[c] = "clear" THEN fault ELSE "bad_write"

\* The coroutine ends; cancelled_ of an Operation it never awaited is null.
Finish(c) ==
  /\ frame[c] = "running"
  /\ frame' = [frame EXCEPT ![c] = "done"]
  /\ IF c \in made THEN Discards /\ SetFlag(c) ELSE UNCHANGED <<flag, fault>>
  /\ made' = made \ {c}
  /\ UNCHANGED <<queue, event>>

-----------------------------------------------------------------------------
\* asio: the timer expires, the operation completes, or the program cancels
\* or closes the I/O object it is on.
Fire(c, outcome) ==
  /\ event[c] = "armed"
  /\ outcome # "ok" => Kind[c] = "operation"
  /\ outcome = "aborted" => CancelIO
  /\ event' = [event EXCEPT ![c] = "none"]
  /\ queue' = Append(queue, Handler(c, outcome))
  /\ UNCHANGED <<frame, flag, made, fault>>

\* Mutant: the event is marked and its handler never called.
WithdrawMarks(c) ==
  IF event[c] = "armed" /\ c \in Cancelable
  THEN event' = [event EXCEPT ![c] = "cancelled"] /\ UNCHANGED queue
  ELSE UNCHANGED <<event, queue>>

\* An outstanding event is cancelled; one whose handler is ready is not.
Withdraw(c) ==
  IF event[c] = "armed" /\ c \in Cancelable
  THEN /\ event' = [event EXCEPT ![c] = "none"]
       /\ queue' = Append(queue, Handler(c, "aborted"))
  ELSE UNCHANGED <<event, queue>>

\* ~YieldAwaiter.
DestroyYield(c) == Kind[c] = "yield" /\ SetFlag(c) /\ UNCHANGED <<queue, event>>

\* ~SleepAwaiter.
DestroySleep(c) ==
  /\ Kind[c] = "sleep" /\ (LateDestroy \/ event[c] = "armed")
  /\ Withdraw(c) /\ UNCHANGED <<flag, fault>>

\* ~Operation of one that has not resumed: the signal, then the flag.
DestroyOperation(c) == Kind[c] = "operation" /\ Withdraw(c) /\ SetFlag(c)

\* The frame of a suspended coroutine is destroyed.
Destroy(c) ==
  /\ frame[c] = "suspended"
  /\ frame' = [frame EXCEPT ![c] = "destroyed"]
  /\ DestroyYield(c) \/ DestroySleep(c) \/ DestroyOperation(c)
  /\ UNCHANGED made

-----------------------------------------------------------------------------
\* handle.resume() on the serial executor.
Resume(c) ==
  IF frame[c] = "suspended"
  THEN frame' = [frame EXCEPT ![c] = "running"] /\ UNCHANGED fault
  ELSE fault' = "resumed_dead" /\ UNCHANGED frame

\* What each handler tests before it resumes the coroutine.
YieldHeeds(c) == Kind[c] = "yield" /\ flag[c] # "set"
SleepHeeds(c, outcome) == Kind[c] = "sleep" /\ outcome = "ok"

\* Mutant: every error code is taken for operation_aborted.
OperationHeedsOk(c, outcome) ==
  Kind[c] = "operation" /\ outcome = "ok" /\ flag[c] # "set"

OperationHeeds(c, outcome) ==
  Kind[c] = "operation" /\ outcome # "aborted" /\ flag[c] # "set"

Heeds(c, outcome) ==
  YieldHeeds(c) \/ SleepHeeds(c, outcome) \/ OperationHeeds(c, outcome)

\* The flag of an Operation dies with its CompletionHandler.
RunHandler(c, outcome) ==
  /\ Running = {} /\ queue # <<>> /\ Head(queue) = Handler(c, outcome)
  /\ queue' = Tail(queue)
  /\ IF Heeds(c, outcome) THEN Resume(c) ELSE UNCHANGED <<frame, fault>>
  /\ flag' = IF Kind[c] = "operation" THEN [flag EXCEPT ![c] = "freed"]
             ELSE flag
  /\ UNCHANGED <<event, made>>

-----------------------------------------------------------------------------
Body(c) == Make(c) \/ Suspend(c) \/ Finish(c)
Run(c) == \E outcome \in Outcomes : RunHandler(c, outcome)
Asio(c) == \E outcome \in Outcomes : Fire(c, outcome)

\* Past undefined behaviour nothing is modelled.
Next ==
  /\ fault = "none"
  /\ \E c \in Coroutines :
       Begin(c) \/ Body(c) \/ Run(c) \/ Asio(c) \/ Destroy(c)

Spec == Init /\ [][Next]_vars

\* Code runs on to its next suspension and asio runs every ready handler.
FairSpec ==
  /\ Spec
  /\ WF_vars(fault = "none" /\ \E c \in Coroutines : Body(c))
  /\ WF_vars(fault = "none" /\ \E c \in Coroutines : Run(c))

-----------------------------------------------------------------------------
TypeOK ==
  /\ queue \in Seq(Handlers)
  /\ frame \in [Coroutines -> {"unstarted", "running", "suspended", "done",
                               "destroyed"}]
  /\ event \in [Coroutines -> {"none", "armed"}]
  /\ flag \in [Coroutines -> {"null", "clear", "set", "freed"}]
  /\ made \subseteq Coroutines
  /\ fault \in {"none", "resumed_dead", "bad_write"}

(***************************************************************************)
(* No handler resumes a coroutine that was destroyed before the handler's  *)
(* turn came.                                                              *)
(***************************************************************************)
NoDeadResume == fault # "resumed_dead"

(***************************************************************************)
(* The destructors write *cancelled only while it exists: it lives in the  *)
(* handler, which asio destroys once it has run.                           *)
(***************************************************************************)
NoStrayWrite == fault # "bad_write"

(***************************************************************************)
(* What a suspended coroutine waits for is outstanding, or its handler is  *)
(* ready and will resume it when its turn comes: neither the destruction   *)
(* of other coroutines nor an earlier use of the same flag makes a handler *)
(* pass over a coroutine that is still there.                              *)
(***************************************************************************)
EventKept ==
  fault = "none" =>
    \A c \in Coroutines : frame[c] = "suspended" =>
      \/ event[c] = "armed"
      \/ \E i \in DOMAIN queue : queue[i].co = c /\ Heeds(c, queue[i].outcome)

(***************************************************************************)
(* A suspended coroutine is resumed once what it awaits has come about, in *)
(* whatever way, unless it is destroyed first: no handler is swallowed.    *)
(***************************************************************************)
EventResumes ==
  \A c \in Coroutines :
    (frame[c] = "suspended" /\ \E i \in DOMAIN queue : queue[i].co = c)
      ~> frame[c] # "suspended"
=============================================================================
