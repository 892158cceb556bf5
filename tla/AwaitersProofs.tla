--------------------------- MODULE AwaitersProofs ---------------------------
(***************************************************************************)
(* Proofs about Awaiters for any number of coroutines and handlers.        *)
(***************************************************************************)
EXTENDS Awaiters, QueueFacts

Of(c) == {Handler(c, o) : o \in Outcomes}
Queued(q, c) == Elements(q) \cap Of(c) # {}

\* asio has an event of c outstanding, or its handler.
Pending(c) == event[c] = "armed" \/ Queued(queue, c)

\* It has one handler at most, and only while it waits or when it was
\* destroyed waiting.
OneHandler(c) ==
  /\ OneOf(queue, Of(c))
  /\ event[c] = "armed" => ~Queued(queue, c)
  /\ Pending(c) => frame[c] \in {"suspended", "destroyed"}

\* The flag that the handler will test tells whether its coroutine is there;
\* a sleeper has none, and its handler is told by asio instead.
FlagTells(c) ==
  /\ c \in made => Kind[c] = "operation" /\ frame[c] = "running"
  /\ Pending(c) /\ Kind[c] # "sleep" =>
       flag[c] = IF frame[c] = "suspended" THEN "clear" ELSE "set"
  /\ ~LateDestroy /\ Pending(c) /\ Kind[c] = "sleep" /\ frame[c] = "destroyed" =>
       event[c] = "none" /\ Handler(c, "ok") \notin Elements(queue)

Guarded(c) == OneHandler(c) /\ FlagTells(c)

Inv == TypeOK /\ (fault = "none" => \A c \in Coroutines : Guarded(c))

\* A suspended coroutine is waiting for something that will resume it.
Resumes(c, o) == o # "aborted" /\ (Kind[c] = "sleep" => o = "ok")

StillWaits ==
  \A c \in Coroutines : frame[c] = "suspended" =>
    /\ Pending(c)
    /\ \A o \in Outcomes : Handler(c, o) \in Elements(queue) => Resumes(c, o)

DeadInv == fault # "resumed_dead"
StrayInv == fault # "bad_write" /\ (fault = "none" => StillWaits)

-----------------------------------------------------------------------------
\* Handlers of different coroutines differ.
LEMMA HandlerFacts ==
  /\ \A c \in Coroutines, o \in Outcomes :
       /\ Handler(c, o) \in Handlers /\ Handler(c, o) \in Of(c)
       /\ \A d \in Coroutines : d # c => Handler(c, o) \notin Of(d)
  /\ \A c, d, o, u : Handler(c, o) = Handler(d, u) => c = d /\ o = u
<1>1. \A c, d, o, u : Handler(c, o) = Handler(d, u) => c = d /\ o = u
  BY DEF Handler
<1> QED
  BY <1>1 DEF Handlers, Of

\* The step posts a handler of c, the only one it has.
PostedBy(c, o) ==
  /\ queue' \in Seq(Handlers)
  /\ Queued(queue', c)
  /\ \A d \in Coroutines : OneOf(queue', Of(d))
  /\ \A d \in Coroutines \ {c} : Queued(queue', d) <=> Queued(queue, d)
  /\ \A h : h \in Elements(queue')
              <=> h \in Elements(queue) \/ h = Handler(c, o)

\* The step cancels what c waits for, in time.
Withdrawn(c) ==
  /\ event[c] = "armed" /\ c \in Cancelable
  /\ event' = [event EXCEPT ![c] = "none"]
  /\ queue' = Append(queue, Handler(c, "aborted"))

\* What posting the only handler of c does (asio::post).
LEMMA PostHandler ==
  ASSUME NEW c \in Coroutines, NEW o \in Outcomes,
         queue \in Seq(Handlers),
         \A d \in Coroutines : OneOf(queue, Of(d)), ~Queued(queue, c),
         queue' = Append(queue, Handler(c, o))
  PROVE  PostedBy(c, o)
<1>1. Handler(c, o) \in Handlers /\ Handler(c, o) \in Of(c)
  BY HandlerFacts
<1>2. /\ queue' \in Seq(Handlers)
      /\ Elements(queue') = Elements(queue) \cup {Handler(c, o)}
  BY <1>1, AppendFacts
<1>3. ASSUME NEW d \in Coroutines PROVE OneOf(queue', Of(d))
  <2>1. Handler(c, o) \in Of(d) => Elements(queue) \cap Of(d) = {}
    BY HandlerFacts DEF Queued
  <2> QED  BY <1>1, <2>1, AppendFacts
<1>4. \A d \in Coroutines \ {c} : Queued(queue', d) <=> Queued(queue, d)
  BY <1>2, HandlerFacts DEF Queued
<1> QED
  BY <1>1, <1>2, <1>3, <1>4 DEF Queued, PostedBy

\* What running the handler of c does.
LEMMA PopHandler ==
  ASSUME NEW c \in Coroutines, NEW o \in Outcomes,
         queue \in Seq(Handlers), queue # <<>>,
         \A d \in Coroutines : OneOf(queue, Of(d)),
         Head(queue) = Handler(c, o), queue' = Tail(queue)
  PROVE  /\ queue' \in Seq(Handlers)
         /\ Queued(queue, c) /\ Handler(c, o) \in Elements(queue)
         /\ ~Queued(queue', c)
         /\ \A d \in Coroutines : OneOf(queue', Of(d))
         /\ \A d \in Coroutines \ {c} : Queued(queue', d) <=> Queued(queue, d)
         /\ Elements(queue') \subseteq Elements(queue)
<1>1. Handler(c, o) \in Handlers /\ Handler(c, o) \in Of(c)
  BY HandlerFacts
<1>2. /\ queue' \in Seq(Handlers) /\ Handler(c, o) \in Elements(queue)
      /\ Elements(queue) = Elements(queue') \cup {Handler(c, o)}
      /\ \A d \in Coroutines : OneOf(queue', Of(d))
      /\ Elements(queue') \cap Of(c) = {}
  BY <1>1, TailFacts
<1>3. \A d \in Coroutines \ {c} : Queued(queue', d) <=> Queued(queue, d)
  BY <1>2, HandlerFacts DEF Queued
<1> QED
  BY <1>1, <1>2, <1>3 DEF Queued

-----------------------------------------------------------------------------
(***************************************************************************)
(* The invariant of every program: a coroutine that is not waiting has no  *)
(* handler, and the flag of one that is waiting tells whether it is there. *)
(***************************************************************************)
LEMMA InvInit == Init => Inv
<1> SUFFICES ASSUME Init PROVE Inv
  OBVIOUS
<1>1. queue = <<>> /\ queue \in Seq(Handlers) /\ Elements(queue) = {}
  BY DEF Init, Elements
<1>2. \A c \in Coroutines : OneOf(queue, Of(c)) /\ ~Queued(queue, c)
  BY <1>1 DEF OneOf, Elements, Queued
<1> QED
  BY <1>1, <1>2 DEF Init, Inv, TypeOK, Guarded, OneHandler, FlagTells, Pending

\* A step that does not touch c keeps it guarded.
LEMMA OthersGuarded ==
  ASSUME NEW c \in Coroutines, Guarded(c),
         event'[c] = event[c], frame'[c] = frame[c], flag'[c] = flag[c],
         c \in made' => c \in made,
         OneOf(queue', Of(c)), Queued(queue', c) => Queued(queue, c),
         \A h \in Of(c) : h \in Elements(queue') => h \in Elements(queue)
  PROVE  Guarded(c)'
<1>1. Handler(c, "ok") \in Of(c)
  BY HandlerFacts DEF Outcomes
<1> QED
  BY <1>1 DEF Guarded, OneHandler, FlagTells, Pending

\* Every step of a coroutine, of asio and of whatever destroys a coroutine
\* keeps it.
LEMMA InvStep == Inv /\ [Next]_vars => Inv'
<1> SUFFICES ASSUME Inv, [Next]_vars PROVE Inv'
  OBVIOUS
<1>0. TypeOK
  BY DEF Inv
<1>1. CASE UNCHANGED vars
  BY <1>1 DEF vars, Inv, TypeOK, Guarded, OneHandler, FlagTells, Pending
<1> SUFFICES ASSUME fault = "none", NEW c \in Coroutines,
                    Begin(c) \/ Body(c) \/ Run(c) \/ Asio(c) \/ Destroy(c)
             PROVE  Inv'
  BY <1>1 DEF Next
<1>2. \A d \in Coroutines : Guarded(d) /\ OneHandler(d) /\ FlagTells(d)
  BY DEF Inv, Guarded
<1> USE <1>0, <1>2 DEF TypeOK
<1> DEFINE Quiet(d) ==
      /\ event'[d] = event[d] /\ frame'[d] = frame[d] /\ flag'[d] = flag[d]
      /\ d \in made' => d \in made
<1>3. ASSUME TypeOK', UNCHANGED queue,
             \A d \in Coroutines \ {c} : Quiet(d),
             Guarded(c)' \/ fault' # "none"
      PROVE  Inv'
  <2>1. ASSUME NEW d \in Coroutines \ {c} PROVE Guarded(d)'
    BY <1>3, <2>1, OthersGuarded DEF OneHandler
  <2> QED  BY <1>3, <2>1 DEF Inv
<1>4. ASSUME NEW o \in Outcomes, PostedBy(c, o), TypeOK',
             \A d \in Coroutines \ {c} : Quiet(d),
             Guarded(c)' \/ fault' # "none"
      PROVE  Inv'
  <2>1. ASSUME NEW d \in Coroutines \ {c} PROVE Guarded(d)'
    BY <1>4, <2>1, OthersGuarded, HandlerFacts DEF PostedBy
  <2> QED  BY <1>4, <2>1 DEF Inv
<1>5. CASE Begin(c)
  <2>1. Guarded(c)' /\ TypeOK' /\ \A d \in Coroutines \ {c} : Quiet(d)
    BY <1>5 DEF Begin, Guarded, OneHandler, FlagTells, Pending
  <2> QED  BY <1>3, <1>5, <2>1 DEF Begin
<1>6. CASE Make(c)
  <2>1. Guarded(c)' /\ TypeOK' /\ \A d \in Coroutines \ {c} : Quiet(d)
    BY <1>6 DEF Make, Guarded, OneHandler, FlagTells, Pending
  <2> QED  BY <1>3, <1>6, <2>1 DEF Make
<1>7. CASE Suspend(c)
  <2>0. ~Pending(c) /\ OneOf(queue, Of(c))
    BY <1>7 DEF Suspend, OneHandler
  <2>1. CASE SuspendYield(c)
    <3>1. PostedBy(c, "ok")
      BY <2>0, <2>1, PostHandler DEF SuspendYield, Outcomes, Pending, OneHandler
    <3>2. Guarded(c)' /\ TypeOK' /\ \A d \in Coroutines \ {c} : Quiet(d)
      BY <1>7, <2>0, <2>1, <3>1
      DEF Suspend, SuspendYield, PostedBy, Guarded, OneHandler, FlagTells, Pending
    <3> QED  BY <1>4, <3>1, <3>2 DEF Outcomes
  <2>2. CASE SuspendSleep(c)
    <3>1. Guarded(c)' /\ TypeOK' /\ \A d \in Coroutines \ {c} : Quiet(d)
      BY <1>7, <2>0, <2>2
      DEF Suspend, SuspendSleep, Guarded, OneHandler, FlagTells, Pending
    <3> QED  BY <1>3, <2>2, <3>1 DEF SuspendSleep
  <2>3. CASE SuspendOperation(c)
    <3>1. Guarded(c)' /\ TypeOK' /\ \A d \in Coroutines \ {c} : Quiet(d)
      BY <1>7, <2>0, <2>3
      DEF Suspend, SuspendOperation, Guarded, OneHandler, FlagTells, Pending
    <3> QED  BY <1>3, <2>3, <3>1 DEF SuspendOperation
  <2> QED  BY <1>7, <2>1, <2>2, <2>3 DEF Suspend
<1>8. CASE Finish(c)
  <2>1. TypeOK' /\ \A d \in Coroutines \ {c} : Quiet(d)
    BY <1>8 DEF Finish, SetFlag
  <2>2. Guarded(c)'
    BY <1>8 DEF Finish, SetFlag, Guarded, OneHandler, FlagTells, Pending
  <2> QED  BY <1>3, <1>8, <2>1, <2>2 DEF Finish
<1>9. CASE Asio(c)
  <2>1. PICK o \in Outcomes : Fire(c, o)
    BY <1>9 DEF Asio
  <2>2. PostedBy(c, o)
    BY <2>1, PostHandler DEF Fire, OneHandler
  <2>3. Guarded(c)' /\ TypeOK' /\ \A d \in Coroutines \ {c} : Quiet(d)
    BY <2>1, <2>2
    DEF Fire, PostedBy, Guarded, OneHandler, FlagTells, Pending
  <2> QED  BY <1>4, <2>2, <2>3
<1>10. CASE Destroy(c)
  <2>1. CASE Withdrawn(c)
    <3>1. PostedBy(c, "aborted")
      BY <2>1, PostHandler DEF Withdrawn, Outcomes, OneHandler
    <3>2. TypeOK' /\ \A d \in Coroutines \ {c} : Quiet(d)
      BY <1>10, <2>1, <3>1
      DEF Destroy, DestroyYield, DestroySleep, DestroyOperation, SetFlag,
          Withdrawn, PostedBy
    <3>3. Handler(c, "ok") \notin Elements(queue')
      BY <2>1, <3>1, HandlerFacts
      DEF Withdrawn, PostedBy, OneHandler, Queued, Outcomes
    <3>4. Guarded(c)'
      BY <1>10, <2>1, <3>1, <3>3
      DEF Destroy, DestroyYield, DestroySleep, DestroyOperation, SetFlag,
          Withdrawn, PostedBy, Guarded, OneHandler, FlagTells, Pending
    <3> QED  BY <1>4, <3>1, <3>2, <3>4 DEF Outcomes
  <2>2. CASE UNCHANGED <<event, queue>>
    <3>1. TypeOK' /\ \A d \in Coroutines \ {c} : Quiet(d)
      BY <1>10, <2>2
      DEF Destroy, DestroyYield, DestroySleep, DestroyOperation, SetFlag
    <3>2. CASE Kind[c] = "sleep"
      <4>1. LateDestroy
        BY <1>10, <2>2, <3>2, AwaitersAssumption
        DEF Destroy, DestroyYield, DestroySleep, DestroyOperation, Withdraw
      <4>2. Guarded(c)'
        BY <1>10, <2>2, <3>2, <4>1
        DEF Destroy, DestroyYield, DestroySleep, DestroyOperation,
            Guarded, OneHandler, FlagTells, Pending
      <4> QED  BY <1>3, <2>2, <3>1, <4>2
    <3>3. CASE Kind[c] # "sleep"
      <4>1. SetFlag(c)
        BY <1>10, <3>3 DEF Destroy, DestroyYield, DestroySleep, DestroyOperation
      <4>2. Guarded(c)' \/ fault' # "none"
        BY <1>10, <2>2, <3>3, <4>1
        DEF Destroy, SetFlag, Guarded, OneHandler, FlagTells, Pending
      <4> QED  BY <1>3, <2>2, <3>1, <4>2
    <3> QED  BY <3>2, <3>3
  <2> QED
    BY <1>10, <2>1, <2>2
    DEF Destroy, DestroyYield, DestroySleep, DestroyOperation, Withdraw, Withdrawn
<1>11. CASE Run(c)
  <2>1. PICK o \in Outcomes : RunHandler(c, o)
    BY <1>11 DEF Run
  <2>2. /\ queue' \in Seq(Handlers)
        /\ Queued(queue, c) /\ ~Queued(queue', c)
        /\ \A d \in Coroutines : OneOf(queue', Of(d))
        /\ \A d \in Coroutines \ {c} : Queued(queue', d) <=> Queued(queue, d)
        /\ Elements(queue') \subseteq Elements(queue)
    BY <2>1, PopHandler DEF RunHandler, OneHandler
  <2>3. TypeOK' /\ \A d \in Coroutines \ {c} : Quiet(d)
    BY <2>1, <2>2 DEF RunHandler, Resume
  <2>4. Guarded(c)' \/ fault' # "none"
    BY <2>1, <2>2 DEF RunHandler, Resume, Guarded, OneHandler, FlagTells, Pending
  <2>5. ASSUME NEW d \in Coroutines \ {c} PROVE Guarded(d)'
    BY <2>2, <2>3, <2>5, OthersGuarded
  <2> QED  BY <2>3, <2>4, <2>5 DEF Inv
<1> QED
  BY <1>5, <1>6, <1>7, <1>8, <1>9, <1>10, <1>11 DEF Body

(***************************************************************************)
(* Type correctness: every variable of the model keeps to its type.        *)
(***************************************************************************)
THEOREM TypeCorrect == Spec => []TypeOK
<1>1. Inv => TypeOK
  BY DEF Inv
<1> QED
  BY <1>1, InvInit, InvStep, PTL DEF Spec

-----------------------------------------------------------------------------
\* The handler of a destroyed coroutine finds that out, and does not resume.
LEMMA DeadStep ==
  ASSUME ~LateDestroy, Inv, DeadInv, [Next]_vars
  PROVE  DeadInv'
<1>1. CASE UNCHANGED vars
  BY <1>1 DEF vars, DeadInv
<1> SUFFICES ASSUME fault = "none", NEW c \in Coroutines,
                    Begin(c) \/ Body(c) \/ Run(c) \/ Asio(c) \/ Destroy(c)
             PROVE  DeadInv'
  BY <1>1 DEF Next
<1>2. CASE Begin(c) \/ Body(c) \/ Asio(c) \/ Destroy(c)
  BY <1>2 DEF Begin, Body, Make, Suspend, Finish, SetFlag, Asio, Fire, Destroy,
     DestroyYield, DestroySleep, DestroyOperation, DeadInv
<1>3. CASE Run(c)
  <2>1. PICK o \in Outcomes : RunHandler(c, o)
    BY <1>3 DEF Run
  <2>2. TypeOK /\ OneHandler(c) /\ FlagTells(c)
    BY DEF Inv, Guarded
  <2>3. \A d \in Coroutines : OneOf(queue, Of(d))
    BY DEF Inv, Guarded, OneHandler
  <2>4. Queued(queue, c) /\ Handler(c, o) \in Elements(queue)
    BY <2>1, <2>2, <2>3, PopHandler DEF RunHandler, TypeOK
  <2>5. CASE Heeds(c, o)
    <3>1. frame[c] = "suspended"
      BY <2>2, <2>4, <2>5
      DEF Heeds, YieldHeeds, SleepHeeds, OperationHeeds, OneHandler, FlagTells,
          Pending
    <3> QED  BY <2>1, <2>5, <3>1 DEF RunHandler, Resume, DeadInv
  <2>6. CASE ~Heeds(c, o)
    BY <2>1, <2>6 DEF RunHandler, DeadInv
  <2> QED  BY <2>5, <2>6
<1> QED
  BY <1>2, <1>3

(***************************************************************************)
(* However often coroutines yield, sleep and await operations, whatever    *)
(* destroys them and whatever the program does to its I/O objects: no      *)
(* handler resumes a coroutine that is gone, as long as no sleeper is      *)
(* destroyed between the expiry of its timer and the handler's turn.       *)
(***************************************************************************)
THEOREM DeadNotResumed ==
  ASSUME ~LateDestroy
  PROVE  Spec => []NoDeadResume
<1>1. Init => Inv /\ DeadInv
  BY InvInit DEF Init, DeadInv
<1>2. (Inv /\ DeadInv) /\ [Next]_vars => (Inv /\ DeadInv)'
  BY InvStep, DeadStep
<1>3. Inv /\ DeadInv => NoDeadResume
  BY DEF DeadInv, NoDeadResume
<1> QED
  BY <1>1, <1>2, <1>3, PTL DEF Spec

-----------------------------------------------------------------------------
\* A coroutine stays suspended only as long as its handler is to come, and
\* with it the flag.
LEMMA StrayStep ==
  ASSUME ~CancelIO, ~Discards, Inv, StrayInv, [Next]_vars
  PROVE  StrayInv'
<1>1. CASE UNCHANGED vars
  BY <1>1 DEF vars, StrayInv, StillWaits, Pending
<1> SUFFICES ASSUME fault = "none", NEW c \in Coroutines,
                    Begin(c) \/ Body(c) \/ Run(c) \/ Asio(c) \/ Destroy(c)
             PROVE  StrayInv'
  BY <1>1 DEF Next
<1>2. /\ TypeOK /\ StillWaits /\ fault = "none"
      /\ \A d \in Coroutines : OneHandler(d) /\ FlagTells(d)
  BY DEF Inv, StrayInv, Guarded
<1> USE <1>2 DEF TypeOK
<1>3. ASSUME UNCHANGED <<queue, event, fault>>,
             \A d \in Coroutines : frame'[d] = "suspended" => frame[d] = "suspended"
      PROVE  StrayInv'
  BY <1>3 DEF StrayInv, StillWaits, Pending
<1>4. ASSUME NEW o \in Outcomes, PostedBy(c, o), fault' # "bad_write",
             frame'[c] = "suspended" => Resumes(c, o),
             frame'[c] = "suspended" => ~Queued(queue, c),
             \A d \in Coroutines \ {c} :
               event'[d] = event[d] /\ frame'[d] = frame[d]
      PROVE  StrayInv'
  <2>1. ASSUME NEW d \in Coroutines \ {c}, frame'[d] = "suspended"
        PROVE  /\ Pending(d)'
               /\ \A u \in Outcomes :
                    Handler(d, u) \in Elements(queue') => Resumes(d, u)
    BY <1>4, <2>1, HandlerFacts DEF PostedBy, StillWaits, Pending
  <2>2. ASSUME frame'[c] = "suspended"
        PROVE  /\ Pending(c)'
               /\ \A u \in Outcomes :
                    Handler(c, u) \in Elements(queue') => Resumes(c, u)
    BY <1>4, <2>2, HandlerFacts DEF PostedBy, Pending, Queued
  <2> QED  BY <1>4, <2>1, <2>2 DEF StrayInv, StillWaits
<1>5. CASE Begin(c)
  BY <1>3, <1>5 DEF Begin
<1>6. CASE Make(c)
  BY <1>3, <1>6 DEF Make
<1>7. CASE Suspend(c)
  <2>0. ~Pending(c)
    BY <1>7 DEF Suspend, OneHandler
  <2>1. CASE SuspendYield(c)
    <3>1. PostedBy(c, "ok")
      BY <2>0, <2>1, PostHandler DEF SuspendYield, Outcomes, Pending, OneHandler
    <3> QED
      BY <1>4, <1>7, <2>0, <2>1, <3>1
      DEF Suspend, SuspendYield, Outcomes, Pending, Resumes
  <2>2. CASE SuspendSleep(c) \/ SuspendOperation(c)
    <3>1. /\ event' = [event EXCEPT ![c] = "armed"] /\ UNCHANGED <<queue, fault>>
          /\ frame' = [frame EXCEPT ![c] = "suspended"]
      BY <1>7, <2>2 DEF Suspend, SuspendSleep, SuspendOperation
    <3>2. \A o \in Outcomes : Handler(c, o) \notin Elements(queue)
      BY <2>0, HandlerFacts DEF Pending, Queued
    <3> QED  BY <3>1, <3>2 DEF StrayInv, StillWaits, Pending
  <2> QED  BY <1>7, <2>1, <2>2 DEF Suspend
<1>8. CASE Finish(c)
  BY <1>3, <1>8 DEF Finish
<1>9. CASE Asio(c)
  <2>1. PICK o \in Outcomes : Fire(c, o)
    BY <1>9 DEF Asio
  <2>2. PostedBy(c, o)
    BY <2>1, PostHandler DEF Fire, OneHandler
  <2> QED
    BY <1>4, <2>1, <2>2 DEF Fire, OneHandler, Resumes
<1>10. CASE Destroy(c)
  <2>1. frame'[c] = "destroyed" /\ \A d \in Coroutines \ {c} : frame'[d] = frame[d]
    BY <1>10 DEF Destroy
  <2>2. fault' # "bad_write"
    BY <1>10
    DEF Destroy, DestroyYield, DestroySleep, DestroyOperation, SetFlag,
        StillWaits, FlagTells
  <2>3. CASE Withdrawn(c)
    <3>1. PostedBy(c, "aborted")
      BY <2>3, PostHandler DEF Withdrawn, Outcomes, OneHandler
    <3> QED  BY <1>4, <2>1, <2>2, <2>3, <3>1 DEF Withdrawn, Outcomes
  <2>4. CASE UNCHANGED <<event, queue>>
    BY <2>1, <2>2, <2>4 DEF StrayInv, StillWaits, Pending
  <2> QED
    BY <1>10, <2>3, <2>4
    DEF Destroy, DestroyYield, DestroySleep, DestroyOperation, Withdraw, Withdrawn
<1>11. CASE Run(c)
  <2>1. PICK o \in Outcomes : RunHandler(c, o)
    BY <1>11 DEF Run
  <2>2. /\ Queued(queue, c) /\ Handler(c, o) \in Elements(queue)
        /\ \A d \in Coroutines \ {c} : Queued(queue', d) <=> Queued(queue, d)
        /\ Elements(queue') \subseteq Elements(queue)
    BY <2>1, PopHandler DEF RunHandler, OneHandler
  <2>3. frame'[c] # "suspended"
    <3>1. CASE frame[c] = "suspended"
      <4>1. Resumes(c, o) /\ (Kind[c] # "sleep" => flag[c] = "clear")
        BY <2>2, <3>1 DEF StillWaits, FlagTells
      <4>2. Heeds(c, o)
        BY <4>1, AwaitersAssumption
        DEF Heeds, YieldHeeds, SleepHeeds, OperationHeeds, Resumes
      <4> QED  BY <2>1, <3>1, <4>2 DEF RunHandler, Resume
    <3>2. CASE frame[c] # "suspended"
      BY <2>1, <3>2 DEF RunHandler, Resume
    <3> QED  BY <3>1, <3>2
  <2>4. /\ fault' # "bad_write" /\ UNCHANGED event
        /\ \A d \in Coroutines \ {c} : frame'[d] = frame[d]
    BY <2>1 DEF RunHandler, Resume
  <2> QED  BY <2>2, <2>3, <2>4 DEF StrayInv, StillWaits, Pending
<1> QED
  BY <1>5, <1>6, <1>7, <1>8, <1>9, <1>10, <1>11 DEF Body

(***************************************************************************)
(* The flag a destructor writes through cancelled_ exists: its handler has *)
(* not run, or the coroutine would not be suspended.  That takes a program *)
(* that awaits the Operations it makes and does not itself cancel the I/O  *)
(* object of one that is being awaited.                                    *)
(***************************************************************************)
THEOREM FlagOutlivesWrite ==
  ASSUME ~CancelIO, ~Discards
  PROVE  Spec => []NoStrayWrite
<1>1. Init => Inv /\ StrayInv
  BY InvInit DEF Init, StrayInv, StillWaits
<1>2. (Inv /\ StrayInv) /\ [Next]_vars => (Inv /\ StrayInv)'
  BY InvStep, StrayStep
<1>3. Inv /\ StrayInv => NoStrayWrite
  BY DEF StrayInv, NoStrayWrite
<1> QED
  BY <1>1, <1>2, <1>3, PTL DEF Spec

(***************************************************************************)
(* Nothing is lost: as long as a coroutine is suspended, what it waits for *)
(* is outstanding or its handler is ready and will be heeded.  The program *)
(* is one that awaits its Operations and does not itself cancel an I/O     *)
(* object that is being awaited.                                           *)
(***************************************************************************)
THEOREM EventNotLost ==
  ASSUME ~CancelIO, ~Discards
  PROVE  Spec => []EventKept
<1>1. Init => Inv /\ StrayInv
  BY InvInit DEF Init, StrayInv, StillWaits
<1>2. (Inv /\ StrayInv) /\ [Next]_vars => (Inv /\ StrayInv)'
  BY InvStep, StrayStep
<1>3. Inv /\ StrayInv => EventKept
  <2> SUFFICES ASSUME Inv, StrayInv, fault = "none", NEW c \in Coroutines,
                      frame[c] = "suspended", event[c] # "armed"
               PROVE  \E i \in DOMAIN queue :
                        queue[i].co = c /\ Heeds(c, queue[i].outcome)
    BY DEF EventKept
  <2>1. PICK o \in Outcomes : Handler(c, o) \in Elements(queue)
    BY DEF StrayInv, StillWaits, Pending, Queued, Of
  <2>2. PICK i \in DOMAIN queue : queue[i] = Handler(c, o)
    BY <2>1 DEF Elements
  <2>3. Resumes(c, o) /\ (Kind[c] # "sleep" => flag[c] = "clear")
    BY <2>1 DEF StrayInv, StillWaits, Inv, Guarded, FlagTells
  <2>4. Heeds(c, o)
    BY <2>3, AwaitersAssumption
    DEF Heeds, YieldHeeds, SleepHeeds, OperationHeeds, Resumes
  <2> QED  BY <2>2, <2>4 DEF Handler
<1> QED
  BY <1>1, <1>2, <1>3, PTL DEF Spec
=============================================================================
