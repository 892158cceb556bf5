----------------------------- MODULE TaskProofs -----------------------------
(***************************************************************************)
(* Proofs about Task for every set of executors and awaiters and every     *)
(* length of the queues.                                                   *)
(***************************************************************************)
EXTENDS Task, TLAPS

Chasers == {AbortChaser(e) : e \in Executors}
Wakers == {DoResume(a) : a \in Awaiters}
Resumers == {Resume, GuardedResume}

\* The handlers queued on e, whatever their order.
In(q, e) == {q[e][i] : i \in DOMAIN q[e]}

\* At most one handler of S is queued, on all executors together.
One(q, S) ==
  \A e, f \in Executors : \A i \in DOMAIN q[e], j \in DOMAIN q[f] :
    q[e][i] \in S /\ q[f][j] \in S => e = f /\ i = j

\* No AbortChaser is queued in front of a bare resume.
ResumeFirst(q) ==
  \A e \in Executors : \A i, j \in DOMAIN q[e] :
    q[e][i] \in Chasers /\ q[e][j] = Resume => j < i

Alive == {"queued", "parked", "running"}

\* The task's state and its frame tell the same story.
StateInv ==
  /\ entry <=> frame \in Alive
  /\ result # "none" => ~entry
  /\ ~entry /\ result = "none" => requestedAbort
  /\ taken => result # "none"
  /\ \A a \in Awaiters : awaiter[a] # "assertion"

\* What the presence of a handler says about the task.
Consistent(q, asked, alive) ==
  /\ \A e \in Executors : In(q, e) \cap Chasers # {} => asked
  /\ \A e \in Executors : In(q, e) \cap Wakers # {} => ~alive
  /\ One(q, Chasers)
  /\ asked /\ alive => \E e \in Executors : In(q, e) \cap Chasers # {}

QueueInv == Consistent(queue, requestedAbort, entry)

Inv == TypeOK /\ StateInv /\ QueueInv

\* The programs the README asks for: serial executors, operations that
\* complete on the task's own executor.
SerialProgram == Parallel = {} /\ ~Foreign

\* At most one handler would resume the frame, and it is where at says.
Tokens(q, f, x) ==
  /\ One(q, Resumers)
  /\ \A e \in Executors : In(q, e) \cap Resumers # {} =>
       f = "destroyed" \/ (f = "queued" /\ x = e)

TokenInv == Tokens(queue, frame, at)

\* The runner a chaser compares with is the one it runs on, and the one the
\* coroutine runs on.
ChaserAtHome(q) ==
  \A e, f \in Executors : AbortChaser(f) \in In(q, e) => f = e

SerialInv ==
  /\ frame \in Alive => at = currRunner
  /\ ChaserAtHome(queue)
  /\ fault # "destroyed_running"

\* The bare resume of a task that never roams back is always in front of the
\* chaser that could destroy the frame.
Ordered(q, seen) ==
  /\ \A e \in Executors : In(q, e) \cap Chasers # {} => e \in seen
  /\ ResumeFirst(q)

BareQueued(q, f) == \A e \in Executors : Resume \in In(q, e) => f = "queued"

OrderInv ==
  /\ currRunner \in visited
  /\ Ordered(queue, visited)
  /\ BareQueued(queue, frame)
  /\ fault # "resumed_dead"

-----------------------------------------------------------------------------
(***************************************************************************)
(* What appending a handler to an executor's queue does to In, One and     *)
(* ResumeFirst (asio::post).                                               *)
(***************************************************************************)
LEMMA PostFacts ==
  ASSUME NEW q \in [Executors -> Seq(Handlers)], NEW e \in Executors,
         NEW h \in Handlers
  PROVE  /\ Post(q, e, h) \in [Executors -> Seq(Handlers)]
         /\ \A f \in Executors :
              In(Post(q, e, h), f) = IF f = e THEN In(q, f) \cup {h}
                                     ELSE In(q, f)
<1> DEFINE p == Post(q, e, h)
<1>1. p \in [Executors -> Seq(Handlers)]
  BY DEF Post
<1>2. \A f \in Executors : f # e => p[f] = q[f]
  BY DEF Post
<1>3. /\ DOMAIN q[e] = 1..Len(q[e])
      /\ DOMAIN p[e] = 1..(Len(q[e]) + 1)
      /\ Len(q[e]) \in Nat
      /\ p[e][Len(q[e]) + 1] = h
      /\ \A i \in 1..Len(q[e]) : p[e][i] = q[e][i]
  BY DEF Post
<1>4. In(p, e) = In(q, e) \cup {h}
  <2> HIDE DEF p
  <2> QED  BY <1>3, SMT DEF In
<1> QED
  BY <1>1, <1>2, <1>4, ZenonT(30) DEF In

\* Appending keeps at most one handler of S queued, if it adds none
\* to one that is there (asio::post).
LEMMA PostOne ==
  ASSUME NEW q \in [Executors -> Seq(Handlers)], NEW e \in Executors,
         NEW h \in Handlers, NEW S,
         One(q, S), h \in S => \A f \in Executors : In(q, f) \cap S = {}
  PROVE  One(Post(q, e, h), S)
<1> DEFINE p == Post(q, e, h)
<1>1. \A f \in Executors : f # e => p[f] = q[f]
  BY DEF Post
<1>2. /\ DOMAIN q[e] = 1..Len(q[e])
      /\ DOMAIN p[e] = 1..(Len(q[e]) + 1)
      /\ Len(q[e]) \in Nat
      /\ p[e][Len(q[e]) + 1] = h
      /\ \A i \in 1..Len(q[e]) : p[e][i] = q[e][i]
  BY DEF Post
<1> HIDE DEF p
<1>3. \A f \in Executors : \A i \in DOMAIN p[f] :
        (f = e /\ i = Len(q[e]) + 1 /\ p[f][i] = h)
        \/ (i \in DOMAIN q[f] /\ p[f][i] = q[f][i])
  BY <1>1, <1>2
<1>4. ASSUME NEW f \in Executors, NEW g \in Executors,
             NEW i \in DOMAIN p[f], NEW j \in DOMAIN p[g],
             p[f][i] \in S, p[g][j] \in S
      PROVE  f = g /\ i = j
  <2>1. CASE h \in S
    <3>1. \A c \in Executors : \A k \in DOMAIN q[c] : q[c][k] \notin S
      BY <2>1 DEF In
    <3> QED  BY <1>3, <1>4, <3>1
  <2>2. CASE h \notin S
    <3>1. i \in DOMAIN q[f] /\ q[f][i] \in S
      BY <1>3, <1>4, <2>2
    <3>2. j \in DOMAIN q[g] /\ q[g][j] \in S
      BY <1>3, <1>4, <2>2
    <3> QED  BY <3>1, <3>2 DEF One
  <2> QED  BY <2>1, <2>2
<1> QED
  BY <1>4 DEF One, p

\* Appending a handler that is not a bare resume, or where no
\* AbortChaser is queued, keeps bare resumes in front (asio::post).
LEMMA PostOrder ==
  ASSUME NEW q \in [Executors -> Seq(Handlers)], NEW e \in Executors,
         NEW h \in Handlers,
         ResumeFirst(q), h = Resume => In(q, e) \cap Chasers = {}
  PROVE  ResumeFirst(Post(q, e, h))
<1> DEFINE p == Post(q, e, h)
<1>1. \A f \in Executors : f # e => p[f] = q[f]
  BY DEF Post
<1>2. /\ DOMAIN q[e] = 1..Len(q[e])
      /\ DOMAIN p[e] = 1..(Len(q[e]) + 1)
      /\ Len(q[e]) \in Nat
      /\ p[e][Len(q[e]) + 1] = h
      /\ \A i \in 1..Len(q[e]) : p[e][i] = q[e][i]
  BY DEF Post
<1>3. Resume \notin Chasers
  BY DEF Resume, Chasers, AbortChaser
<1> HIDE DEF p
<1>4. ASSUME NEW f \in Executors, NEW i \in DOMAIN p[f], NEW j \in DOMAIN p[f],
             p[f][i] \in Chasers, p[f][j] = Resume
      PROVE  j < i
  <2>1. CASE f # e
    BY <1>1, <1>4, <2>1 DEF ResumeFirst
  <2>2. CASE f = e /\ i = Len(q[e]) + 1
    BY <1>2, <1>3, <1>4, <2>2
  <2>3. CASE f = e /\ i # Len(q[e]) + 1 /\ j # Len(q[e]) + 1
    BY <1>2, <1>4, <2>3 DEF ResumeFirst
  <2>4. CASE f = e /\ i # Len(q[e]) + 1 /\ j = Len(q[e]) + 1
    BY <1>2, <1>4, <2>4 DEF In
  <2> QED  BY <2>1, <2>2, <2>3, <2>4
<1> QED
  BY <1>4 DEF ResumeFirst, p

(***************************************************************************)
(* What running the first handler of an executor's queue does to them.     *)
(***************************************************************************)
LEMMA PopElements ==
  ASSUME queue \in [Executors -> Seq(Handlers)],
         NEW e \in Executors, queue[e] # <<>>
  PROVE  /\ Popped(e) \in [Executors -> Seq(Handlers)]
         /\ Head(queue[e]) = queue[e][1] /\ 1 \in DOMAIN queue[e]
         /\ \A f \in Executors : f # e => Popped(e)[f] = queue[f]
         /\ \A i \in DOMAIN Popped(e)[e] :
              /\ i \in Nat /\ i + 1 \in DOMAIN queue[e] /\ i + 1 # 1
              /\ Popped(e)[e][i] = queue[e][i + 1]
<1>1. /\ Popped(e) \in [Executors -> Seq(Handlers)]
      /\ \A f \in Executors : f # e => Popped(e)[f] = queue[f]
      /\ Popped(e)[e] = Tail(queue[e])
  BY DEF Popped
<1>2. queue[e] \in Seq(Handlers) /\ queue[e] # <<>>
  OBVIOUS
<1>3. Head(queue[e]) = queue[e][1] /\ 1 \in DOMAIN queue[e]
  BY <1>2
<1>4. \A i \in DOMAIN Tail(queue[e]) :
        /\ i \in Nat /\ i + 1 \in DOMAIN queue[e] /\ i + 1 # 1
        /\ Tail(queue[e])[i] = queue[e][i + 1]
  BY <1>2
<1> QED
  BY <1>1, <1>3, <1>4

\* What running the first handler leaves in the queues.
LEMMA PopFacts ==
  ASSUME queue \in [Executors -> Seq(Handlers)],
         NEW e \in Executors, queue[e] # <<>>
  PROVE  /\ Popped(e) \in [Executors -> Seq(Handlers)]
         /\ Head(queue[e]) \in In(queue, e)
         /\ \A f \in Executors : In(Popped(e), f) \subseteq In(queue, f)
         /\ \A f \in Executors :
              In(queue, f) \subseteq In(Popped(e), f) \cup {Head(queue[e])}
         /\ \A f \in Executors : f # e => In(Popped(e), f) = In(queue, f)
<1> DEFINE p == Popped(e)
<1>1. \A i \in DOMAIN queue[e] :
        i = 1 \/ (i - 1 \in DOMAIN p[e] /\ p[e][i - 1] = queue[e][i])
  <2>1. queue[e] \in Seq(Handlers) /\ Popped(e)[e] = Tail(queue[e])
    BY DEF Popped
  <2> QED  BY <2>1
<1>2. /\ p \in [Executors -> Seq(Handlers)]
      /\ Head(queue[e]) = queue[e][1] /\ 1 \in DOMAIN queue[e]
      /\ \A f \in Executors : f # e => p[f] = queue[f]
      /\ \A i \in DOMAIN p[e] :
           i + 1 \in DOMAIN queue[e] /\ p[e][i] = queue[e][i + 1]
  BY PopElements
<1> HIDE DEF p
<1>3. \A f \in Executors : f # e => In(p, f) = In(queue, f)
  BY <1>2 DEF In
<1>4. In(p, e) \subseteq In(queue, e)
  BY <1>2 DEF In
<1>5. In(queue, e) \subseteq In(p, e) \cup {Head(queue[e])}
  <2>1. ASSUME NEW i \in DOMAIN queue[e]
        PROVE  queue[e][i] \in In(p, e) \cup {Head(queue[e])}
    BY <1>1, <1>2 DEF In
  <2> QED  BY <2>1 DEF In
<1>6. Head(queue[e]) \in In(queue, e)
  BY <1>2 DEF In
<1> QED
  BY <1>2, <1>3, <1>4, <1>5, <1>6 DEF p

\* Running the first handler keeps at most one handler of S queued, and
\* leaves none if the handler was of S.
LEMMA PopOne ==
  ASSUME queue \in [Executors -> Seq(Handlers)],
         NEW e \in Executors, queue[e] # <<>>, NEW S, One(queue, S)
  PROVE  /\ One(Popped(e), S)
         /\ Head(queue[e]) \in S =>
              \A f \in Executors : In(Popped(e), f) \cap S = {}
<1> DEFINE p == Popped(e)
<1>1. /\ \A f \in Executors : f # e => p[f] = queue[f]
      /\ Head(queue[e]) = queue[e][1] /\ 1 \in DOMAIN queue[e]
      /\ \A i \in DOMAIN p[e] :
           /\ i \in Nat /\ i + 1 \in DOMAIN queue[e] /\ i + 1 # 1
           /\ p[e][i] = queue[e][i + 1]
  BY PopElements
<1> HIDE DEF p
<1>2. ASSUME NEW f \in Executors, NEW g \in Executors,
             NEW i \in DOMAIN p[f], NEW j \in DOMAIN p[g],
             p[f][i] \in S, p[g][j] \in S
      PROVE  f = g /\ i = j
  <2>1. CASE f # e /\ g # e
    BY <1>1, <1>2, <2>1 DEF One
  <2>2. CASE f = e /\ g # e
    BY <1>1, <1>2, <2>2 DEF One
  <2>3. CASE f # e /\ g = e
    BY <1>1, <1>2, <2>3 DEF One
  <2>4. CASE f = e /\ g = e
    <3>1. i + 1 = j + 1
      BY <1>1, <1>2, <2>4 DEF One
    <3> QED  BY <1>1, <1>2, <2>4, <3>1
  <2> QED  BY <2>1, <2>2, <2>3, <2>4
<1>3. ASSUME Head(queue[e]) \in S, NEW f \in Executors, NEW i \in DOMAIN p[f],
             p[f][i] \in S
      PROVE  FALSE
  BY <1>1, <1>3 DEF One
<1> QED
  BY <1>2, <1>3 DEF One, In, p

\* Running the first handler keeps bare resumes in front of AbortChasers.
LEMMA PopOrder ==
  ASSUME queue \in [Executors -> Seq(Handlers)],
         NEW e \in Executors, queue[e] # <<>>, ResumeFirst(queue)
  PROVE  /\ ResumeFirst(Popped(e))
         /\ Head(queue[e]) \in Chasers => Resume \notin In(queue, e)
<1> DEFINE p == Popped(e)
<1>1. /\ \A f \in Executors : f # e => p[f] = queue[f]
      /\ Head(queue[e]) = queue[e][1] /\ 1 \in DOMAIN queue[e]
      /\ \A i \in DOMAIN p[e] :
           /\ i \in Nat /\ i + 1 \in DOMAIN queue[e] /\ i + 1 # 1
           /\ p[e][i] = queue[e][i + 1]
  BY PopElements
<1> HIDE DEF p
<1>2. ASSUME NEW f \in Executors, NEW i \in DOMAIN p[f], NEW j \in DOMAIN p[f],
             p[f][i] \in Chasers, p[f][j] = Resume
      PROVE  j < i
  <2>1. CASE f # e
    BY <1>1, <1>2, <2>1 DEF ResumeFirst
  <2>2. CASE f = e
    <3>1. j + 1 < i + 1
      BY <1>1, <1>2, <2>2 DEF ResumeFirst
    <3> QED  BY <1>1, <1>2, <2>2, <3>1
  <2> QED  BY <2>1, <2>2
<1>3. DOMAIN queue[e] = 1..Len(queue[e]) /\ Len(queue[e]) \in Nat
  OBVIOUS
<1>4. ASSUME Head(queue[e]) \in Chasers, NEW j \in DOMAIN queue[e],
             queue[e][j] = Resume
      PROVE  FALSE
  <2>1. j < 1
    BY <1>1, <1>4 DEF ResumeFirst
  <2> QED  BY <1>3, <2>1
<1> QED
  BY <1>2, <1>4 DEF ResumeFirst, In, p

(***************************************************************************)
(* The four kinds of handler are told apart.                               *)
(***************************************************************************)
LEMMA HandlerFacts ==
  /\ Resume \in Handlers /\ Resume \notin Chasers \cup Wakers
  /\ GuardedResume \in Handlers /\ GuardedResume \notin Chasers \cup Wakers
  /\ GuardedResume # Resume
  /\ \A a \in Awaiters : /\ DoResume(a) \in Handlers
                           /\ DoResume(a) \in Wakers
                          /\ DoResume(a) \notin Chasers \cup Resumers
  /\ \A e \in Executors : /\ AbortChaser(e) \in Handlers
                            /\ AbortChaser(e) \in Chasers
                           /\ AbortChaser(e) \notin Wakers \cup Resumers
  /\ \A e, f \in Executors : AbortChaser(e) = AbortChaser(f) => e = f
  /\ \A h \in Handlers : h.kind = "chaser" <=> h \in Chasers
  /\ Resumers = {Resume, GuardedResume}
<1>1. \A h \in Handlers : h.kind = "chaser" <=> h \in Chasers
  BY SMT DEF Handlers, Chasers, Resume, GuardedResume, DoResume, AbortChaser
<1>2. \A e, f \in Executors : AbortChaser(e) = AbortChaser(f) => e = f
  BY DEF AbortChaser
<1>3. \A a \in Awaiters : /\ DoResume(a) \in Handlers
                          /\ DoResume(a) \in Wakers
                          /\ DoResume(a) \notin Chasers
                          /\ DoResume(a) \notin Resumers
  BY DEF Handlers, Chasers, Wakers, Resumers, Resume, GuardedResume, DoResume,
         AbortChaser
<1>4. \A e \in Executors : /\ AbortChaser(e) \in Handlers
                           /\ AbortChaser(e) \in Chasers
                           /\ AbortChaser(e) \notin Wakers
                           /\ AbortChaser(e) \notin Resumers
  BY DEF Handlers, Chasers, Wakers, Resumers, Resume, GuardedResume, DoResume,
         AbortChaser
<1>5. /\ Resume \in Handlers /\ Resume \notin Chasers \cup Wakers
      /\ GuardedResume \in Handlers /\ GuardedResume \notin Chasers \cup Wakers
      /\ GuardedResume # Resume
  BY DEF Handlers, Chasers, Wakers, Resume, GuardedResume, DoResume,
         AbortChaser
<1> QED
  BY <1>1, <1>2, <1>3, <1>4, <1>5 DEF Resumers

(***************************************************************************)
(* Type correctness: every variable of the model keeps to its type.        *)
(***************************************************************************)
LEMMA TypeInit == Init => TypeOK
<1> SUFFICES ASSUME Init PROVE TypeOK
  OBVIOUS
<1>1. [e \in Executors |-> <<>>] \in [Executors -> Seq(Handlers)]
  OBVIOUS
<1>2. queue \in [Executors -> Seq(Handlers)]
  BY <1>1, PostFacts, HandlerFacts, TaskAssumption DEF Init
<1> QED
  BY <1>2, TaskAssumption DEF Init, TypeOK, Results

\* request_abort keeps the queues and the flag it sets well typed.
LEMMA RequestAbortType ==
  ASSUME TypeOK, RequestAbort
  PROVE  /\ queue' \in [Executors -> Seq(Handlers)]
         /\ requestedAbort' \in BOOLEAN
<1>1. CASE result # "none" \/ requestedAbort
  BY <1>1 DEF RequestAbort, TypeOK
<1>2. CASE ~(result # "none" \/ requestedAbort)
  BY <1>2, PostFacts, HandlerFacts, SMTT(30) DEF RequestAbort, TypeOK
<1> QED
  BY <1>1, <1>2

\* request_task_resume keeps the queues and resumer_ well typed.
LEMMA RequestTaskResumeType ==
  ASSUME TypeOK, NEW q \in [Executors -> Seq(Handlers)], RequestTaskResume(q)
  PROVE  /\ queue' \in [Executors -> Seq(Handlers)]
         /\ resumer' = None
<1>1. CASE resumer = None
  BY <1>1 DEF RequestTaskResume
<1>2. CASE resumer # None
  <2>1. resumer \in Awaiters /\ AwaitOn[resumer] \in Executors
    BY <1>2, TaskAssumption DEF TypeOK
  <2> QED
    BY <1>2, <2>1, PostFacts, HandlerFacts DEF RequestTaskResume
<1> QED
  BY <1>1, <1>2

\* Every step of the task, its callers and the executors keeps all
\* variables well typed.
LEMMA TypeStep == TypeOK /\ [Next]_vars => TypeOK'
<1> SUFFICES ASSUME TypeOK, [Next]_vars PROVE TypeOK'
  OBVIOUS
<1> USE DEF TypeOK, Results
<1>1. ASSUME NEW e \in Executors, RunResume(e) PROVE TypeOK'
  <2>1. Popped(e) \in [Executors -> Seq(Handlers)]
    BY <1>1, PopFacts DEF RunResume, Takes
  <2> QED  BY <1>1, <2>1 DEF RunResume, Start, shared
<1>2. ASSUME NEW e \in Executors, RunGuardedResume(e) PROVE TypeOK'
  <2>1. Popped(e) \in [Executors -> Seq(Handlers)]
    BY <1>2, PopFacts DEF RunGuardedResume, Takes
  <2> QED  BY <1>2, <2>1 DEF RunGuardedResume, Start, shared
<1>3. ASSUME NEW e \in Executors, NEW prev \in Executors,
             RunAbortChaser(e, prev)
      PROVE  TypeOK'
  <2>1. Popped(e) \in [Executors -> Seq(Handlers)]
    BY <1>3, PopFacts DEF RunAbortChaser, Takes
  <2>2. CASE ~entry
    BY <1>3, <2>1, <2>2 DEF RunAbortChaser
  <2>3. CASE entry /\ currRunner # prev
    <3>1. Post(Popped(e), currRunner, AbortChaser(currRunner))
            \in [Executors -> Seq(Handlers)]
      BY <2>1, PostFacts, HandlerFacts
    <3> QED  BY <1>3, <2>3, <3>1 DEF RunAbortChaser
  <2>4. CASE entry /\ currRunner = prev
    <3>1. RequestTaskResume(Popped(e))
      BY <1>3, <2>4 DEF RunAbortChaser
    <3>2. queue' \in [Executors -> Seq(Handlers)] /\ resumer' = None
      BY <2>1, <3>1, RequestTaskResumeType
    <3> QED  BY <1>3, <2>4, <3>2 DEF RunAbortChaser
  <2> QED  BY <2>2, <2>3, <2>4
<1>4. ASSUME NEW e \in Executors, NEW a \in Awaiters, RunDoResume(e, a)
      PROVE  TypeOK'
  <2>1. Popped(e) \in [Executors -> Seq(Handlers)]
    BY <1>4, PopFacts DEF RunDoResume, Takes
  <2>2. awaiter' \in [Awaiters -> Results \cup {"idle", "waiting", "dropped",
                                        "cancelled", "moved", "assertion"}]
    BY <1>4 DEF RunDoResume, AwaitResume
  <2>3. taken' \in BOOLEAN
    BY <1>4 DEF RunDoResume, AwaitResume
  <2> QED  BY <1>4, <2>1, <2>2, <2>3 DEF RunDoResume
<1>5. CASE Yield
  <2>1. Post(queue, currRunner, GuardedResume) \in [Executors -> Seq(Handlers)]
    BY PostFacts, HandlerFacts
  <2> QED  BY <1>5, <2>1 DEF Yield, shared
<1>6. ASSUME NEW f \in Executors, Suspend(f) PROVE TypeOK'
  BY <1>6 DEF Suspend, shared
<1>7. CASE Complete
  <2>1. Post(queue, at, GuardedResume) \in [Executors -> Seq(Handlers)]
    BY PostFacts, HandlerFacts
  <2> QED  BY <1>7, <2>1 DEF Complete, shared
<1>8. ASSUME NEW f \in Executors, Roam(f) PROVE TypeOK'
  <2>1. Post(queue, f, Resume) \in [Executors -> Seq(Handlers)]
    BY PostFacts, HandlerFacts
  <2> QED  BY <1>8, <2>1 DEF Roam
<1>9. ASSUME NEW r \in Results, Finish(r) PROVE TypeOK'
  <2>1. queue' \in [Executors -> Seq(Handlers)] /\ resumer' = None
    BY <1>9, RequestTaskResumeType DEF Finish
  <2> QED  BY <1>9, <2>1 DEF Finish
<1>10. CASE Exit
  BY <1>10 DEF Exit, shared
<1>11. ASSUME NEW a \in Awaiters, Await(a) PROVE TypeOK'
  BY <1>11 DEF Await, AwaitResume
<1>12. ASSUME NEW a \in Awaiters, DropAwait(a) PROVE TypeOK'
  BY <1>12 DEF DropAwait, shared
<1>13. CASE Abort
  <2>1. queue' \in [Executors -> Seq(Handlers)] /\ requestedAbort' \in BOOLEAN
    BY <1>13, RequestAbortType DEF Abort
  <2> QED  BY <1>13, <2>1 DEF Abort
<1>14. CASE DestroyTask
  <2>1. queue' \in [Executors -> Seq(Handlers)] /\ requestedAbort' \in BOOLEAN
    BY <1>14, RequestAbortType DEF DestroyTask
  <2> QED  BY <1>14, <2>1 DEF DestroyTask
<1>15. CASE Detach
  BY <1>15 DEF Detach, shared
<1>16. CASE GetResult
  BY <1>16 DEF GetResult
<1>17. CASE UNCHANGED vars
  BY <1>17 DEF vars, shared
<1> QED
  BY <1>1, <1>2, <1>3, <1>4, <1>5, <1>6, <1>7, <1>8, <1>9, <1>10, <1>11,
     <1>12, <1>13, <1>14, <1>15, <1>16, <1>17
     DEF Next, Run, Body, Caller

\* Every variable of the model of the task keeps to its type for ever.
THEOREM TypeCorrect == Spec => []TypeOK
  BY TypeInit, TypeStep, PTL DEF Spec

-----------------------------------------------------------------------------
(***************************************************************************)
(* StateInv and QueueInv are inductive, whatever the program does: posting *)
(* a handler keeps them if what its presence says of the task is so.       *)
(***************************************************************************)
LEMMA PostConsistent ==
  ASSUME NEW q \in [Executors -> Seq(Handlers)], NEW e \in Executors,
         NEW h \in Handlers, NEW asked \in BOOLEAN, NEW alive \in BOOLEAN,
         Consistent(q, asked, alive),
         h \notin Chasers, h \in Wakers => ~alive
  PROVE  Consistent(Post(q, e, h), asked, alive)
<1> DEFINE p == Post(q, e, h)
<1>1. One(p, Chasers)
  BY PostOne DEF Consistent
<1>0. \A f \in Executors : In(p, f) = IF f = e THEN In(q, f) \cup {h}
                                     ELSE In(q, f)
  BY PostFacts
<1> HIDE DEF p
<1>2. \A f \in Executors : In(p, f) \cap Chasers = In(q, f) \cap Chasers
  BY <1>0
<1>3. \A f \in Executors : In(p, f) \cap Wakers # {} =>
        h \in Wakers \/ In(q, f) \cap Wakers # {}
  BY <1>0
<1>4. \A f \in Executors : In(p, f) \cap Wakers # {} => ~alive
  BY <1>3 DEF Consistent
<1> QED
  BY <1>1, <1>2, <1>4 DEF Consistent, p

\* Running a handler keeps the queues consistent with the task, if it is
\* not the AbortChaser of a task still to be cancelled.
LEMMA PopConsistent ==
  ASSUME queue \in [Executors -> Seq(Handlers)], NEW e \in Executors,
         queue[e] # <<>>, NEW asked \in BOOLEAN, NEW alive \in BOOLEAN,
         Consistent(queue, asked, alive),
         Head(queue[e]) \in Chasers => ~alive
  PROVE  Consistent(Popped(e), asked, alive)
<1>1. One(Popped(e), Chasers)
  BY PopOne DEF Consistent
<1>2. ASSUME asked, alive, NEW f \in Executors, In(queue, f) \cap Chasers # {}
      PROVE  In(Popped(e), f) \cap Chasers # {}
  BY <1>2, PopFacts
<1> QED
  BY <1>1, <1>2, PopFacts DEF Consistent

\* request_task_resume keeps the queues consistent once the task is over.
LEMMA RequestTaskResumeConsistent ==
  ASSUME TypeOK, NEW q \in [Executors -> Seq(Handlers)],
         NEW asked \in BOOLEAN, Consistent(q, asked, FALSE),
         RequestTaskResume(q)
  PROVE  Consistent(queue', asked, FALSE)
<1>1. CASE resumer = None
  BY <1>1 DEF RequestTaskResume
<1>2. CASE resumer # None
  <2>1. resumer \in Awaiters /\ AwaitOn[resumer] \in Executors
    BY <1>2, TaskAssumption DEF TypeOK
  <2>2. DoResume(resumer) \in Handlers /\ DoResume(resumer) \notin Chasers
    BY <2>1, HandlerFacts
  <2>3. Consistent(Post(q, AwaitOn[resumer], DoResume(resumer)), asked, FALSE)
    BY <2>1, <2>2, PostConsistent
  <2> QED
    BY <1>2, <2>3 DEF RequestTaskResume
<1> QED
  BY <1>1, <1>2

\* A chaser may be posted when none is queued.
LEMMA PostChaser ==
  ASSUME NEW q \in [Executors -> Seq(Handlers)], NEW e \in Executors,
         NEW h \in Handlers, NEW alive \in BOOLEAN
  PROVE  /\ h \in Chasers
         /\ \A g \in Executors : In(q, g) \cap Chasers = {}
         /\ \A g \in Executors : In(q, g) \cap Wakers # {} => ~alive
         => Consistent(Post(q, e, h), TRUE, alive)
<1> DEFINE p == Post(q, e, h)
<1>1. \A f \in Executors : In(p, f) = IF f = e THEN In(q, f) \cup {h}
                                     ELSE In(q, f)
  BY PostFacts
<1> SUFFICES ASSUME h \in Chasers,
                    \A g \in Executors : In(q, g) \cap Chasers = {},
                    \A g \in Executors : In(q, g) \cap Wakers # {} => ~alive
             PROVE  Consistent(p, TRUE, alive)
  OBVIOUS
<1>2. h \notin Wakers
  BY HandlerFacts DEF Chasers
<1>3. One(q, Chasers)
  BY DEF One, In
<1>4. One(p, Chasers)
  BY <1>3, PostOne
<1> HIDE DEF p
<1>5. \A g \in Executors : In(p, g) \cap Wakers = In(q, g) \cap Wakers
  BY <1>1, <1>2
<1>6. \A g \in Executors : In(p, g) \cap Wakers # {} => ~alive
  BY <1>5
<1>7. In(p, e) \cap Chasers # {}
  BY <1>1
<1> QED
  BY <1>4, <1>6, <1>7 DEF Consistent

\* request_abort keeps the queues consistent: it posts at most one
\* AbortChaser, and only when it sets requested_abort_.
LEMMA RequestAbortConsistent ==
  ASSUME TypeOK, StateInv, QueueInv, RequestAbort
  PROVE  Consistent(queue', requestedAbort', entry)
<1>1. CASE result # "none" \/ requestedAbort
  BY <1>1 DEF RequestAbort, QueueInv
<1>2. CASE ~(result # "none" \/ requestedAbort)
  <2>1. /\ \A g \in Executors : In(queue, g) \cap Chasers = {}
        /\ \A g \in Executors : In(queue, g) \cap Wakers # {} => ~entry
    BY <1>2 DEF QueueInv, Consistent
  <2>2. Consistent(Post(queue, currRunner, AbortChaser(currRunner)), TRUE, entry)
    <3>1. /\ queue \in [Executors -> Seq(Handlers)]
          /\ currRunner \in Executors /\ entry \in BOOLEAN
      BY DEF TypeOK
    <3>2. /\ AbortChaser(currRunner) \in Handlers
          /\ AbortChaser(currRunner) \in Chasers
      BY <3>1, HandlerFacts
    <3> QED  BY <2>1, <3>1, <3>2, PostChaser
  <2> QED
    BY <1>2, <2>2 DEF RequestAbort
<1> QED
  BY <1>1, <1>2

\* Task::Task establishes the invariant.
LEMMA InvInit == Init => Inv
<1> SUFFICES ASSUME Init PROVE Inv
  OBVIOUS
<1> DEFINE empty == [e \in Executors |-> <<>>]
<1>1. empty \in [Executors -> Seq(Handlers)]
  OBVIOUS
<1>2. \A e \in Executors : In(empty, e) = {}
  BY DEF In
<1>3. Consistent(empty, FALSE, TRUE)
  BY <1>2 DEF Consistent, One, In
<1>4. Consistent(Post(empty, Home, Resume), FALSE, TRUE)
  BY <1>1, <1>3, PostConsistent, HandlerFacts, TaskAssumption
<1>5. QueueInv
  BY <1>4 DEF Init, QueueInv
<1>6. StateInv
  BY DEF Init, StateInv, Alive
<1> QED
  BY <1>5, <1>6, TypeInit DEF Inv

\* Every step preserves the invariant: result, handle, abort request and
\* the handlers queued agree.
LEMMA InvStep == Inv /\ [Next]_vars => Inv'
<1> SUFFICES ASSUME Inv, [Next]_vars PROVE StateInv' /\ QueueInv'
  BY TypeStep DEF Inv
<1>0. /\ TypeOK /\ StateInv /\ QueueInv
      /\ queue \in [Executors -> Seq(Handlers)]
      /\ entry \in BOOLEAN /\ requestedAbort \in BOOLEAN
      /\ currRunner \in Executors /\ at \in Executors
      /\ Consistent(queue, requestedAbort, entry)
  BY DEF Inv, TypeOK, QueueInv
<1>1. ASSUME NEW e \in Executors, RunResume(e) PROVE StateInv' /\ QueueInv'
  <2>1. Consistent(Popped(e), requestedAbort, entry)
    BY <1>0, <1>1, PopConsistent, HandlerFacts DEF RunResume, Takes
  <2>2. queue' = Popped(e) /\ UNCHANGED <<entry, requestedAbort>>
    BY <1>1 DEF RunResume, Start, shared
  <2>3. StateInv'
    BY <1>0, <1>1 DEF StateInv, Alive, RunResume, Start, shared
  <2> QED  BY <2>1, <2>2, <2>3 DEF QueueInv
<1>2. ASSUME NEW e \in Executors, RunGuardedResume(e)
      PROVE  StateInv' /\ QueueInv'
  <2>1. Consistent(Popped(e), requestedAbort, entry)
    BY <1>0, <1>2, PopConsistent, HandlerFacts DEF RunGuardedResume, Takes
  <2>2. queue' = Popped(e) /\ UNCHANGED <<entry, requestedAbort>>
    BY <1>2 DEF RunGuardedResume, Start, shared
  <2>3. StateInv'
    BY <1>0, <1>2 DEF StateInv, Alive, RunGuardedResume, Start, shared
  <2> QED  BY <2>1, <2>2, <2>3 DEF QueueInv
<1>3. ASSUME NEW e \in Executors, NEW prev \in Executors,
             RunAbortChaser(e, prev)
      PROVE  StateInv' /\ QueueInv'
  <2>1. /\ queue[e] # <<>> /\ Head(queue[e]) = AbortChaser(prev)
        /\ AbortChaser(prev) \in Chasers
    BY <1>3, HandlerFacts DEF RunAbortChaser, Takes
  <2>2. requestedAbort
    BY <1>0, <2>1, PopFacts DEF Consistent
  <2>3. Popped(e) \in [Executors -> Seq(Handlers)]
    BY <1>0, <2>1, PopFacts
  <2>4. Consistent(Popped(e), requestedAbort, FALSE)
    <3>1. Consistent(queue, requestedAbort, FALSE)
      BY <1>0 DEF Consistent
    <3> QED  BY <1>0, <2>1, <3>1, PopConsistent
  <2>5. CASE ~entry
    <3>1. queue' = Popped(e) /\ UNCHANGED <<entry, requestedAbort>>
      BY <1>3, <2>5 DEF RunAbortChaser
    <3>2. StateInv'
      BY <1>0, <1>3, <2>5 DEF StateInv, Alive, RunAbortChaser
    <3> QED  BY <1>0, <2>4, <2>5, <3>1, <3>2 DEF QueueInv
  <2>6. CASE entry /\ currRunner # prev
    <3>1. /\ queue' = Post(Popped(e), currRunner, AbortChaser(currRunner))
          /\ UNCHANGED <<entry, requestedAbort>>
      BY <1>3, <2>6 DEF RunAbortChaser
    <3>2. StateInv'
      BY <1>0, <1>3, <2>6 DEF StateInv, Alive, RunAbortChaser
    <3>3. \A g \in Executors : In(Popped(e), g) \cap Chasers = {}
      BY <1>0, <2>1, PopOne DEF Consistent
    <3>4. \A g \in Executors : In(Popped(e), g) \cap Wakers # {} => ~entry
      BY <1>0, <2>1, PopFacts DEF Consistent
    <3>5. Consistent(Post(Popped(e), currRunner, AbortChaser(currRunner)),
                     TRUE, entry)
      <4>1. /\ AbortChaser(currRunner) \in Handlers
            /\ AbortChaser(currRunner) \in Chasers
        BY <1>0, HandlerFacts
      <4> QED  BY <1>0, <2>3, <3>3, <3>4, <4>1, PostChaser, ZenonT(30)
    <3> QED  BY <1>0, <2>2, <3>1, <3>2, <3>5 DEF QueueInv
  <2>7. CASE entry /\ currRunner = prev
    <3>1. /\ RequestTaskResume(Popped(e)) /\ entry' = FALSE
          /\ requestedAbort' = requestedAbort
      BY <1>3, <2>7 DEF RunAbortChaser
    <3>2. StateInv'
      BY <1>0, <1>3, <2>2, <2>7 DEF StateInv, Alive, RunAbortChaser
    <3>3. Consistent(queue', requestedAbort, FALSE)
      BY <1>0, <2>3, <2>4, <3>1, RequestTaskResumeConsistent
    <3> QED  BY <3>1, <3>2, <3>3 DEF QueueInv
  <2> QED  BY <2>5, <2>6, <2>7
<1>4. ASSUME NEW e \in Executors, NEW a \in Awaiters, RunDoResume(e, a)
      PROVE  StateInv' /\ QueueInv'
  <2>1. /\ queue[e] # <<>> /\ Head(queue[e]) = DoResume(a)
        /\ DoResume(a) \in Wakers /\ DoResume(a) \notin Chasers
    BY <1>4, HandlerFacts DEF RunDoResume, Takes
  <2>2. ~entry
    BY <1>0, <2>1, PopFacts DEF Consistent
  <2>3. Consistent(Popped(e), requestedAbort, entry)
    BY <1>0, <2>1, PopConsistent
  <2>4. queue' = Popped(e) /\ UNCHANGED <<entry, requestedAbort>>
    BY <1>4 DEF RunDoResume
  <2>5. \A b \in Awaiters : awaiter'[b] # "assertion"
    BY <1>0, <1>4, <2>2 DEF RunDoResume, AwaitResume, StateInv, TypeOK, Results
  <2>6. /\ taken' = (taken \/ result # "none") \/ taken' = taken
        /\ UNCHANGED <<frame, entry, requestedAbort, result>>
    BY <1>4 DEF RunDoResume, AwaitResume
  <2>7. taken' => result # "none"
    BY <1>0, <2>6 DEF StateInv
  <2>8. StateInv'
    BY <1>0, <2>5, <2>6, <2>7 DEF StateInv
  <2> QED  BY <2>3, <2>4, <2>8 DEF QueueInv
<1>5. CASE Yield
  <2>1. Consistent(Post(queue, currRunner, GuardedResume), requestedAbort, entry)
    BY <1>0, PostConsistent, HandlerFacts
  <2>2. StateInv'
    BY <1>0, <1>5 DEF StateInv, Alive, Yield, shared
  <2> QED  BY <1>5, <2>1, <2>2 DEF QueueInv, Yield, shared
<1>6. ASSUME NEW f \in Executors, Suspend(f) PROVE StateInv' /\ QueueInv'
  BY <1>0, <1>6 DEF StateInv, QueueInv, Alive, Suspend, shared
<1>7. CASE Complete
  <2>1. Consistent(Post(queue, at, GuardedResume), requestedAbort, entry)
    BY <1>0, PostConsistent, HandlerFacts
  <2>2. StateInv'
    BY <1>0, <1>7 DEF StateInv, Alive, Complete, shared
  <2> QED  BY <1>7, <2>1, <2>2 DEF QueueInv, Complete, shared
<1>8. ASSUME NEW f \in Executors, Roam(f) PROVE StateInv' /\ QueueInv'
  <2>1. Consistent(Post(queue, f, Resume), requestedAbort, entry)
    BY <1>0, PostConsistent, HandlerFacts
  <2>2. StateInv'
    BY <1>0, <1>8 DEF StateInv, Alive, Roam
  <2> QED  BY <1>8, <2>1, <2>2 DEF QueueInv, Roam
<1>9. ASSUME NEW r \in Results, Finish(r) PROVE StateInv' /\ QueueInv'
  <2>1. Consistent(queue, requestedAbort, FALSE)
    BY <1>0 DEF Consistent
  <2>2. RequestTaskResume(queue) /\ entry' = FALSE
        /\ requestedAbort' = requestedAbort
    BY <1>9 DEF Finish
  <2>3. Consistent(queue', requestedAbort, FALSE)
    BY <1>0, <2>1, <2>2, RequestTaskResumeConsistent
  <2>4. StateInv'
    BY <1>0, <1>9 DEF StateInv, Alive, Finish, Results
  <2> QED  BY <2>2, <2>3, <2>4 DEF QueueInv
<1>10. CASE Exit
  BY <1>0, <1>10 DEF StateInv, QueueInv, Alive, Exit, shared
<1>11. ASSUME NEW a \in Awaiters, Await(a) PROVE StateInv' /\ QueueInv'
  <2>1. \A b \in Awaiters : awaiter'[b] # "assertion"
    BY <1>0, <1>11 DEF Await, AwaitResume, StateInv, TypeOK, Results
  <2>2. StateInv'
    BY <1>0, <1>11, <2>1 DEF StateInv, Alive, Await, AwaitResume
  <2> QED  BY <1>0, <1>11, <2>2 DEF QueueInv, Await
<1>12. ASSUME NEW a \in Awaiters, DropAwait(a) PROVE StateInv' /\ QueueInv'
  BY <1>0, <1>12 DEF StateInv, QueueInv, Alive, DropAwait, shared, TypeOK
<1>13. CASE Abort
  <2>1. Consistent(queue', requestedAbort', entry)
    BY <1>0, <1>13, RequestAbortConsistent DEF Abort
  <2>2. StateInv'
    BY <1>0, <1>13 DEF StateInv, Alive, Abort, RequestAbort
  <2> QED  BY <1>13, <2>1, <2>2 DEF QueueInv, Abort
<1>14. CASE DestroyTask
  <2>1. Consistent(queue', requestedAbort', entry)
    BY <1>0, <1>14, RequestAbortConsistent DEF DestroyTask
  <2>2. StateInv'
    BY <1>0, <1>14 DEF StateInv, Alive, DestroyTask, RequestAbort
  <2> QED  BY <1>14, <2>1, <2>2 DEF QueueInv, DestroyTask
<1>15. CASE Detach
  BY <1>0, <1>15 DEF StateInv, QueueInv, Alive, Detach, shared
<1>16. CASE GetResult
  BY <1>0, <1>16 DEF StateInv, QueueInv, Alive, GetResult
<1>17. CASE UNCHANGED vars
  BY <1>0, <1>17 DEF StateInv, QueueInv, Alive, vars, shared
<1> QED
  BY <1>1, <1>2, <1>3, <1>4, <1>5, <1>6, <1>7, <1>8, <1>9, <1>10, <1>11,
     <1>12, <1>13, <1>14, <1>15, <1>16, <1>17
     DEF Next, Run, Body, Caller

\* The invariant always holds.
LEMMA InvHolds == Spec => []Inv
  BY InvInit, InvStep, PTL DEF Spec

(***************************************************************************)
(* TaskAwaiter::await_resume never finds the task unfinished.              *)
(***************************************************************************)
THEOREM AwaitNeverEarly == Spec => []AwaitSeesFinished
<1>1. Inv => AwaitSeesFinished
  BY DEF Inv, StateInv, AwaitSeesFinished
<1> QED
  BY <1>1, InvHolds, PTL

(***************************************************************************)
(* A step that neither ends the task nor registers anybody keeps wake-ups  *)
(* posted, if it takes none from one who waits.                            *)
(***************************************************************************)
LEMMA WakeKept ==
  ASSUME WakePosted, UNCHANGED <<entry, resumer>>,
         \A a \in Awaiters : awaiter'[a] = "waiting" =>
           /\ awaiter[a] = "waiting"
           /\ DoResume(a) \in In(queue, AwaitOn[a])
                => DoResume(a) \in In(queue', AwaitOn[a])
  PROVE  WakePosted'
BY DEF WakePosted, In

\* request_task_resume, at the end of the task, posts the only wake-up due.
LEMMA WakeEnd ==
  ASSUME TypeOK, WakePosted, NEW q \in [Executors -> Seq(Handlers)],
         RequestTaskResume(q), entry, ~entry', awaiter' = awaiter
  PROVE  WakePosted'
<1> SUFFICES ASSUME NEW a \in Awaiters, awaiter[a] = "waiting"
             PROVE  DoResume(a) \in In(queue', AwaitOn[a])
  BY DEF WakePosted, In
<1>1. resumer = a /\ a # None /\ AwaitOn[a] \in Executors
  BY TaskAssumption DEF WakePosted
<1>2. queue' = Post(q, AwaitOn[a], DoResume(a))
  BY <1>1 DEF RequestTaskResume
<1> QED
  BY <1>1, <1>2, PostFacts, HandlerFacts

\* If one coroutine awaits the task at a time, every step keeps it registered
\* and its wake-up posted.
LEMMA WakeStep ==
  ASSUME ~ConcurrentAwaits, Inv, WakePosted, [Next]_vars
  PROVE  WakePosted'
<1>0. /\ TypeOK /\ queue \in [Executors -> Seq(Handlers)]
      /\ currRunner \in Executors /\ at \in Executors
      /\ \A a \in Awaiters : AwaitOn[a] \in Executors
  BY TaskAssumption DEF Inv, TypeOK
<1>1. ASSUME NEW e \in Executors, RunResume(e) \/ RunGuardedResume(e)
      PROVE  WakePosted'
  <2>1. /\ queue[e] # <<>> /\ Head(queue[e]) \in Resumers /\ queue' = Popped(e)
        /\ UNCHANGED <<entry, resumer, awaiter>>
    BY <1>1 DEF RunResume, RunGuardedResume, Takes, Start, shared, Resumers
  <2>2. \A a \in Awaiters, f \in Executors :
          DoResume(a) \in In(queue, f) => DoResume(a) \in In(queue', f)
    BY <1>0, <2>1, PopFacts, HandlerFacts
  <2> QED  BY <1>0, <2>1, <2>2, WakeKept
<1>2. ASSUME NEW e \in Executors, NEW prev \in Executors, RunAbortChaser(e, prev)
      PROVE  WakePosted'
  <2>1. /\ queue[e] # <<>> /\ Head(queue[e]) = AbortChaser(prev)
        /\ awaiter' = awaiter
    BY <1>2 DEF RunAbortChaser, Takes
  <2>2. /\ Popped(e) \in [Executors -> Seq(Handlers)]
        /\ \A a \in Awaiters, f \in Executors :
             DoResume(a) \in In(queue, f) => DoResume(a) \in In(Popped(e), f)
    BY <1>0, <2>1, PopFacts, HandlerFacts
  <2>3. CASE ~entry
    <3>1. queue' = Popped(e) /\ UNCHANGED <<entry, resumer>>
      BY <1>2, <2>3 DEF RunAbortChaser
    <3> QED  BY <1>0, <2>1, <2>2, <3>1, WakeKept
  <2>4. CASE entry /\ currRunner # prev
    <3>1. UNCHANGED <<entry, resumer>>
      BY <1>2, <2>4 DEF RunAbortChaser
    <3> QED  BY <2>1, <2>4, <3>1 DEF WakePosted
  <2>5. CASE entry /\ currRunner = prev
    <3>1. RequestTaskResume(Popped(e)) /\ ~entry'
      BY <1>2, <2>5 DEF RunAbortChaser
    <3> QED  BY <1>0, <2>1, <2>2, <2>5, <3>1, WakeEnd
  <2> QED  BY <2>3, <2>4, <2>5
<1>3. ASSUME NEW e \in Executors, NEW a \in Awaiters, RunDoResume(e, a)
      PROVE  WakePosted'
  <2>1. /\ queue[e] # <<>> /\ Head(queue[e]) = DoResume(a) /\ queue' = Popped(e)
        /\ UNCHANGED <<entry, resumer, result>>
        /\ \A b \in Awaiters \ {a} : awaiter'[b] = awaiter[b]
    BY <1>0, <1>3 DEF RunDoResume, AwaitResume, Takes, TypeOK
  <2>2. awaiter'[a] # "waiting"
    BY <1>0, <1>3 DEF RunDoResume, AwaitResume, TypeOK, Results
  <2>3. \A b \in Awaiters \ {a} : DoResume(b) # DoResume(a)
    BY DEF DoResume
  <2>4. \A b \in Awaiters \ {a}, f \in Executors :
          DoResume(b) \in In(queue, f) => DoResume(b) \in In(queue', f)
    BY <1>0, <2>1, <2>3, PopFacts
  <2> QED  BY <1>0, <2>1, <2>2, <2>4, WakeKept
<1>4. ASSUME NEW e \in Executors, NEW h \in Handlers, queue' = Post(queue, e, h),
             UNCHANGED <<entry, resumer, awaiter>>
      PROVE  WakePosted'
  <2>1. \A f \in Executors : In(Post(queue, e, h), f) =
          IF f = e THEN In(queue, f) \cup {h} ELSE In(queue, f)
    BY <1>0, PostFacts, ZenonT(30)
  <2>2. \A f \in Executors : In(queue, f) \subseteq In(queue', f)
    BY <1>4, <2>1
  <2> QED  BY <1>0, <1>4, <2>2, WakeKept
<1>5. CASE Yield
  BY <1>0, <1>4, <1>5, HandlerFacts DEF Yield, shared
<1>6. ASSUME NEW f \in Executors, Suspend(f) PROVE WakePosted'
  BY <1>6 DEF WakePosted, Suspend, shared
<1>7. CASE Complete
  BY <1>0, <1>4, <1>7, HandlerFacts DEF Complete, shared
<1>8. ASSUME NEW f \in Executors, Roam(f) PROVE WakePosted'
  BY <1>4, <1>8, HandlerFacts DEF Roam
<1>9. ASSUME NEW r \in Results, Finish(r) PROVE WakePosted'
  <2>1. entry
    BY <1>9 DEF Inv, StateInv, Alive, Finish
  <2> QED  BY <1>0, <1>9, <2>1, WakeEnd DEF Finish
<1>10. CASE Exit
  BY <1>10 DEF WakePosted, Exit, shared
<1>11. ASSUME NEW a \in Awaiters, Await(a) PROVE WakePosted'
  <2>1. /\ \A b \in Awaiters : awaiter[b] # "waiting"
        /\ \A b \in Awaiters \ {a} : awaiter'[b] = awaiter[b]
        /\ UNCHANGED <<queue, entry>>
    BY <1>0, <1>11 DEF Await, AwaitResume, TypeOK
  <2>2. entry => resumer' = a
    BY <1>11 DEF Await
  <2>3. ~entry => awaiter'[a] # "waiting"
    BY <1>0, <1>11 DEF Await, AwaitResume, TypeOK, Results
  <2> QED  BY <2>1, <2>2, <2>3 DEF WakePosted
<1>12. ASSUME NEW a \in Awaiters, DropAwait(a) PROVE WakePosted'
  BY <1>0, <1>12 DEF WakePosted, DropAwait, shared, TypeOK
<1>13. CASE Abort \/ DestroyTask
  <2>1. UNCHANGED <<entry, resumer, awaiter>>
    BY <1>13 DEF Abort, DestroyTask
  <2>2. queue' = queue \/ queue' = Post(queue, currRunner, AbortChaser(currRunner))
    BY <1>13 DEF Abort, DestroyTask, RequestAbort
  <2>3. CASE queue' = queue
    BY <2>1, <2>3, WakeKept
  <2>4. CASE queue' = Post(queue, currRunner, AbortChaser(currRunner))
    BY <1>0, <1>4, <2>1, <2>4, HandlerFacts
  <2> QED  BY <2>2, <2>3, <2>4
<1>14. CASE Detach
  BY <1>14 DEF WakePosted, Detach, shared
<1>15. CASE GetResult
  BY <1>15 DEF WakePosted, GetResult
<1>16. CASE UNCHANGED vars
  BY <1>16 DEF WakePosted, vars, shared
<1> QED
  BY <1>1, <1>2, <1>3, <1>5, <1>6, <1>7, <1>8, <1>9, <1>10, <1>11, <1>12,
     <1>13, <1>14, <1>15, <1>16
     DEF Next, Run, Body, Caller

(***************************************************************************)
(* No wake-up is lost: in whatever order a task is awaited, dropped and    *)
(* ends, the coroutine that waits for it is registered or has its          *)
(* do_resume posted, if two do not wait for it at a time.                  *)
(***************************************************************************)
THEOREM WakeNotLost == ASSUME ~ConcurrentAwaits PROVE Spec => []WakePosted
<1>1. Init => WakePosted
  BY DEF Init, WakePosted
<1>2. Inv /\ WakePosted /\ [Next]_vars => WakePosted'
  BY WakeStep
<1> QED
  BY <1>1, <1>2, InvHolds, PTL DEF Spec

(***************************************************************************)
(* One AbortChaser is after an aborted task until the task has ended.      *)
(***************************************************************************)
THEOREM OneChaser == Spec => []AbortChased
<1>1. Inv => AbortChased
  <2> SUFFICES ASSUME Inv PROVE AbortChased
    OBVIOUS
  <2>1. \A e \in Executors : \A i \in DOMAIN queue[e] :
          IsChaser(e, i) <=> queue[e][i] \in Chasers
    <3>1. ASSUME NEW e \in Executors, NEW i \in DOMAIN queue[e]
          PROVE  queue[e][i] \in Handlers
      BY DEF Inv, TypeOK
    <3> QED  BY <3>1, HandlerFacts DEF IsChaser
  <2>2. /\ One(queue, Chasers)
        /\ requestedAbort /\ entry =>
             \E e \in Executors : In(queue, e) \cap Chasers # {}
    BY DEF Inv, QueueInv, Consistent
  <2>3. ASSUME requestedAbort, entry
        PROVE  \E e \in Executors : \E i \in DOMAIN queue[e] : IsChaser(e, i)
    BY <2>1, <2>2, <2>3 DEF In
  <2>4. ASSUME NEW e \in Executors, NEW f \in Executors,
               NEW i \in DOMAIN queue[e], NEW j \in DOMAIN queue[f],
               IsChaser(e, i), IsChaser(f, j)
        PROVE  e = f /\ i = j
    BY <2>1, <2>2, <2>4 DEF One
  <2> QED  BY <2>3, <2>4 DEF AbortChased
<1> QED
  BY <1>1, InvHolds, PTL

-----------------------------------------------------------------------------
(***************************************************************************)
(* Task implements TaskPromise: every step settles the task, tells one     *)
(* awaiter, records one request, or changes nothing the promise can see.   *)
(***************************************************************************)
LEMMA PromiseInit == Init => Promise!Init
  BY DEF Init, Promise!Init, Outcome

\* request_abort is Ask, or nothing the promise can see.
LEMMA PromiseAsk ==
  ASSUME Inv, RequestAbort, UNCHANGED <<entry, result, taken, awaiter>>
  PROVE  Promise!Ask \/ UNCHANGED Promise!vars
<1>1. CASE result # "none" \/ requestedAbort
  BY <1>1 DEF RequestAbort, Outcome, Promise!vars
<1>2. CASE ~(result # "none" \/ requestedAbort)
  BY <1>2 DEF RequestAbort, Inv, StateInv, Outcome, Promise!Ask
<1> QED
  BY <1>1, <1>2

\* TaskAwaiter::await_resume of a finished task is Tell.
LEMMA PromiseTell ==
  ASSUME Inv, NEW a \in Awaiters, ~entry, awaiter[a] \in {"idle", "waiting"},
         AwaitResume(a), UNCHANGED <<entry, requestedAbort, result>>
  PROVE  Promise!Tell(a)
<1>1. taken => result # "none"
  BY DEF Inv, StateInv
<1>2. result \in {"value", "exception", "none"} /\ taken \in BOOLEAN
  BY DEF Inv, TypeOK, Results
<1>3. /\ Outcome # "pending"
      /\ Outcome \in {"value", "exception"} <=> result # "none"
      /\ UNCHANGED Outcome
  BY <1>2 DEF Outcome
<1>4. awaiter' = [awaiter EXCEPT ![a] = IF taken THEN "moved" ELSE Outcome]
  BY <1>1, <1>2 DEF AwaitResume, Outcome
<1>5. taken' = (Outcome \in Promise!Results)
  BY <1>1, <1>2, <1>3 DEF AwaitResume, Promise!Results
<1> QED
  BY <1>3, <1>4, <1>5 DEF Promise!Tell

\* Every step of the task is a step of its promise, or a stutter.
LEMMA PromiseStep ==
  Inv /\ [Next]_vars => [Promise!Next]_(Promise!vars)
<1> SUFFICES ASSUME Inv, [Next]_vars
             PROVE  Promise!Next \/ UNCHANGED Promise!vars
  OBVIOUS
<1>0. TypeOK /\ StateInv /\ QueueInv
  BY DEF Inv
<1> DEFINE Seen == <<entry, requestedAbort, result, taken, awaiter>>
<1>1. ASSUME UNCHANGED Seen PROVE UNCHANGED Promise!vars
  BY <1>1 DEF Promise!vars, Outcome
<1>2. ASSUME NEW e \in Executors, RunResume(e) \/ RunGuardedResume(e)
      PROVE  UNCHANGED Promise!vars
  BY <1>1, <1>2 DEF RunResume, RunGuardedResume, Start, shared
<1>3. ASSUME NEW e \in Executors, NEW prev \in Executors,
             RunAbortChaser(e, prev)
      PROVE  Promise!Settle \/ UNCHANGED Promise!vars
  <2>1. CASE entry /\ currRunner = prev
    <3>1. requestedAbort
      BY <1>0, <1>3, PopFacts, HandlerFacts
         DEF RunAbortChaser, Takes, TypeOK, QueueInv, Consistent
    <3>2. result = "none"
      BY <1>0, <2>1 DEF StateInv
    <3>3. /\ entry' = FALSE
          /\ UNCHANGED <<requestedAbort, result, taken, awaiter>>
      BY <1>3, <2>1 DEF RunAbortChaser
    <3> QED  BY <2>1, <3>1, <3>2, <3>3 DEF Promise!Settle, Outcome
  <2>2. CASE ~(entry /\ currRunner = prev)
    BY <1>1, <1>3, <2>2 DEF RunAbortChaser
  <2> QED  BY <2>1, <2>2
<1>4. ASSUME NEW e \in Executors, NEW a \in Awaiters, RunDoResume(e, a)
      PROVE  Promise!Tell(a) \/ UNCHANGED Promise!vars
  <2>1. ~entry
    BY <1>0, <1>4, PopFacts, HandlerFacts
       DEF RunDoResume, Takes, TypeOK, QueueInv, Consistent
  <2>2. CASE awaiter[a] = "waiting"
    BY <1>4, <2>1, <2>2, PromiseTell DEF RunDoResume
  <2>3. CASE awaiter[a] # "waiting"
    BY <1>1, <1>4, <2>3 DEF RunDoResume
  <2> QED  BY <2>2, <2>3
<1>5. ASSUME Yield \/ Complete \/ Exit \/ Detach
      PROVE  UNCHANGED Promise!vars
  BY <1>1, <1>5 DEF Yield, Complete, Exit, Detach, shared
<1>6. ASSUME NEW f \in Executors, Suspend(f) \/ Roam(f)
      PROVE  UNCHANGED Promise!vars
  BY <1>1, <1>6 DEF Suspend, Roam, shared
<1>7. ASSUME NEW r \in Results, Finish(r) PROVE Promise!Settle
  BY <1>0, <1>7 DEF Finish, StateInv, Alive, Results, Outcome, Promise!Settle,
                    Promise!Results
<1>8. ASSUME NEW a \in Awaiters, Await(a)
      PROVE  Promise!Await(a) \/ Promise!Tell(a)
  <2>1. CASE entry
    <3>1. awaiter[a] = "idle" /\ awaiter' = [awaiter EXCEPT ![a] = "waiting"]
          /\ UNCHANGED <<entry, requestedAbort, result, taken>>
      BY <1>8, <2>1 DEF Await
    <3> QED  BY <2>1, <3>1 DEF Promise!Await, Outcome
  <2>2. CASE ~entry
    BY <1>8, <2>2, PromiseTell DEF Await
  <2> QED  BY <2>1, <2>2
<1>9. ASSUME NEW a \in Awaiters, DropAwait(a) PROVE Promise!GiveUp(a)
  BY <1>9 DEF DropAwait, Promise!GiveUp, Outcome, shared
<1>10. ASSUME Abort PROVE Promise!Ask \/ UNCHANGED Promise!vars
  BY <1>10, PromiseAsk DEF Abort
<1>11. ASSUME DestroyTask PROVE Promise!Ask \/ UNCHANGED Promise!vars
  <2>1. CASE entry
    BY <1>11, <2>1, PromiseAsk DEF DestroyTask
  <2>2. CASE ~entry
    BY <1>1, <1>11, <2>2 DEF DestroyTask
  <2> QED  BY <2>1, <2>2
<1>12. ASSUME GetResult PROVE Promise!Take
  BY <1>0, <1>12 DEF GetResult, StateInv, TypeOK, Results, Outcome,
                     Promise!Take, Promise!Results
<1>13. ASSUME UNCHANGED vars PROVE UNCHANGED Promise!vars
  BY <1>1, <1>13 DEF vars, shared
<1> QED
  BY <1>2, <1>3, <1>4, <1>5, <1>6, <1>7, <1>8, <1>9, <1>10, <1>11, <1>12,
     <1>13 DEF Next, Run, Body, Caller, Promise!Next

(***************************************************************************)
(* Whatever the program does, a task keeps the promise of TaskPromise.     *)
(***************************************************************************)
THEOREM TaskKeepsPromise == Spec => KeepsPromise
  BY PromiseInit, PromiseStep, InvHolds, PTL
     DEF Spec, KeepsPromise, Promise!Spec

-----------------------------------------------------------------------------
(***************************************************************************)
(* What request_task_resume and request_abort may add to a queue.          *)
(***************************************************************************)
LEMMA RequestTaskResumePosts ==
  ASSUME TypeOK, NEW q, RequestTaskResume(q)
  PROVE  queue' = q \/ \E a \in Awaiters :
                         queue' = Post(q, AwaitOn[a], DoResume(a))
  BY DEF TypeOK, RequestTaskResume

\* request_abort posts one AbortChaser, to the current runner, or nothing.
LEMMA RequestAbortPosts ==
  ASSUME RequestAbort
  PROVE  \/ queue' = queue
         \/ queue' = Post(queue, currRunner, AbortChaser(currRunner))
  BY DEF RequestAbort

(***************************************************************************)
(* At most one handler would resume the frame: TokenInv is inductive.      *)
(***************************************************************************)
LEMMA PostTokens ==
  ASSUME NEW q \in [Executors -> Seq(Handlers)], NEW e \in Executors,
         NEW h \in Handlers, NEW f, NEW x
  PROVE  /\ Tokens(q, f, x) /\ h \notin Resumers => Tokens(Post(q, e, h), f, x)
         /\ (\A c \in Executors : In(q, c) \cap Resumers = {}) =>
              Tokens(Post(q, e, h), "queued", e)
<1> DEFINE p == Post(q, e, h)
<1>1. \A c \in Executors : In(p, c) = IF c = e THEN In(q, c) \cup {h}
                                     ELSE In(q, c)
  BY PostFacts
<1>2. ASSUME Tokens(q, f, x), h \notin Resumers
      PROVE  Tokens(p, f, x)
  <2>1. One(p, Resumers)
    BY <1>2, PostOne DEF Tokens
  <2> HIDE DEF p
  <2>2. \A c \in Executors : In(p, c) \cap Resumers = In(q, c) \cap Resumers
    BY <1>1, <1>2
  <2> QED  BY <1>2, <2>1, <2>2 DEF Tokens
<1>3. ASSUME \A c \in Executors : In(q, c) \cap Resumers = {}
      PROVE  Tokens(p, "queued", e)
  <2>1. One(q, Resumers)
    BY <1>3 DEF One, In
  <2>2. One(p, Resumers)
    BY <1>3, <2>1, PostOne
  <2> HIDE DEF p
  <2>3. \A c \in Executors : In(p, c) \cap Resumers # {} => c = e
    BY <1>1, <1>3
  <2> QED  BY <2>2, <2>3 DEF Tokens
<1> QED
  BY <1>2, <1>3

\* Running a handler takes away the one that would resume the frame, or
\* leaves them all.
LEMMA PopTokens ==
  ASSUME queue \in [Executors -> Seq(Handlers)], NEW e \in Executors,
         queue[e] # <<>>, NEW f, NEW x, Tokens(queue, f, x)
  PROVE  /\ Tokens(Popped(e), f, x)
         /\ Head(queue[e]) \in Resumers =>
              \A g, y : Tokens(Popped(e), g, y)
<1>1. One(Popped(e), Resumers)
  BY PopOne DEF Tokens
<1>2. \A c \in Executors : In(Popped(e), c) \subseteq In(queue, c)
  BY PopFacts
<1>3. Tokens(Popped(e), f, x)
  BY <1>1, <1>2 DEF Tokens
<1>4. ASSUME Head(queue[e]) \in Resumers, NEW g, NEW y
      PROVE  Tokens(Popped(e), g, y)
  <2>1. \A c \in Executors : In(Popped(e), c) \cap Resumers = {}
    BY <1>4, PopOne DEF Tokens
  <2> QED  BY <1>1, <2>1 DEF Tokens
<1> QED
  BY <1>3, <1>4

\* request_abort posts nothing that resumes the frame.
LEMMA RequestAbortTokens ==
  ASSUME TypeOK, TokenInv, RequestAbort
  PROVE  Tokens(queue', frame, at)
<1>1. /\ queue \in [Executors -> Seq(Handlers)] /\ currRunner \in Executors
      /\ AbortChaser(currRunner) \in Handlers
      /\ AbortChaser(currRunner) \notin Resumers
  BY HandlerFacts DEF TypeOK
<1>2. Tokens(Post(queue, currRunner, AbortChaser(currRunner)), frame, at)
  BY <1>1, PostTokens DEF TokenInv
<1> QED
  BY <1>2, RequestAbortPosts DEF TokenInv

\* request_task_resume posts nothing that resumes the frame.
LEMMA RequestTaskResumeTokens ==
  ASSUME TypeOK, NEW q \in [Executors -> Seq(Handlers)], NEW f, NEW x,
         Tokens(q, f, x), RequestTaskResume(q)
  PROVE  Tokens(queue', f, x)
<1>1. ASSUME NEW a \in Awaiters
      PROVE  Tokens(Post(q, AwaitOn[a], DoResume(a)), f, x)
  <2>1. /\ AwaitOn[a] \in Executors /\ DoResume(a) \in Handlers
        /\ DoResume(a) \notin Resumers
    BY TaskAssumption, HandlerFacts
  <2> QED  BY <2>1, PostTokens
<1> QED
  BY <1>1, RequestTaskResumePosts

\* Task::Task posts the one handler that resumes the frame.
LEMMA TokenInit == Init => TokenInv
<1> SUFFICES ASSUME Init PROVE TokenInv
  OBVIOUS
<1> DEFINE empty == [e \in Executors |-> <<>>]
<1>1. empty \in [Executors -> Seq(Handlers)]
  OBVIOUS
<1>2. \A e \in Executors : In(empty, e) \cap Resumers = {}
  BY DEF In
<1> HIDE DEF empty
<1>3. Tokens(Post(empty, Home, Resume), "queued", Home)
  BY <1>1, <1>2, PostTokens, HandlerFacts, TaskAssumption
<1> QED
  BY <1>3 DEF Init, TokenInv, empty

\* Every step keeps at most one handler that would resume the frame.
LEMMA TokenStep == TypeOK /\ TokenInv /\ [Next]_vars => TokenInv'
<1> SUFFICES ASSUME TypeOK, TokenInv, [Next]_vars PROVE TokenInv'
  OBVIOUS
<1>0. /\ queue \in [Executors -> Seq(Handlers)]
      /\ currRunner \in Executors /\ at \in Executors
      /\ Tokens(queue, frame, at)
  BY DEF TypeOK, TokenInv
<1>1. ASSUME frame \notin {"queued", "destroyed"}
      PROVE  \A e \in Executors : In(queue, e) \cap Resumers = {}
  BY <1>0, <1>1 DEF Tokens
<1>2. ASSUME frame \notin {"queued", "destroyed"}, UNCHANGED queue
      PROVE  TokenInv'
  BY <1>0, <1>1, <1>2 DEF TokenInv, Tokens
<1>3. ASSUME NEW e \in Executors, RunResume(e) \/ RunGuardedResume(e)
      PROVE  TokenInv'
  <2>1. queue[e] # <<>> /\ Head(queue[e]) \in Resumers /\ queue' = Popped(e)
    BY <1>3 DEF RunResume, RunGuardedResume, Start, Takes, Resumers
  <2> QED  BY <1>0, <2>1, PopTokens DEF TokenInv
<1>4. ASSUME NEW e \in Executors, NEW prev \in Executors,
             RunAbortChaser(e, prev)
      PROVE  TokenInv'
  <2>1. queue[e] # <<>> /\ UNCHANGED at
    BY <1>4 DEF RunAbortChaser, Takes
  <2>2. /\ Popped(e) \in [Executors -> Seq(Handlers)]
        /\ Tokens(Popped(e), frame, at)
    BY <1>0, <2>1, PopFacts, PopTokens
  <2>3. CASE ~entry
    BY <1>4, <2>1, <2>2, <2>3 DEF RunAbortChaser, TokenInv
  <2>4. CASE entry /\ currRunner # prev
    <3>1. /\ AbortChaser(currRunner) \in Handlers
          /\ AbortChaser(currRunner) \notin Resumers
      BY <1>0, HandlerFacts
    <3>2. Tokens(Post(Popped(e), currRunner, AbortChaser(currRunner)), frame, at)
      BY <1>0, <2>2, <3>1, PostTokens
    <3> QED  BY <1>4, <2>1, <2>4, <3>2 DEF RunAbortChaser, TokenInv
  <2>5. CASE entry /\ currRunner = prev
    <3>1. RequestTaskResume(Popped(e)) /\ frame' = "destroyed"
      BY <1>4, <2>5 DEF RunAbortChaser
    <3>2. Tokens(Popped(e), "destroyed", at)
      BY <2>2 DEF Tokens
    <3>3. Tokens(queue', "destroyed", at)
      BY <2>2, <3>1, <3>2, RequestTaskResumeTokens
    <3> QED  BY <2>1, <3>1, <3>3 DEF TokenInv
  <2> QED  BY <2>3, <2>4, <2>5
<1>5. ASSUME NEW e \in Executors, NEW a \in Awaiters, RunDoResume(e, a)
      PROVE  TokenInv'
  <2>1. queue[e] # <<>> /\ queue' = Popped(e) /\ UNCHANGED <<frame, at>>
    BY <1>5 DEF RunDoResume, Takes
  <2> QED  BY <1>0, <2>1, PopTokens DEF TokenInv
<1>6. CASE Yield
  <2>1. Tokens(Post(queue, currRunner, GuardedResume), "queued", currRunner)
    BY <1>0, <1>1, <1>6, PostTokens, HandlerFacts DEF Yield
  <2> QED  BY <1>6, <2>1 DEF Yield, TokenInv
<1>7. ASSUME NEW f \in Executors, Suspend(f) PROVE TokenInv'
  BY <1>2, <1>7 DEF Suspend
<1>8. CASE Complete
  <2>1. Tokens(Post(queue, at, GuardedResume), "queued", at)
    BY <1>0, <1>1, <1>8, PostTokens, HandlerFacts DEF Complete
  <2> QED  BY <1>8, <2>1 DEF Complete, TokenInv
<1>9. ASSUME NEW f \in Executors, Roam(f) PROVE TokenInv'
  <2>1. Tokens(Post(queue, f, Resume), "queued", f)
    BY <1>0, <1>1, <1>9, PostTokens, HandlerFacts DEF Roam
  <2> QED  BY <1>9, <2>1 DEF Roam, TokenInv
<1>10. ASSUME NEW r \in Results, Finish(r) PROVE TokenInv'
  <2>1. RequestTaskResume(queue) /\ frame = "running" /\ UNCHANGED at
    BY <1>10 DEF Finish
  <2>2. Tokens(queue, "exiting", at)
    BY <1>0, <1>1, <2>1 DEF Tokens
  <2>3. Tokens(queue', "exiting", at)
    BY <1>0, <2>1, <2>2, RequestTaskResumeTokens
  <2> QED  BY <1>10, <2>1, <2>3 DEF Finish, TokenInv
<1>11. CASE Exit
  BY <1>2, <1>11 DEF Exit
<1>12. ASSUME UNCHANGED <<queue, frame, at>> PROVE TokenInv'
  BY <1>12 DEF TokenInv
<1>13. ASSUME NEW a \in Awaiters, Await(a) \/ DropAwait(a) PROVE TokenInv'
  BY <1>12, <1>13 DEF Await, DropAwait
<1>14. CASE Abort
  BY <1>14, RequestAbortTokens DEF Abort, TokenInv
<1>15. CASE DestroyTask
  BY <1>12, <1>15, RequestAbortTokens DEF DestroyTask, TokenInv
<1>16. CASE Detach \/ GetResult
  BY <1>12, <1>16 DEF Detach, GetResult
<1>17. CASE UNCHANGED vars
  BY <1>12, <1>17 DEF vars
<1> QED
  BY <1>3, <1>4, <1>5, <1>6, <1>7, <1>8, <1>9, <1>10, <1>11, <1>13, <1>14,
     <1>15, <1>16, <1>17 DEF Next, Run, Body, Caller

-----------------------------------------------------------------------------
(***************************************************************************)
(* In a serial program the chaser and the coroutine meet on one executor,  *)
(* which runs one handler at a time.                                       *)
(***************************************************************************)
LEMMA ChaserAtHomeQueues ==
  ASSUME NEW q \in [Executors -> Seq(Handlers)], NEW e \in Executors,
         NEW h \in Handlers, ChaserAtHome(q),
         h \notin Chasers \/ h = AbortChaser(e)
  PROVE  ChaserAtHome(Post(q, e, h))
<1> DEFINE p == Post(q, e, h)
<1>1. \A c \in Executors : In(p, c) = IF c = e THEN In(q, c) \cup {h}
                                     ELSE In(q, c)
  BY PostFacts
<1> HIDE DEF p
<1>2. ASSUME NEW c \in Executors, NEW f \in Executors,
             AbortChaser(f) \in In(p, c)
      PROVE  f = c
  <2>1. CASE AbortChaser(f) \in In(q, c)
    BY <2>1 DEF ChaserAtHome
  <2>2. CASE c = e /\ AbortChaser(f) = h
    BY <2>2, HandlerFacts
  <2> QED  BY <1>1, <1>2, <2>1, <2>2
<1> QED
  BY <1>2 DEF ChaserAtHome, p

\* request_task_resume leaves the AbortChaser where it is.
LEMMA RequestTaskResumeAtHome ==
  ASSUME TypeOK, NEW q \in [Executors -> Seq(Handlers)], ChaserAtHome(q),
         RequestTaskResume(q)
  PROVE  ChaserAtHome(queue')
<1>1. ASSUME NEW a \in Awaiters
      PROVE  ChaserAtHome(Post(q, AwaitOn[a], DoResume(a)))
  <2>1. /\ AwaitOn[a] \in Executors /\ DoResume(a) \in Handlers
        /\ DoResume(a) \notin Chasers
    BY TaskAssumption, HandlerFacts
  <2> QED  BY <2>1, ChaserAtHomeQueues
<1> QED
  BY <1>1, RequestTaskResumePosts

\* A new task is where curr_runner_ says.
LEMMA SerialInit == Init => SerialInv
<1> SUFFICES ASSUME Init PROVE SerialInv
  OBVIOUS
<1> DEFINE empty == [e \in Executors |-> <<>>]
<1>1. empty \in [Executors -> Seq(Handlers)] /\ ChaserAtHome(empty)
  BY DEF In, ChaserAtHome
<1> HIDE DEF empty
<1>2. ChaserAtHome(Post(empty, Home, Resume))
  BY <1>1, ChaserAtHomeQueues, HandlerFacts, TaskAssumption
<1> QED
  BY <1>2 DEF Init, SerialInv, Alive, empty

\* In a serial program every step keeps the coroutine where curr_runner_
\* says, and the AbortChaser on the executor it compares with.
LEMMA SerialStep ==
  ASSUME SerialProgram
  PROVE  Inv /\ TokenInv /\ SerialInv /\ [Next]_vars => SerialInv'
<1> SUFFICES ASSUME Inv, TokenInv, SerialInv, [Next]_vars PROVE SerialInv'
  OBVIOUS
<1>0. /\ TypeOK /\ queue \in [Executors -> Seq(Handlers)]
      /\ currRunner \in Executors /\ at \in Executors
      /\ entry <=> frame \in Alive
      /\ frame \in Alive => at = currRunner
      /\ ChaserAtHome(queue)
      /\ fault # "destroyed_running"
  BY DEF Inv, TypeOK, StateInv, SerialInv
<1>1. ASSUME NEW e \in Executors, queue[e] # <<>>
      PROVE  /\ Popped(e) \in [Executors -> Seq(Handlers)]
             /\ ChaserAtHome(Popped(e))
  BY <1>0, <1>1, PopFacts DEF ChaserAtHome
<1>2. ASSUME NEW e \in Executors, RunResume(e) \/ RunGuardedResume(e)
      PROVE  SerialInv'
  <2>1. /\ queue[e] # <<>> /\ Head(queue[e]) \in Resumers
        /\ queue' = Popped(e) /\ UNCHANGED currRunner
        /\ fault' # "destroyed_running"
    BY <1>0, <1>2
       DEF RunResume, RunGuardedResume, Start, Takes, Resumers, shared
  <2>2. frame = "queued" => at = e
    BY <1>0, <2>1, PopFacts DEF TokenInv, Tokens
  <2>3. (frame = "queued" /\ frame' = "running" /\ at' = e)
        \/ UNCHANGED <<frame, at>>
    BY <1>2 DEF RunResume, RunGuardedResume, Start
  <2>4. frame' \in Alive => at' = currRunner'
    BY <1>0, <2>1, <2>2, <2>3 DEF Alive
  <2> QED  BY <1>1, <2>1, <2>4 DEF SerialInv
<1>3. ASSUME NEW e \in Executors, NEW prev \in Executors,
             RunAbortChaser(e, prev)
      PROVE  SerialInv'
  <2>1. /\ queue[e] # <<>> /\ Head(queue[e]) = AbortChaser(prev) /\ Free(e)
        /\ UNCHANGED <<at, currRunner>>
    BY <1>3 DEF RunAbortChaser, Takes
  <2>2. prev = e
    BY <1>0, <2>1, PopFacts DEF ChaserAtHome
  <2>3. CASE ~entry
    <3>1. queue' = Popped(e) /\ UNCHANGED <<frame, fault>>
      BY <1>3, <2>3 DEF RunAbortChaser
    <3> QED  BY <1>0, <1>1, <2>1, <3>1 DEF SerialInv
  <2>4. CASE entry /\ currRunner # prev
    <3>1. /\ queue' = Post(Popped(e), currRunner, AbortChaser(currRunner))
          /\ UNCHANGED <<frame, fault>>
      BY <1>3, <2>4 DEF RunAbortChaser
    <3>2. ChaserAtHome(Post(Popped(e), currRunner, AbortChaser(currRunner)))
      BY <1>0, <1>1, <2>1, ChaserAtHomeQueues, HandlerFacts
    <3> QED  BY <1>0, <2>1, <3>1, <3>2 DEF SerialInv
  <2>5. CASE entry /\ currRunner = prev
    <3>1. /\ frame' = "destroyed" /\ RequestTaskResume(Popped(e))
          /\ fault' = IF frame = "running" THEN "destroyed_running" ELSE fault
      BY <1>3, <2>5 DEF RunAbortChaser
    <3>2. frame # "running"
      BY <1>0, <2>1, <2>2, <2>5 DEF Free, SerialProgram
    <3>3. ChaserAtHome(queue')
      BY <1>0, <1>1, <2>1, <3>1, RequestTaskResumeAtHome
    <3> QED  BY <1>0, <3>1, <3>2, <3>3 DEF SerialInv, Alive
  <2> QED  BY <2>3, <2>4, <2>5
<1>4. ASSUME NEW e \in Executors, NEW a \in Awaiters, RunDoResume(e, a)
      PROVE  SerialInv'
  <2>1. /\ queue[e] # <<>> /\ queue' = Popped(e)
        /\ UNCHANGED <<frame, at, currRunner, fault>>
    BY <1>4 DEF RunDoResume, Takes
  <2> QED  BY <1>0, <1>1, <2>1 DEF SerialInv
<1>5. CASE Yield
  <2>1. ChaserAtHome(Post(queue, currRunner, GuardedResume))
    BY <1>0, ChaserAtHomeQueues, HandlerFacts
  <2> QED  BY <1>0, <1>5, <2>1 DEF Yield, SerialInv, shared
<1>6. ASSUME NEW f \in Executors, Suspend(f) PROVE SerialInv'
  BY <1>0, <1>6 DEF Suspend, SerialInv, SerialProgram, shared
<1>7. CASE Complete
  <2>1. ChaserAtHome(Post(queue, at, GuardedResume))
    BY <1>0, ChaserAtHomeQueues, HandlerFacts
  <2> QED  BY <1>0, <1>7, <2>1 DEF Complete, SerialInv, Alive, shared
<1>8. ASSUME NEW f \in Executors, Roam(f) PROVE SerialInv'
  <2>1. ChaserAtHome(Post(queue, f, Resume))
    BY <1>0, ChaserAtHomeQueues, HandlerFacts
  <2> QED  BY <1>0, <1>8, <2>1 DEF Roam, SerialInv
<1>9. ASSUME NEW r \in Results, Finish(r) PROVE SerialInv'
  <2>1. ChaserAtHome(queue')
    BY <1>0, <1>9, RequestTaskResumeAtHome DEF Finish
  <2> QED  BY <1>0, <1>9, <2>1 DEF Finish, SerialInv, Alive
<1>10. CASE Exit
  BY <1>0, <1>10 DEF Exit, SerialInv, Alive, shared
<1>11. ASSUME NEW a \in Awaiters, Await(a) \/ DropAwait(a) PROVE SerialInv'
  BY <1>0, <1>11 DEF Await, DropAwait, SerialInv, shared
<1>12. ASSUME RequestAbort PROVE ChaserAtHome(queue')
  <2>1. ChaserAtHome(Post(queue, currRunner, AbortChaser(currRunner)))
    BY <1>0, ChaserAtHomeQueues, HandlerFacts
  <2> QED  BY <1>0, <1>12, <2>1, RequestAbortPosts
<1>13. CASE Abort
  BY <1>0, <1>12, <1>13 DEF Abort, SerialInv
<1>14. CASE DestroyTask
  BY <1>0, <1>12, <1>14 DEF DestroyTask, SerialInv
<1>15. CASE Detach \/ GetResult
  BY <1>0, <1>15 DEF Detach, GetResult, SerialInv, shared
<1>16. CASE UNCHANGED vars
  BY <1>0, <1>16 DEF vars, SerialInv, shared
<1> QED
  BY <1>2, <1>3, <1>4, <1>5, <1>6, <1>7, <1>8, <1>9, <1>10, <1>11, <1>13,
     <1>14, <1>15, <1>16 DEF Next, Run, Body, Caller

(***************************************************************************)
(* A serial program never has a coroutine destroyed under a running        *)
(* thread, wherever it roams.                                              *)
(***************************************************************************)
THEOREM SerialSafe ==
  ASSUME SerialProgram
  PROVE  Spec => []NoRunningDestroy
<1>1. Init => Inv /\ TokenInv /\ SerialInv
  BY InvInit, TokenInit, SerialInit
<1>2. (Inv /\ TokenInv /\ SerialInv) /\ [Next]_vars
        => (Inv /\ TokenInv /\ SerialInv)'
  BY InvStep, TokenStep, SerialStep DEF Inv
<1>3. SerialInv => NoRunningDestroy
  BY DEF SerialInv, NoRunningDestroy
<1> QED
  BY <1>1, <1>2, <1>3, PTL DEF Spec

-----------------------------------------------------------------------------
(***************************************************************************)
(* In a serial program that never roams back, a bare resume is always in   *)
(* front of the chaser that could destroy its frame.                       *)
(***************************************************************************)
LEMMA PostOrdered ==
  ASSUME NEW q \in [Executors -> Seq(Handlers)], NEW e \in Executors,
         NEW h \in Handlers, NEW seen, Ordered(q, seen), e \in seen,
         h = Resume => In(q, e) \cap Chasers = {}
  PROVE  Ordered(Post(q, e, h), seen)
<1> DEFINE p == Post(q, e, h)
<1>1. \A c \in Executors : In(p, c) = IF c = e THEN In(q, c) \cup {h}
                                     ELSE In(q, c)
  BY PostFacts
<1>2. ResumeFirst(p)
  BY PostOrder DEF Ordered
<1> HIDE DEF p
<1>3. ASSUME NEW c \in Executors, In(p, c) \cap Chasers # {}
      PROVE  c \in seen
  BY <1>1, <1>3 DEF Ordered
<1> QED
  BY <1>2, <1>3 DEF Ordered, p

\* A wake-up may go to any executor.
LEMMA PostOrderedWaker ==
  ASSUME NEW q \in [Executors -> Seq(Handlers)], NEW e \in Executors,
         NEW a \in Awaiters, NEW seen, NEW f,
         Ordered(q, seen), BareQueued(q, f)
  PROVE  /\ Ordered(Post(q, e, DoResume(a)), seen)
         /\ BareQueued(Post(q, e, DoResume(a)), f)
<1> DEFINE h == DoResume(a)
           p == Post(q, e, h)
<1>1. h \in Handlers /\ h \notin Chasers /\ h # Resume
  BY HandlerFacts DEF Resumers
<1> HIDE DEF h
<1>2. \A c \in Executors : In(p, c) = IF c = e THEN In(q, c) \cup {h}
                                     ELSE In(q, c)
  BY <1>1, PostFacts
<1>3. ResumeFirst(p)
  BY <1>1, PostOrder DEF Ordered
<1> HIDE DEF p
<1>4. ASSUME NEW c \in Executors, In(p, c) \cap Chasers # {}
      PROVE  c \in seen
  BY <1>1, <1>2, <1>4 DEF Ordered
<1>5. ASSUME NEW c \in Executors, Resume \in In(p, c)
      PROVE  f = "queued"
  BY <1>1, <1>2, <1>5 DEF BareQueued
<1> QED
  BY <1>3, <1>4, <1>5 DEF Ordered, BareQueued, p, h

\* request_task_resume keeps bare resumes in front of AbortChasers.
LEMMA RequestTaskResumeOrdered ==
  ASSUME TypeOK, NEW q \in [Executors -> Seq(Handlers)], NEW seen, NEW f,
         Ordered(q, seen), BareQueued(q, f), RequestTaskResume(q)
  PROVE  Ordered(queue', seen) /\ BareQueued(queue', f)
<1>1. ASSUME NEW a \in Awaiters
      PROVE  /\ Ordered(Post(q, AwaitOn[a], DoResume(a)), seen)
             /\ BareQueued(Post(q, AwaitOn[a], DoResume(a)), f)
  <2>1. AwaitOn[a] \in Executors
    BY TaskAssumption
  <2> QED  BY <2>1, PostOrderedWaker
<1> QED
  BY <1>1, RequestTaskResumePosts

\* Only posting a bare resume makes one queued.
LEMMA PostBare ==
  ASSUME NEW q \in [Executors -> Seq(Handlers)], NEW e \in Executors,
         NEW h \in Handlers, NEW f, BareQueued(q, f),
         h = Resume => f = "queued"
  PROVE  BareQueued(Post(q, e, h), f)
<1> DEFINE p == Post(q, e, h)
<1>1. \A c \in Executors : In(p, c) = IF c = e THEN In(q, c) \cup {h}
                                     ELSE In(q, c)
  BY PostFacts
<1> HIDE DEF p
<1>2. ASSUME NEW c \in Executors, Resume \in In(p, c)
      PROVE  f = "queued"
  BY <1>1, <1>2 DEF BareQueued
<1> QED
  BY <1>2 DEF BareQueued, p

\* Running a handler keeps bare resumes in front of AbortChasers and the
\* frame they resume alive.
LEMMA PopOrdered ==
  ASSUME queue \in [Executors -> Seq(Handlers)], NEW e \in Executors,
         queue[e] # <<>>, NEW seen, NEW f, Ordered(queue, seen),
         BareQueued(queue, f)
  PROVE  /\ Popped(e) \in [Executors -> Seq(Handlers)]
         /\ Ordered(Popped(e), seen)
         /\ BareQueued(Popped(e), f)
<1>1. \A c \in Executors : In(Popped(e), c) \subseteq In(queue, c)
  BY PopFacts
<1>2. ResumeFirst(Popped(e))
  BY PopOrder DEF Ordered
<1> QED
  BY <1>1, <1>2, PopFacts DEF Ordered, BareQueued

\* A new task has its bare resume queued and no AbortChaser.
LEMMA OrderInit == Init => OrderInv
<1> SUFFICES ASSUME Init PROVE OrderInv
  OBVIOUS
<1> DEFINE empty == [e \in Executors |-> <<>>]
<1>1. /\ empty \in [Executors -> Seq(Handlers)]
      /\ \A e \in Executors : In(empty, e) = {}
  BY DEF In
<1>2. Ordered(empty, {Home}) /\ BareQueued(empty, "queued")
  BY <1>1 DEF Ordered, BareQueued, ResumeFirst
<1>3. In(empty, Home) \cap Chasers = {}
  BY <1>1, TaskAssumption
<1> HIDE DEF empty
<1>4. /\ Ordered(Post(empty, Home, Resume), {Home})
      /\ BareQueued(Post(empty, Home, Resume), "queued")
  BY <1>1, <1>2, <1>3, PostOrdered, PostBare, HandlerFacts, TaskAssumption
<1> QED
  BY <1>4 DEF Init, OrderInv, empty

\* In a serial program that never roams back every step keeps bare resumes
\* in front of AbortChasers.
LEMMA OrderStep ==
  ASSUME SerialProgram, ~Revisit
  PROVE  Inv /\ TokenInv /\ SerialInv /\ OrderInv /\ [Next]_vars => OrderInv'
<1> SUFFICES ASSUME Inv, TokenInv, SerialInv, OrderInv, [Next]_vars
             PROVE  OrderInv'
  OBVIOUS
<1>0. /\ TypeOK /\ queue \in [Executors -> Seq(Handlers)]
      /\ currRunner \in Executors /\ at \in Executors
      /\ entry <=> frame \in Alive
      /\ frame \in Alive => at = currRunner
      /\ currRunner \in visited /\ Ordered(queue, visited)
      /\ BareQueued(queue, frame) /\ fault # "resumed_dead"
  BY DEF Inv, TypeOK, StateInv, SerialInv, OrderInv
<1>1. ASSUME frame # "queued", NEW f PROVE BareQueued(queue, f)
  BY <1>0, <1>1 DEF BareQueued
<1>2. ASSUME NEW e \in Executors, RunResume(e) \/ RunGuardedResume(e)
      PROVE  OrderInv'
  <2>1. /\ queue[e] # <<>> /\ Head(queue[e]) \in Resumers
        /\ queue' = Popped(e) /\ UNCHANGED <<currRunner, visited>>
    BY <1>2 DEF RunResume, RunGuardedResume, Start, Takes, Resumers, shared
  <2>2. Ordered(Popped(e), visited)
    BY <1>0, <2>1, PopOrdered
  <2>3. \A c \in Executors : In(Popped(e), c) \cap Resumers = {}
    BY <1>0, <2>1, PopOne DEF TokenInv, Tokens
  <2>4. BareQueued(Popped(e), frame')
    BY <2>3 DEF BareQueued, Resumers
  <2>5. RunResume(e) => frame = "queued"
    <3>1. Head(queue[e]) \in In(queue, e)
      BY <1>0, <2>1, PopFacts
    <3> QED  BY <1>0, <3>1 DEF RunResume, Takes, BareQueued
  <2>6. fault' # "resumed_dead"
    BY <1>0, <1>2, <2>5 DEF RunResume, RunGuardedResume, Start
  <2> QED  BY <1>0, <2>1, <2>2, <2>4, <2>6 DEF OrderInv
<1>3. ASSUME NEW e \in Executors, NEW prev \in Executors,
             RunAbortChaser(e, prev)
      PROVE  OrderInv'
  <2>1. /\ queue[e] # <<>> /\ Head(queue[e]) = AbortChaser(prev)
        /\ AbortChaser(prev) \in Chasers
        /\ UNCHANGED <<at, currRunner, visited>>
    BY <1>3, HandlerFacts DEF RunAbortChaser, Takes
  <2>2. /\ Popped(e) \in [Executors -> Seq(Handlers)]
        /\ Ordered(Popped(e), visited) /\ BareQueued(Popped(e), frame)
    BY <1>0, <2>1, PopOrdered
  <2>3. CASE ~entry
    <3>1. queue' = Popped(e) /\ UNCHANGED <<frame, fault>>
      BY <1>3, <2>3 DEF RunAbortChaser
    <3> QED  BY <1>0, <2>1, <2>2, <3>1 DEF OrderInv
  <2>4. CASE entry /\ currRunner # prev
    <3>1. /\ queue' = Post(Popped(e), currRunner, AbortChaser(currRunner))
          /\ UNCHANGED <<frame, fault>>
      BY <1>3, <2>4 DEF RunAbortChaser
    <3>2. /\ AbortChaser(currRunner) \in Handlers
          /\ AbortChaser(currRunner) # Resume
      BY <1>0, HandlerFacts
    <3>3. /\ Ordered(queue', visited)
          /\ BareQueued(queue', frame)
      BY <1>0, <2>2, <3>1, <3>2, PostOrdered, PostBare
    <3> QED  BY <1>0, <2>1, <3>1, <3>3 DEF OrderInv
  <2>5. CASE entry /\ currRunner = prev
    <3>1. /\ frame' = "destroyed" /\ RequestTaskResume(Popped(e))
          /\ fault' = IF frame = "running" THEN "destroyed_running" ELSE fault
      BY <1>3, <2>5 DEF RunAbortChaser
    <3>2. prev = e /\ at = e
      BY <1>0, <2>1, <2>5, PopFacts DEF SerialInv, ChaserAtHome
    <3>3. Resume \notin In(queue, e)
      BY <1>0, <2>1, PopOrder DEF Ordered
    <3>4. ASSUME NEW c \in Executors, Resume \in In(queue, c)
          PROVE  FALSE
      <4>1. c = at
        BY <1>0, <3>4 DEF TokenInv, Tokens, BareQueued, Resumers
      <4> QED  BY <3>2, <3>3, <3>4, <4>1
    <3>5. BareQueued(Popped(e), "destroyed")
      BY <1>0, <2>1, <3>4, PopFacts DEF BareQueued
    <3>6. Ordered(queue', visited) /\ BareQueued(queue', "destroyed")
      BY <1>0, <2>2, <3>1, <3>5, RequestTaskResumeOrdered
    <3> QED  BY <1>0, <2>1, <3>1, <3>6 DEF OrderInv
  <2> QED  BY <2>3, <2>4, <2>5
<1>4. ASSUME NEW e \in Executors, NEW a \in Awaiters, RunDoResume(e, a)
      PROVE  OrderInv'
  <2>1. /\ queue[e] # <<>> /\ queue' = Popped(e)
        /\ UNCHANGED <<frame, currRunner, visited, fault>>
    BY <1>4 DEF RunDoResume, Takes
  <2> QED  BY <1>0, <2>1, PopOrdered DEF OrderInv
<1>5. CASE Yield
  <2>1. BareQueued(queue, "queued")
    BY <1>1, <1>5 DEF Yield
  <2>2. /\ Ordered(Post(queue, currRunner, GuardedResume), visited)
        /\ BareQueued(Post(queue, currRunner, GuardedResume), "queued")
    BY <1>0, <2>1, PostOrdered, PostBare, HandlerFacts
  <2> QED  BY <1>0, <1>5, <2>2 DEF Yield, OrderInv, shared
<1>6. ASSUME NEW f \in Executors, Suspend(f) PROVE OrderInv'
  BY <1>0, <1>1, <1>6 DEF Suspend, OrderInv, shared
<1>7. CASE Complete
  <2>1. BareQueued(queue, "queued") /\ at = currRunner
    BY <1>0, <1>1, <1>7 DEF Complete, Alive
  <2>2. /\ Ordered(Post(queue, at, GuardedResume), visited)
        /\ BareQueued(Post(queue, at, GuardedResume), "queued")
    BY <1>0, <2>1, PostOrdered, PostBare, HandlerFacts
  <2> QED  BY <1>0, <1>7, <2>2 DEF Complete, OrderInv, shared
<1>8. ASSUME NEW f \in Executors, Roam(f) PROVE OrderInv'
  <2>1. /\ frame = "running" /\ f \notin visited
        /\ queue' = Post(queue, f, Resume) /\ frame' = "queued"
        /\ currRunner' = f /\ visited' = visited \cup {f} /\ UNCHANGED fault
    BY <1>8 DEF Roam
  <2>2. BareQueued(queue, "queued") /\ In(queue, f) \cap Chasers = {}
    BY <1>0, <1>1, <2>1 DEF Ordered
  <2>3. Ordered(queue, visited')
    BY <1>0, <2>1 DEF Ordered
  <2>4. /\ Ordered(Post(queue, f, Resume), visited')
        /\ BareQueued(Post(queue, f, Resume), "queued")
    <3>1. f \in visited' /\ Resume \in Handlers
      BY <2>1, HandlerFacts
    <3>2. Ordered(Post(queue, f, Resume), visited')
      BY <1>0, <2>2, <2>3, <3>1, PostOrdered
    <3>3. BareQueued(Post(queue, f, Resume), "queued")
      BY <1>0, <2>2, <3>1, PostBare
    <3> QED  BY <3>2, <3>3
  <2> QED  BY <1>0, <2>1, <2>4 DEF OrderInv
<1>9. ASSUME NEW r \in Results, Finish(r) PROVE OrderInv'
  <2>1. /\ frame = "running" /\ frame' = "exiting" /\ RequestTaskResume(queue)
        /\ UNCHANGED <<currRunner, visited, fault>>
    BY <1>9 DEF Finish
  <2>2. BareQueued(queue, "exiting")
    BY <1>1, <2>1
  <2>3. Ordered(queue', visited) /\ BareQueued(queue', "exiting")
    BY <1>0, <2>1, <2>2, RequestTaskResumeOrdered
  <2> QED  BY <1>0, <2>1, <2>3 DEF OrderInv
<1>10. CASE Exit
  BY <1>0, <1>1, <1>10 DEF Exit, OrderInv, shared
<1>11. ASSUME UNCHANGED <<queue, frame, currRunner, visited, fault>>
       PROVE  OrderInv'
  BY <1>0, <1>11 DEF OrderInv
<1>12. ASSUME NEW a \in Awaiters, Await(a) \/ DropAwait(a) PROVE OrderInv'
  BY <1>11, <1>12 DEF Await, DropAwait, shared
<1>13. ASSUME RequestAbort, UNCHANGED <<frame, currRunner, visited, fault>>
       PROVE  OrderInv'
  <2>1. /\ AbortChaser(currRunner) \in Handlers
        /\ AbortChaser(currRunner) # Resume
    BY <1>0, HandlerFacts
  <2>2. /\ Ordered(Post(queue, currRunner, AbortChaser(currRunner)), visited)
        /\ BareQueued(Post(queue, currRunner, AbortChaser(currRunner)), frame)
    BY <1>0, <2>1, PostOrdered, PostBare
  <2> QED  BY <1>0, <1>13, <2>2, RequestAbortPosts DEF OrderInv
<1>14. CASE Abort
  BY <1>13, <1>14 DEF Abort
<1>15. CASE DestroyTask
  BY <1>11, <1>13, <1>15 DEF DestroyTask
<1>16. CASE Detach \/ GetResult
  BY <1>11, <1>16 DEF Detach, GetResult, shared
<1>17. CASE UNCHANGED vars
  BY <1>11, <1>17 DEF vars, shared
<1> QED
  BY <1>2, <1>3, <1>4, <1>5, <1>6, <1>7, <1>8, <1>9, <1>10, <1>12, <1>14,
     <1>15, <1>16, <1>17 DEF Next, Run, Body, Caller

(***************************************************************************)
(* A serial program whose tasks never roam back to an executor they have   *)
(* left never resumes a destroyed coroutine.                               *)
(***************************************************************************)
THEOREM OneWaySafe ==
  ASSUME SerialProgram, ~Revisit
  PROVE  Spec => []NoDeadResume
<1> DEFINE All == Inv /\ TokenInv /\ SerialInv /\ OrderInv
<1>1. Init => All
  BY InvInit, TokenInit, SerialInit, OrderInit
<1>2. All /\ [Next]_vars => All'
  BY InvStep, TokenStep, SerialStep, OrderStep DEF Inv
<1>3. All => NoDeadResume
  BY DEF OrderInv, NoDeadResume
<1> QED
  BY <1>1, <1>2, <1>3, PTL DEF Spec
=============================================================================
