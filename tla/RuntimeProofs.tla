---------------------------- MODULE RuntimeProofs ----------------------------
(***************************************************************************)
(* Proofs about Runtime for any number of tasks, workers and strands and   *)
(* for every program.                                                      *)
(***************************************************************************)
EXTENDS Runtime, QueueFacts, FiniteSetTheorems

InBody == {"body", "ending", "block"}
Holding == {"unlock", "destroy"}

\* What a worker does says how far the coroutine is, where it is, and who
\* holds its mutex.
JobOf(w) ==
  /\ job[w].kind \in InBody => frame[job[w].task] = "running"
  /\ job[w].kind = "exit" => frame[job[w].task] = "exiting"
  /\ job[w].kind = "destroy" => frame[job[w].task] = "destroying"
  /\ job[w].kind \in InBody \cup {"exit"} =>
       job[w].on = runner[job[w].task].executor
  /\ job[w].kind \in Holding => mutex[job[w].task] = w

JobInv == \A w \in Workers : JobOf(w)

\* Tasks are on executors that run one handler at a time, and these do, on
\* the threads of the pool they are over.
SerialInv ==
  /\ \A t \in Tasks : Serial(runner[t].executor)
  /\ \A w, v \in Workers :
       /\ job[w].kind # "idle" /\ job[v].kind # "idle"
       /\ job[w].on = job[v].on /\ Serial(job[w].on)
       => w = v
  /\ \A w \in Workers : job[w].kind # "idle" => w \in ThreadsOf(Over(job[w].on))

\* The handlers that resume t, and whether one of them is in the queue q.
Resumptions(t) == {Resume(t), GuardedResume(t)}
Wakes(q, t) == Elements(q) \cap Resumptions(t) # {}

\* A coroutine is resumed where its task is, once; a handler that would
\* resume it again was left behind by its destruction.
QueueInv ==
  \A t \in Tasks, e \in Executors :
    /\ OneOf(queue[e], Resumptions(t))
    /\ Wakes(queue[e], t) =>
         /\ frame[t] \in {"queued", "destroying", "gone"}
         /\ frame[t] = "queued" => e = runner[t].executor

EntryInv ==
  \A t \in Tasks :
    t \in entry <=> frame[t] \in {"queued", "running", "parked", "destroying"}

\* Tasks are in frames that exist.
OwnInv ==
  \A t \in Tasks : owner[t] \in Tasks => frame[owner[t]] \notin {"none", "gone"}

Inv == TypeOK /\ JobInv /\ SerialInv /\ QueueInv /\ EntryInv /\ OwnInv

\* A promise that is set has its coroutine at the end.
Ending(t) == \E w \in Workers : job[w].task = t /\ job[w].kind \in {"ending", "exit"}

RootInv ==
  /\ future[Root] = "set" => frame[Root] = "gone" \/ Ending(Root)
  /\ caller # "blocked" => future[Root] = "set"
  /\ caller = "returned" /\ Over(runner[Root].executor) = Pool
       => frame[Root] = "gone"

\* A task that is roaming is alive: it needs its mutex to end.
LockInv ==
  /\ \A w \in Workers : Does(w, "unlock") =>
       /\ program.places # {}
       /\ frame[job[w].task] \in {"queued", "running", "parked"}
  /\ \A t \in Tasks : owner[t] = "background" => "background" \in program.uses

\* A task whose Task was destroyed was asked to end, and one that was asked is
\* pursued until it has; there is nothing to ask of one not spawned yet.
AskInv ==
  \A t \in Tasks :
    /\ t \in entry /\ owner[t] = "destroyed" => t \in asked
    /\ t \in entry /\ t \in asked => Chased(t)
    /\ frame[t] = "none" => owner[t] = None /\ t \notin asked

\* No task is in its own frame, at any depth.
Forest ==
  \A S \in (SUBSET Tasks) \ {{}} : \E t \in S : \A u \in S : owner[u] # t

-----------------------------------------------------------------------------
\* What a step may do to the posted coroutines: nothing but run one ...
KeepsResumes ==
  /\ queue' \in [Executors -> Seq(Handlers)]
  /\ \A t \in Tasks, e \in Executors :
       /\ OneOf(queue'[e], Resumptions(t))
       /\ Wakes(queue'[e], t) => Wakes(queue[e], t)

\* ... or post one.
PostsResume(u, f) ==
  /\ queue' \in [Executors -> Seq(Handlers)]
  /\ \A t \in Tasks, e \in Executors :
       /\ OneOf(queue'[e], Resumptions(t))
       /\ Wakes(queue'[e], t) => Wakes(queue[e], t) \/ (t = u /\ e = f)

LEMMA HandlerFacts ==
  /\ \A t \in Tasks : Resumptions(t) \subseteq Handlers /\ AbortChaser(t) \in Handlers
  /\ \A t, u : AbortChaser(u) \notin Resumptions(t)
  /\ \A t, u : Resumptions(t) \cap Resumptions(u) # {} => t = u
  /\ \A t, u : AbortChaser(t) = AbortChaser(u) => t = u
<1>1. \A t \in Tasks :
        /\ Resume(t) \in Handlers /\ GuardedResume(t) \in Handlers
        /\ AbortChaser(t) \in Handlers
  BY DEF Handlers
<1>2. \A t : /\ Resume(t).task = t /\ Resume(t).kind = "resume"
             /\ GuardedResume(t).task = t /\ GuardedResume(t).kind = "guarded"
             /\ AbortChaser(t).task = t /\ AbortChaser(t).kind = "chaser"
  BY DEF Resume, GuardedResume, AbortChaser
<1>3. \A t : \A h \in Resumptions(t) : h.task = t /\ h.kind # "chaser"
  BY <1>2 DEF Resumptions
<1> QED
  BY <1>1, <1>2, <1>3 DEF Resumptions

\* The executors, and the SerialRunners there are of them.
LEMMA StrandFacts ==
  /\ Pools \subseteq Executors /\ Pool \in Pools
  /\ \A k \in Pools, t \in Tasks : Strand(k, t) \in Executors \ Pools
  /\ \A e \in Executors \ Pools : e.over \in Pools
  /\ Places \subseteq Runners
<1>1. \A k, t : Strand(k, t).over = k
  BY DEF Strand
<1>2. \A k \in Pools, t \in Tasks : Strand(k, t) \in Executors \ Pools
  BY RuntimeAssumption DEF Executors, Strands
<1>3. ASSUME NEW r \in Places
      PROVE  /\ r \in Runners
             /\ r.executor \notin Pools => r.executor.over \in Pools
  <2>1. r.executor \in Executors
    BY DEF Executors
  <2>2. CASE r = Plain(r.executor)
    BY <2>1, <2>2, RuntimeAssumption DEF Runners, IsStrand
  <2>3. CASE r = OfStrand(r.executor) /\ r.executor \notin Pools
    BY <2>1, <2>3, RuntimeAssumption DEF Runners, IsStrand
  <2> QED  BY <2>2, <2>3, RuntimeAssumption
<1>4. ASSUME NEW e \in Executors \ Pools PROVE e.over \in Pools
  BY <1>1, <1>3 DEF Executors, Strands
<1> QED
  BY <1>2, <1>3, <1>4 DEF Executors, Pools

LEMMA RunnersFacts ==
  ASSUME NEW r \in Runners
  PROVE  /\ r.executor \in Executors
         /\ r.inner = r.executor \/ r.inner \in Pools
<1>1. CASE \E e \in Executors : r = Plain(e)
  BY <1>1 DEF Plain
<1>2. CASE \E s \in Executors \ Pools : r = OfStrand(s)
  BY <1>2, StrandFacts DEF OfStrand
<1> QED
  BY <1>1, <1>2 DEF Runners

\* asio::post of a handler.
LEMMA PostFacts ==
  ASSUME TypeOK, QueueInv, NEW f \in Executors, NEW h \in Handlers,
         \A t \in Tasks : h \in Resumptions(t) => ~Wakes(queue[f], t),
         queue' = Post(queue, f, h)
  PROVE  /\ queue' \in [Executors -> Seq(Handlers)]
         /\ \A t \in Tasks, e \in Executors :
              /\ OneOf(queue'[e], Resumptions(t))
              /\ Wakes(queue'[e], t)
                   => Wakes(queue[e], t) \/ (h \in Resumptions(t) /\ e = f)
<1>1. /\ queue \in [Executors -> Seq(Handlers)] /\ queue[f] \in Seq(Handlers)
      /\ queue' = [queue EXCEPT ![f] = Append(queue[f], h)]
  BY DEF TypeOK, Post
<1>2. /\ Append(queue[f], h) \in Seq(Handlers)
      /\ Elements(Append(queue[f], h)) = Elements(queue[f]) \cup {h}
  BY <1>1, AppendFacts
<1>3. ASSUME NEW t \in Tasks PROVE OneOf(Append(queue[f], h), Resumptions(t))
  <2>1. OneOf(queue[f], Resumptions(t))
    BY DEF QueueInv
  <2>2. h \in Resumptions(t) => Elements(queue[f]) \cap Resumptions(t) = {}
    BY DEF Wakes
  <2> QED  BY <1>1, <2>1, <2>2, AppendFacts
<1>4. /\ queue' \in [Executors -> Seq(Handlers)]
      /\ queue'[f] = Append(queue[f], h)
      /\ \A e \in Executors \ {f} : queue'[e] = queue[e]
  BY <1>1, <1>2
<1>5. ASSUME NEW t \in Tasks, NEW e \in Executors
      PROVE  /\ OneOf(queue'[e], Resumptions(t))
             /\ Wakes(queue'[e], t)
                  => Wakes(queue[e], t) \/ (h \in Resumptions(t) /\ e = f)
  <2>1. CASE e = f
    BY <1>2, <1>3, <1>4, <2>1 DEF Wakes
  <2>2. CASE e # f
    BY <1>4, <2>2 DEF QueueInv
  <2> QED  BY <2>1, <2>2
<1> QED
  BY <1>4, <1>5

LEMMA PostResume ==
  ASSUME TypeOK, QueueInv, NEW f \in Executors, NEW u \in Tasks,
         frame[u] \notin {"queued", "destroying", "gone"},
         NEW h \in Resumptions(u), queue' = Post(queue, f, h)
  PROVE  PostsResume(u, f)
<1>1. /\ ~Wakes(queue[f], u) /\ h \in Handlers
      /\ \A t \in Tasks : h \in Resumptions(t) => t = u
  BY HandlerFacts DEF QueueInv
<1>2. \A t \in Tasks : h \in Resumptions(t) => ~Wakes(queue[f], t)
  BY <1>1
<1>3. /\ queue' \in [Executors -> Seq(Handlers)]
      /\ \A t \in Tasks, e \in Executors :
           /\ OneOf(queue'[e], Resumptions(t))
           /\ Wakes(queue'[e], t)
                => Wakes(queue[e], t) \/ (h \in Resumptions(t) /\ e = f)
  BY <1>1, <1>2, PostFacts
<1> QED
  BY <1>1, <1>3 DEF PostsResume

LEMMA PostChaser ==
  ASSUME TypeOK, QueueInv, NEW f \in Executors, NEW u \in Tasks,
         queue' = Post(queue, f, AbortChaser(u))
  PROVE  KeepsResumes
<1>1. AbortChaser(u) \in Handlers /\ \A t : AbortChaser(u) \notin Resumptions(t)
  BY HandlerFacts
<1>2. /\ queue' \in [Executors -> Seq(Handlers)]
      /\ \A t \in Tasks, e \in Executors :
           /\ OneOf(queue'[e], Resumptions(t))
           /\ Wakes(queue'[e], t)
                => Wakes(queue[e], t) \/ (AbortChaser(u) \in Resumptions(t) /\ e = f)
  BY <1>1, PostFacts
<1> QED
  BY <1>1, <1>2 DEF KeepsResumes

LEMMA SameResumes ==
  ASSUME TypeOK, QueueInv, queue' = queue
  PROVE  KeepsResumes
BY DEF TypeOK, QueueInv, KeepsResumes

\* A worker takes the first handler.
LEMMA PopFacts ==
  ASSUME TypeOK, QueueInv, NEW f \in Executors, queue[f] # <<>>,
         queue' = [queue EXCEPT ![f] = Tail(@)]
  PROVE  /\ KeepsResumes
         /\ \A t \in Tasks : Head(queue[f]) \in Resumptions(t)
              => Wakes(queue[f], t) /\ ~Wakes(queue'[f], t)
<1>1. queue \in [Executors -> Seq(Handlers)] /\ queue[f] \in Seq(Handlers)
  BY DEF TypeOK
<1>2. /\ Tail(queue[f]) \in Seq(Handlers)
      /\ Elements(Tail(queue[f])) \subseteq Elements(queue[f])
      /\ Head(queue[f]) \in Elements(queue[f])
  BY <1>1, TailFacts
<1>3. ASSUME NEW t \in Tasks
      PROVE  /\ OneOf(Tail(queue[f]), Resumptions(t))
             /\ Head(queue[f]) \in Resumptions(t)
                  => Elements(Tail(queue[f])) \cap Resumptions(t) = {}
  <2>1. OneOf(queue[f], Resumptions(t))
    BY DEF QueueInv
  <2> QED  BY <1>1, <2>1, TailFacts
<1>4. /\ queue' \in [Executors -> Seq(Handlers)]
      /\ queue'[f] = Tail(queue[f])
      /\ \A e \in Executors \ {f} : queue'[e] = queue[e]
  BY <1>1, <1>2
<1>5. ASSUME NEW t \in Tasks, NEW e \in Executors
      PROVE  /\ OneOf(queue'[e], Resumptions(t))
             /\ Wakes(queue'[e], t) => Wakes(queue[e], t)
  <2>1. CASE e = f
    BY <1>2, <1>3, <1>4, <2>1 DEF Wakes
  <2>2. CASE e # f
    BY <1>4, <2>2 DEF QueueInv
  <2> QED  BY <2>1, <2>2
<1>6. ASSUME NEW t \in Tasks, Head(queue[f]) \in Resumptions(t)
      PROVE  Wakes(queue[f], t) /\ ~Wakes(queue'[f], t)
  BY <1>2, <1>3, <1>4, <1>6 DEF Wakes
<1> QED
  BY <1>4, <1>5, <1>6 DEF KeepsResumes

-----------------------------------------------------------------------------
\* One thread is inside a task.
LEMMA InsideFacts ==
  ASSUME TypeOK, JobInv, SerialInv, NEW w \in Workers, NEW v \in Workers,
         job[w].task = job[v].task,
         job[w].kind \in InBody \cup {"exit", "destroy"},
         job[v].kind \in InBody \cup {"exit", "destroy"}
  PROVE  w = v
<1>1. JobOf(w) /\ JobOf(v)
  BY DEF JobInv
<1>2. CASE job[w].kind = "destroy" \/ job[v].kind = "destroy"
  BY <1>1, <1>2 DEF JobOf, InBody, Holding
<1>3. CASE job[w].kind # "destroy" /\ job[v].kind # "destroy"
  <2>1. job[w].on = job[v].on /\ job[w].kind # "idle" /\ job[v].kind # "idle"
    BY <1>1, <1>3 DEF JobOf, InBody
  <2>2. job[w].task \in Tasks /\ job[w].on = runner[job[w].task].executor
    BY <1>1, <1>3 DEF JobOf, InBody, TypeOK
  <2> QED  BY <2>1, <2>2 DEF SerialInv
<1> QED
  BY <1>2, <1>3

\* A worker that starts nothing keeps the executors serial.
LEMMA SerialStep ==
  ASSUME SerialInv, program' = program,
         \A t \in Tasks : Serial(runner'[t].executor),
         \A w \in Workers : job'[w].kind # "idle" =>
           job[w].kind # "idle" /\ job'[w].on = job[w].on
  PROVE  SerialInv'
<1>1. \A e : Serial(e)' <=> Serial(e)
  BY DEF Serial, ThreadsOf, Threads
<1>2. \A k : ThreadsOf(k)' = ThreadsOf(k)
  BY DEF ThreadsOf, Threads
<1> QED
  BY <1>1, <1>2 DEF SerialInv

\* A step that posts no coroutine keeps them posted to where they are.
LEMMA KeepsQueueInv ==
  ASSUME QueueInv, KeepsResumes,
         \A t \in Tasks :
           /\ \/ frame'[t] = frame[t] \/ frame'[t] \in {"destroying", "gone"}
              \/ frame[t] \notin {"queued", "destroying", "gone"}
           /\ frame'[t] = "queued" => frame[t] = "queued" /\ runner'[t] = runner[t]
  PROVE  QueueInv'
BY DEF QueueInv, KeepsResumes, Wakes

\* A step that posts one that is not posted yet.
LEMMA PostsQueueInv ==
  ASSUME QueueInv, NEW u \in Tasks, NEW f \in Executors, PostsResume(u, f),
         frame[u] \notin {"queued", "destroying", "gone"},
         frame'[u] = "queued", runner'[u].executor = f,
         \A t \in Tasks \ {u} : frame'[t] = frame[t] /\ runner'[t] = runner[t]
  PROVE  QueueInv'
<1> SUFFICES ASSUME NEW t \in Tasks, NEW e \in Executors
             PROVE  /\ OneOf(queue'[e], Resumptions(t))
                    /\ Wakes(queue'[e], t) =>
                         /\ frame'[t] \in {"queued", "destroying", "gone"}
                         /\ frame'[t] = "queued" => e = runner'[t].executor
  BY DEF QueueInv
<1>1. CASE t = u
  BY <1>1 DEF QueueInv, PostsResume
<1>2. CASE t # u
  BY <1>2 DEF QueueInv, PostsResume
<1> QED
  BY <1>1, <1>2

-----------------------------------------------------------------------------
(***************************************************************************)
(* The invariant of every program.                                         *)
(***************************************************************************)
LEMMA InvInit == Init => Inv /\ RootInv
<1> SUFFICES ASSUME Init PROVE Inv /\ RootInv
  OBVIOUS
<1> DEFINE e0 == RunExecutor.executor
<1>0. /\ Root \in Tasks /\ Pool \in Executors /\ Pool \in Pools
      /\ Strand(Pool, Root) \in Executors \ Pools /\ None \notin Workers
      /\ Workers # {} /\ program \in Programs /\ program.multi_thread \in BOOLEAN
      /\ None \notin Tasks /\ Caller \notin Tasks
  BY RuntimeAssumption, StrandFacts DEF Init, Program
<1>1. RunExecutor \in Runners /\ e0 \in Executors
  <2>1. RunExecutor \in Runners
    BY <1>0 DEF RunExecutor, Runners
  <2> QED  BY <2>1, RunnersFacts
<1>2. Serial(e0)
  <2>1. CASE program.multi_thread
    BY <1>0, <2>1 DEF RunExecutor, OfStrand, Serial
  <2>2. CASE ~program.multi_thread
    <3>1. e0 = Pool
      BY <2>2 DEF RunExecutor, Plain
    <3>2. ThreadsOf(Pool) = {CHOOSE w \in Workers \ Others : TRUE}
      BY <2>2 DEF ThreadsOf, Threads
    <3> QED  BY <3>1, <3>2, FS_Singleton DEF Serial
  <2> QED  BY <2>1, <2>2
<1> HIDE DEF e0
<1>3. /\ \A e \in Executors : queue[e] = IF e = e0 THEN <<Resume(Root)>> ELSE <<>>
      /\ runner = [t \in Tasks |-> RunExecutor] /\ e0 = RunExecutor.executor
      /\ queue = [e \in Executors |-> queue[e]]
  BY <1>1 DEF Init, e0
<1>4. queue \in [Executors -> Seq(Handlers)]
  <2>1. <<>> \in Seq(Handlers) /\ <<Resume(Root)>> \in Seq(Handlers)
    BY <1>0, HandlerFacts DEF Resumptions
  <2> QED  BY <1>3, <2>1
<1>5. TypeOK
  BY <1>0, <1>1, <1>3, <1>4 DEF Init, TypeOK, Idle, Job, Owners
<1>6. QueueInv
  <2> SUFFICES ASSUME NEW t \in Tasks, NEW e \in Executors
               PROVE  /\ OneOf(queue[e], Resumptions(t))
                      /\ Wakes(queue[e], t) => t = Root /\ e = e0
    BY <1>3 DEF QueueInv, Init
  <2>1. CASE e = e0
    <3>1. queue[e] = <<Resume(Root)>>
      BY <1>3, <2>1
    <3>2. DOMAIN queue[e] = {1} /\ queue[e][1] = Resume(Root)
      BY <3>1
    <3>3. Resume(Root) \in Resumptions(Root)
      BY DEF Resumptions
    <3> QED  BY <2>1, <3>2, <3>3, HandlerFacts DEF OneOf, Elements, Wakes
  <2>2. CASE e # e0
    BY <1>3, <2>2 DEF OneOf, Elements, Wakes
  <2> QED  BY <2>1, <2>2
<1>7. SerialInv /\ JobInv
  <2> HIDE DEF RunExecutor
  <2> QED  BY <1>0, <1>2, <1>3
  DEF Init, SerialInv, JobInv, JobOf, Idle, Job, InBody, Holding
<1>8. EntryInv /\ OwnInv
  BY <1>0 DEF Init, EntryInv, OwnInv
<1> QED
  BY <1>0, <1>5, <1>6, <1>7, <1>8 DEF Inv, RootInv, Init

\* A worker takes a handler.
LEMMA TakeStep ==
  ASSUME Inv, NEW w \in Workers, NEW e \in Executors, Take(w, e)
  PROVE  Inv'
<1>1. /\ TypeOK /\ JobInv /\ SerialInv /\ QueueInv /\ EntryInv /\ OwnInv
      /\ queue[e] # <<>> /\ queue' = [queue EXCEPT ![e] = Tail(@)]
      /\ UNCHANGED <<program, caller, pool, mutex, runner, entry, asked, owner,
                     future>>
      /\ job[w].kind = "idle" /\ ~(Serial(e) /\ Busy(e))
      /\ w \in ThreadsOf(Over(e))
  BY DEF Inv, Take, NextIdle, Does
<1>2. PICK t \in Tasks : TakeResume(w, e, t) \/ TakeChaser(w, e, t)
  BY DEF Take
<1>3. KeepsResumes
  BY <1>1, PopFacts
<1>4. /\ \A f : Serial(f)' <=> Serial(f)
      /\ \A k : ThreadsOf(k)' = ThreadsOf(k)
  BY <1>1 DEF Serial, ThreadsOf, Threads
<1>5. ASSUME NEW j \in [kind : {"body", "chaser"}, task : {t}, on : {e}],
             job' = [job EXCEPT ![w] = j]
      PROVE  SerialInv'
  <2>1. job'[w].on = e /\ \A v \in Workers \ {w} : job'[v] = job[v]
    BY <1>1, <1>5 DEF TypeOK
  <2>2. \A v \in Workers : Serial(e) => job[v].kind = "idle" \/ job[v].on # e
    BY <1>1 DEF Busy, Does
  <2> QED  BY <1>1, <1>4, <2>1, <2>2 DEF SerialInv
<1>6. CASE TakeResume(w, e, t) /\ frame[t] = "queued"
  <2>1. /\ frame' = [frame EXCEPT ![t] = "running"]
        /\ job' = [job EXCEPT ![w] = Job("body", t, e)] /\ fault' = fault
        /\ Head(queue[e]) \in Resumptions(t)
    BY <1>6 DEF TakeResume, Resumptions
  <2>2. Job("body", t, e) \in [kind : {"body", "chaser"}, task : {t}, on : {e}]
    BY DEF Job
  <2>3. SerialInv'
    BY <1>5, <2>1, <2>2
  <2>4. e = runner[t].executor
    BY <1>1, <1>6, <2>1, PopFacts DEF QueueInv
  <2>5. TypeOK'
    BY <1>1, <1>3, <2>1 DEF TypeOK, KeepsResumes, Job
  <2>6. JobInv'
    <3> SUFFICES ASSUME NEW v \in Workers PROVE JobOf(v)'
      BY DEF JobInv
    <3>1. CASE v = w
      BY <1>1, <2>1, <2>4, <3>1 DEF TypeOK, JobOf, Job, InBody, Holding
    <3>2. CASE v # w
      BY <1>1, <1>6, <2>1, <3>2 DEF TypeOK, JobInv, JobOf, InBody, Holding
    <3> QED  BY <3>1, <3>2
  <2>7. QueueInv'
    <3>1. \A f \in Executors : ~Wakes(queue'[f], t)
      <4>1. ~Wakes(queue'[e], t)
        BY <1>1, <2>1, PopFacts
      <4>2. \A f \in Executors \ {e} : ~Wakes(queue[f], t)
        BY <1>1, <1>6, <2>4 DEF QueueInv
      <4> QED  BY <1>3, <4>1, <4>2 DEF KeepsResumes
    <3>2. \A u \in Tasks \ {t} : frame'[u] = frame[u] /\ runner'[u] = runner[u]
      BY <1>1, <2>1 DEF TypeOK
    <3> SUFFICES ASSUME NEW u \in Tasks, NEW f \in Executors
                 PROVE  /\ OneOf(queue'[f], Resumptions(u))
                        /\ Wakes(queue'[f], u) =>
                             /\ frame'[u] \in {"queued", "destroying", "gone"}
                             /\ frame'[u] = "queued" => f = runner'[u].executor
      BY DEF QueueInv
    <3>3. CASE u = t
      BY <1>3, <3>1, <3>3 DEF KeepsResumes
    <3>4. CASE u # t
      BY <1>1, <1>3, <3>2, <3>4 DEF QueueInv, KeepsResumes
    <3> QED  BY <3>3, <3>4
  <2>8. EntryInv' /\ OwnInv'
    BY <1>1, <1>6, <2>1 DEF TypeOK, EntryInv, OwnInv
  <2> QED  BY <2>3, <2>5, <2>6, <2>7, <2>8 DEF Inv
<1>7. CASE TakeResume(w, e, t) /\ frame[t] # "queued"
  <2>1. UNCHANGED <<frame, job>> /\ fault' \in {"none", "resumed_dead"}
    BY <1>1, <1>7 DEF TakeResume, TypeOK
  <2>2. TypeOK' /\ JobInv' /\ EntryInv' /\ OwnInv'
    BY <1>1, <1>3, <2>1
    DEF TypeOK, KeepsResumes, JobInv, JobOf, EntryInv, OwnInv
  <2>3. SerialInv' /\ QueueInv'
    BY <1>1, <1>3, <1>4, <2>1, SerialStep, KeepsQueueInv DEF SerialInv
  <2> QED  BY <2>2, <2>3 DEF Inv
<1>8. CASE TakeChaser(w, e, t)
  <2>1. /\ job' = [job EXCEPT ![w] = Job("chaser", t, e)] /\ frame' = frame
        /\ fault' = fault
    BY <1>8 DEF TakeChaser
  <2>2. Job("chaser", t, e) \in [kind : {"body", "chaser"}, task : {t}, on : {e}]
    BY DEF Job
  <2>3. SerialInv'
    BY <1>5, <2>1, <2>2
  <2>4. TypeOK' /\ JobInv' /\ EntryInv' /\ OwnInv'
    BY <1>1, <1>3, <2>1
    DEF TypeOK, KeepsResumes, JobInv, JobOf, EntryInv, OwnInv, Job, InBody, Holding
  <2>5. QueueInv'
    BY <1>1, <1>3, <2>1, KeepsQueueInv
  <2> QED  BY <2>3, <2>4, <2>5 DEF Inv
<1> QED
  BY <1>2, <1>6, <1>7, <1>8

\* The AbortChaser has the lock.
LEMMA ChaserStep ==
  ASSUME Inv, NEW w \in Workers, RunAbortChaser(w)
  PROVE  Inv'
<1> DEFINE t == job[w].task
<1>1. /\ TypeOK /\ JobInv /\ SerialInv /\ QueueInv /\ EntryInv /\ OwnInv
      /\ UNCHANGED <<program, caller, pool, fault, runner, entry, asked, owner, future>>
      /\ job[w].kind = "chaser" /\ mutex[t] = None
      /\ t \in Tasks /\ runner[t].executor \in Executors
      /\ Root \in Tasks /\ Pool \in Executors /\ None \notin Workers
  BY RuntimeAssumption, RunnersFacts, StrandFacts
  DEF Inv, RunAbortChaser, outside, Does, TypeOK
<1>2. \A f : Serial(f)' <=> Serial(f)
  BY <1>1 DEF Serial, ThreadsOf, Threads
<1>3. CASE Done(w) /\ UNCHANGED <<mutex, frame>> /\ KeepsResumes
  <2>1. TypeOK' /\ JobInv' /\ EntryInv' /\ OwnInv'
    BY <1>1, <1>3
    DEF Done, Idle, Job, TypeOK, KeepsResumes, JobInv, JobOf, EntryInv, OwnInv,
        InBody, Holding
  <2>2. \A v \in Workers : job'[v].kind # "idle" =>
          job[v].kind # "idle" /\ job'[v].on = job[v].on
    BY <1>1, <1>3 DEF Done, Idle, Job, TypeOK
  <2>3. SerialInv'
    BY <1>1, <1>2, <2>2, SerialStep DEF SerialInv
  <2>4. QueueInv'
    BY <1>1, <1>3, KeepsQueueInv
  <2> QED  BY <2>1, <2>3, <2>4 DEF Inv
<1>4. CASE Done(w) /\ UNCHANGED <<queue, mutex, frame>>
  BY <1>1, <1>3, <1>4, SameResumes
<1>5. CASE /\ queue' = Post(queue, runner[t].executor, AbortChaser(t))
           /\ Done(w) /\ UNCHANGED <<mutex, frame>>
  BY <1>1, <1>3, <1>5, PostChaser
<1>6. CASE /\ t \in entry /\ runner[t].executor = job[w].on
           /\ mutex' = [mutex EXCEPT ![t] = w]
           /\ frame' = [frame EXCEPT ![t] = "destroying"]
           /\ Become(w, "destroy") /\ queue' = queue
  <2> HIDE DEF t
  <2>1. ASSUME NEW v \in Workers \ {w}, job[v].task = t
        PROVE  job[v].kind \notin InBody \cup {"exit"} \cup Holding
    <3>1. JobOf(v)
      BY <1>1 DEF JobInv
    <3>2. job[v].kind \notin Holding
      BY <1>1, <2>1, <3>1 DEF JobOf
    <3>3. ASSUME job[v].kind \in InBody \cup {"exit"} PROVE FALSE
      <4>1. job[v].on = job[w].on /\ job[v].kind # "idle"
        BY <1>6, <2>1, <3>1, <3>3 DEF JobOf, InBody
      <4>2. Serial(job[w].on)
        BY <1>1, <1>6 DEF SerialInv
      <4> QED  BY <1>1, <2>1, <4>1, <4>2 DEF SerialInv
    <3> QED  BY <3>2, <3>3
  <2>2. /\ job'[w].kind = "destroy" /\ job'[w].task = t /\ job'[w].on = job[w].on
        /\ \A v \in Workers \ {w} : job'[v] = job[v]
        /\ job' \in [Workers -> [kind : {"idle", "body", "ending", "exit",
                 "block", "unlock", "chaser", "destroy"},
                task : Tasks, on : Executors]]
    <3>1. /\ job \in [Workers -> [kind : {"idle", "body", "ending", "exit",
                 "block", "unlock", "chaser", "destroy"},
                task : Tasks, on : Executors]]
          /\ job' = [job EXCEPT ![w] = [job[w] EXCEPT !.kind = "destroy"]]
      BY <1>1, <1>6 DEF Become, TypeOK
    <3>2. [job[w] EXCEPT !.kind = "destroy"] \in [kind : {"idle", "body",
             "ending", "exit", "block", "unlock", "chaser", "destroy"},
             task : Tasks, on : Executors]
      BY <3>1
    <3> QED  BY <3>1, <3>2 DEF t
  <2>3. TypeOK'
    <3>1. mutex' \in [Tasks -> Workers \cup {None}]
      BY <1>1, <1>6 DEF TypeOK
    <3>2. ASSUME NEW u \in Tasks, mutex'[u] # None
          PROVE  /\ job'[mutex'[u]].task = u
                 /\ job'[mutex'[u]].kind \in {"unlock", "destroy"}
      <4>1. CASE u = t
        BY <1>1, <1>6, <2>2, <4>1 DEF TypeOK
      <4>2. CASE u # t
        <5>1. mutex'[u] = mutex[u] /\ mutex[u] \in Workers
          BY <1>1, <1>6, <3>2, <4>2 DEF TypeOK
        <5>2. mutex[u] # w
          BY <1>1, <3>2, <4>2, <5>1 DEF TypeOK, t
        <5> QED  BY <1>1, <2>2, <3>2, <5>1, <5>2 DEF TypeOK
      <4> QED  BY <4>1, <4>2
    <3>3. frame' \in [Tasks -> {"none", "queued", "running", "parked",
                               "exiting", "destroying", "gone"}]
      BY <1>1, <1>6 DEF TypeOK
    <3> QED  BY <1>1, <1>6, <2>2, <3>1, <3>2, <3>3 DEF TypeOK
  <2>4. JobInv'
    <3> SUFFICES ASSUME NEW v \in Workers PROVE JobOf(v)'
      BY DEF JobInv
    <3>1. CASE v = w
      BY <1>1, <1>6, <2>2, <3>1 DEF TypeOK, JobOf, InBody, Holding
    <3>2. CASE v # w /\ job[v].task = t
      BY <1>1, <2>1, <2>2, <3>2 DEF JobOf, InBody, Holding
    <3>3. CASE v # w /\ job[v].task # t
      BY <1>1, <1>6, <2>2, <3>3 DEF TypeOK, JobInv, JobOf
    <3> QED  BY <3>1, <3>2, <3>3
  <2>5. SerialInv'
    BY <1>1, <1>2, <2>2, SerialStep DEF SerialInv
  <2>6. QueueInv'
    BY <1>1, <1>6, SameResumes, KeepsQueueInv DEF TypeOK
  <2>7. EntryInv' /\ OwnInv'
    BY <1>1, <1>6 DEF TypeOK, EntryInv, OwnInv
  <2> QED  BY <2>3, <2>4, <2>5, <2>6, <2>7 DEF Inv
<1> QED
  BY <1>4, <1>5, <1>6 DEF RunAbortChaser

Jobs == [kind : {"idle", "body", "ending", "exit", "block", "unlock", "chaser",
                 "destroy"},
         task : Tasks, on : Executors]
Frames == {"none", "queued", "running", "parked", "exiting", "destroying", "gone"}

LEMMA BecomeFacts ==
  ASSUME TypeOK, NEW w \in Workers,
         NEW k \in {"body", "ending", "exit", "block", "unlock"}, Become(w, k)
  PROVE  /\ job' \in [Workers -> Jobs]
         /\ job'[w].kind = k /\ job'[w].task = job[w].task /\ job'[w].on = job[w].on
         /\ \A v \in Workers \ {w} : job'[v] = job[v]
<1>1. job \in [Workers -> Jobs] /\ job' = [job EXCEPT ![w] = [job[w] EXCEPT !.kind = k]]
  BY DEF Become, TypeOK, Jobs
<1>2. [job[w] EXCEPT !.kind = k] \in Jobs
  BY <1>1 DEF Jobs
<1> QED
  BY <1>1, <1>2 DEF Jobs

LEMMA DoneFacts ==
  ASSUME TypeOK, NEW w \in Workers, Done(w)
  PROVE  /\ job' \in [Workers -> Jobs] /\ job'[w].kind = "idle"
         /\ \A v \in Workers \ {w} : job'[v] = job[v]
BY RuntimeAssumption, StrandFacts DEF Done, Idle, Job, TypeOK, Jobs

\* What the worker inside a task does to it does not touch other workers.
LEMMA OthersStep ==
  ASSUME Inv, NEW w \in Workers, NEW t \in Tasks, t = job[w].task,
         job[w].kind \in InBody \cup {"exit", "destroy"},
         \A v \in Workers \ {w} : job'[v] = job[v],
         \A u \in Tasks \ {t} :
           frame'[u] = frame[u] /\ runner'[u] = runner[u] /\ mutex'[u] = mutex[u],
         mutex'[t] = mutex[t] \/ mutex[t] \in {None, w}
  PROVE  \A v \in Workers \ {w} : JobOf(v)'
<1> SUFFICES ASSUME NEW v \in Workers \ {w} PROVE JobOf(v)'
  OBVIOUS
<1>1. JobOf(v) /\ job[v].task \in Tasks /\ v # None /\ job'[v] = job[v]
  BY RuntimeAssumption DEF Inv, JobInv, TypeOK
<1>2. CASE job[v].task # t
  BY <1>1, <1>2 DEF JobOf
<1>3. CASE job[v].task = t
  <2>1. job[v].kind \notin InBody \cup {"exit", "destroy"}
    BY <1>3, InsideFacts DEF Inv
  <2> QED  BY <1>1, <1>3, <2>1 DEF JobOf, Holding
<1> QED
  BY <1>2, <1>3

\* The mutexes are held by who holds them.
MutexOK ==
  /\ mutex \in [Tasks -> Workers \cup {None}]
  /\ \A t \in Tasks : mutex[t] # None =>
       job[mutex[t]].task = t /\ job[mutex[t]].kind \in {"unlock", "destroy"}

LEMMA MutexStep ==
  ASSUME Inv, NEW w \in Workers, job[w].kind \notin Holding,
         \A v \in Workers \ {w} : job'[v] = job[v], mutex' = mutex
  PROVE  MutexOK'
<1>1. /\ mutex \in [Tasks -> Workers \cup {None}]
      /\ \A t \in Tasks : mutex[t] # None =>
           job[mutex[t]].task = t /\ job[mutex[t]].kind \in {"unlock", "destroy"}
  BY DEF Inv, TypeOK
<1>2. \A t \in Tasks : mutex[t] # None => mutex[t] \in Workers \ {w}
  BY <1>1 DEF Holding
<1> QED
  BY <1>1, <1>2 DEF MutexOK

\* The mutex is released: by the AbortChaser, or by roam_to.
LEMMA ReleaseStep ==
  ASSUME Inv, NEW w \in Workers, job[w].kind \in Holding,
         mutex' = [mutex EXCEPT ![job[w].task] = None],
         \A v \in Workers \ {w} : job'[v] = job[v]
  PROVE  MutexOK'
<1>1. mutex \in [Tasks -> Workers \cup {None}] /\ job[w].task \in Tasks
  BY DEF Inv, TypeOK
<1>2. ASSUME NEW u \in Tasks, mutex'[u] # None
      PROVE  /\ job'[mutex'[u]].task = u
             /\ job'[mutex'[u]].kind \in {"unlock", "destroy"}
  <2>1. u # job[w].task /\ mutex'[u] = mutex[u] /\ mutex[u] \in Workers
    BY <1>1, <1>2
  <2>2. job[mutex[u]].task = u /\ job[mutex[u]].kind \in {"unlock", "destroy"}
    BY <1>2, <2>1 DEF Inv, TypeOK
  <2> QED  BY <2>1, <2>2
<1> QED
  BY <1>1, <1>2 DEF MutexOK

\* destroy() returns.
LEMMA EndChaserStep ==
  ASSUME Inv, NEW w \in Workers, EndAbortChaser(w)
  PROVE  Inv'
<1> DEFINE t == job[w].task
<1>1. /\ TypeOK /\ JobOf(w) /\ SerialInv /\ QueueInv /\ EntryInv /\ OwnInv
      /\ UNCHANGED <<program, caller, pool, fault, queue, runner, asked, owner, future>>
      /\ job[w].kind = "destroy" /\ t \in Tasks /\ Owned(t) = {}
      /\ frame' = [frame EXCEPT ![t] = "gone"] /\ entry' = entry \ {t}
      /\ mutex' = [mutex EXCEPT ![t] = None] /\ Done(w)
  BY DEF Inv, JobInv, EndAbortChaser, outside, Does, TypeOK
<1> HIDE DEF t
<1>2. /\ job' \in [Workers -> Jobs] /\ job'[w].kind = "idle"
      /\ \A v \in Workers \ {w} : job'[v] = job[v]
  BY <1>1, DoneFacts
<1>3. TypeOK'
  <2>1. MutexOK'
    BY <1>1, <1>2, ReleaseStep DEF Holding, t
  <2> QED  BY <1>1, <1>2, <2>1 DEF TypeOK, MutexOK, Jobs
<1>4. JobInv'
  <2>0. /\ mutex[t] = w /\ t = job[w].task
        /\ \A u \in Tasks \ {t} :
             frame'[u] = frame[u] /\ runner'[u] = runner[u] /\ mutex'[u] = mutex[u]
    BY <1>1 DEF JobOf, Holding, t, TypeOK
  <2>1. \A v \in Workers \ {w} : JobOf(v)'
    BY <1>1, <1>2, <2>0, OthersStep
  <2>2. JobOf(w)'
    BY <1>2 DEF JobOf, InBody, Holding
  <2> QED  BY <2>1, <2>2 DEF JobInv
<1>5. SerialInv'
  BY <1>1, <1>2, SerialStep DEF SerialInv, Serial, ThreadsOf, Threads
<1>6. QueueInv'
  BY <1>1, SameResumes, KeepsQueueInv DEF TypeOK
<1>7. EntryInv' /\ OwnInv'
  BY <1>1 DEF TypeOK, EntryInv, OwnInv, Owned
<1> QED
  BY <1>3, <1>4, <1>5, <1>6, <1>7 DEF Inv

\* The destructor of the lock_guard of roam_to.
LEMMA UnlockStep ==
  ASSUME Inv, NEW w \in Workers, Unlock(w)
  PROVE  Inv'
<1> DEFINE t == job[w].task
<1>1. /\ TypeOK /\ JobInv /\ SerialInv /\ QueueInv /\ EntryInv /\ OwnInv
      /\ UNCHANGED <<program, caller, pool, fault, queue, runner, frame, entry, asked,
                     owner, future>>
      /\ job[w].kind = "unlock" /\ t \in Tasks /\ mutex[t] = w
      /\ mutex' = [mutex EXCEPT ![t] = None] /\ Done(w)
  BY DEF Inv, JobInv, JobOf, Unlock, outside, tasks, Does, TypeOK, Holding
<1> HIDE DEF t
<1>2. /\ job' \in [Workers -> Jobs] /\ job'[w].kind = "idle"
      /\ \A v \in Workers \ {w} : job'[v] = job[v]
  BY <1>1, DoneFacts
<1>3. TypeOK'
  <2>1. MutexOK'
    BY <1>1, <1>2, ReleaseStep DEF Holding, t
  <2> QED  BY <1>1, <1>2, <2>1 DEF TypeOK, MutexOK, Jobs
<1>4. JobInv'
  <2> SUFFICES ASSUME NEW v \in Workers PROVE JobOf(v)'
    BY DEF JobInv
  <2>1. CASE v = w
    BY <1>2, <2>1 DEF JobOf, InBody, Holding
  <2>2. CASE v # w
    BY <1>1, <1>2, <2>2 DEF JobInv, JobOf, TypeOK
  <2> QED  BY <2>1, <2>2
<1>5. SerialInv'
  BY <1>1, <1>2, SerialStep DEF SerialInv, Serial, ThreadsOf, Threads
<1>6. QueueInv'
  BY <1>1, SameResumes, KeepsQueueInv
<1>7. EntryInv' /\ OwnInv'
  BY <1>1 DEF EntryInv, OwnInv
<1> QED
  BY <1>3, <1>4, <1>5, <1>6, <1>7 DEF Inv

\* A coroutine goes on to its next suspension, or to its end.
LEMMA SuspendStep ==
  ASSUME Inv, NEW w \in Workers, Suspend(w)
  PROVE  Inv'
<1> DEFINE t == job[w].task
<1>1. /\ TypeOK /\ JobOf(w) /\ SerialInv /\ QueueInv /\ EntryInv /\ OwnInv
      /\ UNCHANGED <<program, caller, pool, fault, queue, mutex, runner, entry, asked,
                     owner, future>>
      /\ job[w].kind = "body" /\ t \in Tasks
      /\ frame' = [frame EXCEPT ![t] = "parked"] /\ Done(w)
  BY DEF Inv, JobInv, Suspend, outside, Does, TypeOK
<1> HIDE DEF t
<1>2. /\ job' \in [Workers -> Jobs] /\ job'[w].kind = "idle"
      /\ \A v \in Workers \ {w} : job'[v] = job[v]
  BY <1>1, DoneFacts
<1>3. frame[t] = "running" /\ t = job[w].task
  BY <1>1 DEF JobOf, InBody, t
<1>4. TypeOK'
  <2>1. MutexOK'
    BY <1>1, <1>2, MutexStep DEF Holding
  <2> QED  BY <1>1, <1>2, <2>1 DEF TypeOK, MutexOK, Jobs
<1>5. JobInv'
  <2>0. \A u \in Tasks \ {t} :
          frame'[u] = frame[u] /\ runner'[u] = runner[u] /\ mutex'[u] = mutex[u]
    BY <1>1 DEF TypeOK
  <2>1. \A v \in Workers \ {w} : JobOf(v)'
    BY <1>1, <1>2, <1>3, <2>0, OthersStep DEF InBody
  <2>2. JobOf(w)'
    BY <1>2 DEF JobOf, InBody, Holding
  <2> QED  BY <2>1, <2>2 DEF JobInv
<1>6. SerialInv'
  BY <1>1, <1>2, SerialStep DEF SerialInv, Serial, ThreadsOf, Threads
<1>7. QueueInv'
  BY <1>1, <1>3, SameResumes, KeepsQueueInv DEF TypeOK
<1>8. EntryInv' /\ OwnInv'
  BY <1>1, <1>3 DEF TypeOK, EntryInv, OwnInv
<1> QED
  BY <1>4, <1>5, <1>6, <1>7, <1>8 DEF Inv

LEMMA EndingStep ==
  ASSUME Inv, NEW w \in Workers, SetPromise(w) \/ Finish(w)
  PROVE  Inv'
<1> DEFINE t == job[w].task
<1>1. /\ TypeOK /\ JobOf(w) /\ SerialInv /\ QueueInv /\ EntryInv /\ OwnInv
      /\ UNCHANGED <<program, caller, pool, fault, queue, mutex, runner, asked, owner>>
      /\ job[w].kind \in {"body", "ending"} /\ t \in Tasks
      /\ \/ /\ UNCHANGED <<frame, entry>> /\ Become(w, "ending")
            /\ future' = [future EXCEPT ![t] = "set"]
         \/ /\ frame' = [frame EXCEPT ![t] = "exiting"] /\ entry' = entry \ {t}
            /\ Become(w, "exit") /\ future' = future
  BY DEF Inv, JobInv, SetPromise, Finish, Ends, outside, Does, TypeOK
<1> HIDE DEF t
<1>2. /\ job' \in [Workers -> Jobs] /\ job'[w].kind \in {"ending", "exit"}
      /\ job'[w].task = job[w].task /\ job'[w].on = job[w].on
      /\ \A v \in Workers \ {w} : job'[v] = job[v]
      /\ job'[w].kind = "ending" => frame' = frame
      /\ job'[w].kind = "exit" => frame' = [frame EXCEPT ![t] = "exiting"]
  BY <1>1, BecomeFacts
<1>3. frame[t] = "running" /\ t = job[w].task /\ job[w].on = runner[t].executor
  BY <1>1 DEF JobOf, InBody, t
<1>4. TypeOK'
  <2>1. MutexOK'
    BY <1>1, <1>2, MutexStep DEF Holding
  <2>2. frame' \in [Tasks -> Frames]
    <3>1. frame \in [Tasks -> Frames]
      BY <1>1 DEF TypeOK, Frames
    <3>2. [frame EXCEPT ![t] = "exiting"] \in [Tasks -> Frames]
      BY <3>1 DEF Frames
    <3> QED  BY <1>1, <3>1, <3>2
  <2>3. future' \in [Tasks -> {"none", "pending", "set"}]
    <3>1. future \in [Tasks -> {"none", "pending", "set"}]
      BY <1>1 DEF TypeOK
    <3>2. [future EXCEPT ![t] = "set"] \in [Tasks -> {"none", "pending", "set"}]
      BY <3>1
    <3> QED  BY <1>1, <3>1, <3>2
  <2>4. entry' \subseteq Tasks
    BY <1>1 DEF TypeOK
  <2> QED  BY <1>1, <1>2, <2>1, <2>2, <2>3, <2>4 DEF TypeOK, MutexOK, Jobs, Frames
<1>5. JobInv'
  <2>0. \A u \in Tasks \ {t} :
          frame'[u] = frame[u] /\ runner'[u] = runner[u] /\ mutex'[u] = mutex[u]
    BY <1>1 DEF TypeOK
  <2>1. \A v \in Workers \ {w} : JobOf(v)'
    BY <1>1, <1>2, <1>3, <2>0, OthersStep DEF InBody
  <2>2. JobOf(w)'
    BY <1>1, <1>2, <1>3 DEF JobOf, InBody, Holding, TypeOK
  <2> QED  BY <2>1, <2>2 DEF JobInv
<1>6. SerialInv'
  BY <1>1, <1>2, SerialStep DEF SerialInv, Serial, ThreadsOf, Threads
<1>7. QueueInv'
  BY <1>1, <1>3, SameResumes, KeepsQueueInv DEF TypeOK
<1>8. EntryInv' /\ OwnInv'
  BY <1>1, <1>3 DEF TypeOK, EntryInv, OwnInv
<1> QED
  BY <1>4, <1>5, <1>6, <1>7, <1>8 DEF Inv

LEMMA ExitStep ==
  ASSUME Inv, NEW w \in Workers, Exit(w)
  PROVE  Inv'
<1> DEFINE t == job[w].task
<1>1. /\ TypeOK /\ JobOf(w) /\ SerialInv /\ QueueInv /\ EntryInv /\ OwnInv
      /\ UNCHANGED <<program, caller, pool, fault, queue, mutex, runner, entry, asked,
                     owner, future>>
      /\ job[w].kind = "exit" /\ t \in Tasks /\ Owned(t) = {}
      /\ frame' = [frame EXCEPT ![t] = "gone"] /\ Done(w)
  BY DEF Inv, JobInv, Exit, outside, Does, TypeOK
<1> HIDE DEF t
<1>2. /\ job' \in [Workers -> Jobs] /\ job'[w].kind = "idle"
      /\ \A v \in Workers \ {w} : job'[v] = job[v]
  BY <1>1, DoneFacts
<1>3. frame[t] = "exiting" /\ t = job[w].task
  BY <1>1 DEF JobOf, t
<1>4. TypeOK'
  <2>1. MutexOK'
    BY <1>1, <1>2, MutexStep DEF Holding
  <2> QED  BY <1>1, <1>2, <2>1 DEF TypeOK, MutexOK, Jobs
<1>5. JobInv'
  <2>0. \A u \in Tasks \ {t} :
          frame'[u] = frame[u] /\ runner'[u] = runner[u] /\ mutex'[u] = mutex[u]
    BY <1>1 DEF TypeOK
  <2>1. \A v \in Workers \ {w} : JobOf(v)'
    BY <1>1, <1>2, <1>3, <2>0, OthersStep
  <2>2. JobOf(w)'
    BY <1>2 DEF JobOf, InBody, Holding
  <2> QED  BY <2>1, <2>2 DEF JobInv
<1>6. SerialInv'
  BY <1>1, <1>2, SerialStep DEF SerialInv, Serial, ThreadsOf, Threads
<1>7. QueueInv'
  BY <1>1, SameResumes, KeepsQueueInv DEF TypeOK
<1>8. EntryInv' /\ OwnInv'
  BY <1>1, <1>3 DEF TypeOK, EntryInv, OwnInv, Owned
<1> QED
  BY <1>4, <1>5, <1>6, <1>7, <1>8 DEF Inv

-----------------------------------------------------------------------------
\* request_abort posts no coroutine.
LEMMA RequestAbortFacts ==
  ASSUME Inv, NEW u \in Tasks, RequestAbort(u)
  PROVE  KeepsResumes /\ asked' \subseteq Tasks
<1>1. TypeOK /\ QueueInv /\ runner[u].executor \in Executors /\ asked \subseteq Tasks
  BY RunnersFacts DEF Inv, TypeOK
<1>2. CASE u \in entry \ asked
  BY <1>1, <1>2, PostChaser DEF RequestAbort
<1>3. CASE u \notin entry \ asked
  BY <1>1, <1>3, SameResumes DEF RequestAbort
<1> QED
  BY <1>2, <1>3

\* A step that leaves every coroutine where it is.
LEMMA QuietStep ==
  ASSUME Inv, KeepsResumes,
         UNCHANGED <<program, mutex, runner, frame, entry, future, fault>>,
         caller' \in {"blocked", "released", "joining", "returned"},
         pool' \in {"open", "stopped"}, asked' \subseteq Tasks,
         owner' \in [Tasks -> Owners],
         \A v \in Tasks : owner'[v] \in Tasks => owner'[v] = owner[v],
         \/ job' = job
         \/ \E w \in Workers : job[w].kind = "block" /\ Become(w, "body")
  PROVE  Inv'
<1>1. TypeOK /\ JobInv /\ SerialInv /\ QueueInv /\ EntryInv /\ OwnInv
  BY DEF Inv
<1>2. /\ job' \in [Workers -> Jobs]
      /\ \A v \in Workers :
           \/ job'[v] = job[v]
           \/ /\ job[v].kind = "block" /\ job'[v].kind = "body"
              /\ job'[v].task = job[v].task /\ job'[v].on = job[v].on
  <2>1. CASE job' = job
    BY <1>1, <2>1 DEF TypeOK, Jobs
  <2>2. ASSUME NEW w \in Workers, job[w].kind = "block", Become(w, "body")
        PROVE  /\ job' \in [Workers -> Jobs]
               /\ job'[w].kind = "body" /\ job'[w].task = job[w].task
               /\ job'[w].on = job[w].on
               /\ \A v \in Workers \ {w} : job'[v] = job[v]
    BY <1>1, <2>2, BecomeFacts
  <2> QED  BY <2>1, <2>2
<1>3. TypeOK'
  <2>1. MutexOK'
    BY <1>1, <1>2 DEF TypeOK, MutexOK
  <2> QED  BY <1>1, <1>2, <2>1 DEF TypeOK, MutexOK, Jobs, KeepsResumes
<1>4. JobInv'
  BY <1>1, <1>2 DEF JobInv, JobOf, InBody, Holding
<1>5. SerialInv'
  <2>1. \A v \in Workers : job'[v].kind # "idle" =>
          job[v].kind # "idle" /\ job'[v].on = job[v].on
    BY <1>2
  <2> QED  BY <1>1, <2>1, SerialStep DEF SerialInv, Serial, ThreadsOf, Threads
<1>6. QueueInv'
  BY <1>1, KeepsQueueInv
<1>7. EntryInv' /\ OwnInv'
  BY <1>1 DEF EntryInv, OwnInv
<1> QED
  BY <1>3, <1>4, <1>5, <1>6, <1>7 DEF Inv

\* The destructor of a Task object, wherever it is, and abort.
LEMMA OwnerStep ==
  ASSUME Inv, NEW w \in Workers, NEW u \in Tasks,
         Drop(w, u) \/ Abort(w, u) \/ Unblock(w, u) \/ Detach(w, u)
  PROVE  Inv'
<1>1. /\ owner \in [Tasks -> Owners] /\ asked \subseteq Tasks
      /\ "destroyed" \in Owners /\ "detached" \in Owners
      /\ "destroyed" \notin Tasks /\ "detached" \notin Tasks
      /\ caller \in {"blocked", "released", "joining", "returned"}
      /\ pool \in {"open", "stopped"}
  BY RuntimeAssumption DEF Inv, TypeOK, Owners
<1>2. ASSUME NEW x \in {"destroyed", "detached"}, owner' = [owner EXCEPT ![u] = x]
      PROVE  /\ owner' \in [Tasks -> Owners]
             /\ \A v \in Tasks : owner'[v] \in Tasks => owner'[v] = owner[v]
  BY <1>1, <1>2
<1>3. CASE Drop(w, u)
  <2>1. KeepsResumes /\ asked' \subseteq Tasks
    BY <1>3, RequestAbortFacts DEF Drop, DestroyTask
  <2>2. owner' = [owner EXCEPT ![u] = "destroyed"]
    BY <1>3 DEF Drop, DestroyTask
  <2>3. UNCHANGED <<program, caller, pool, fault, mutex, runner, frame, entry, future, job>>
    BY <1>3 DEF Drop, outside
  <2> QED  BY <1>1, <1>2, <2>1, <2>2, <2>3, QuietStep
<1>4. CASE Abort(w, u)
  <2>1. KeepsResumes /\ asked' \subseteq Tasks
    BY <1>4, RequestAbortFacts DEF Abort
  <2>2. UNCHANGED <<program, caller, pool, fault, mutex, runner, frame, entry, owner,
                    future, job>>
    BY <1>4 DEF Abort, outside
  <2> QED  BY <1>1, <2>1, <2>2, QuietStep
<1>5. CASE Unblock(w, u)
  <2>1. KeepsResumes /\ asked' \subseteq Tasks
    BY <1>5, RequestAbortFacts DEF Unblock, DestroyTask
  <2>2. /\ owner' = [owner EXCEPT ![u] = "destroyed"]
        /\ job[w].kind = "block" /\ Become(w, "body")
    BY <1>5 DEF Unblock, DestroyTask, WaitsFor, Does
  <2>3. UNCHANGED <<program, caller, pool, fault, mutex, runner, frame, entry, future>>
    BY <1>5 DEF Unblock, outside
  <2> QED  BY <1>1, <1>2, <2>1, <2>2, <2>3, QuietStep
<1>6. CASE Detach(w, u)
  <2>1. UNCHANGED <<program, caller, pool, fault, mutex, runner, frame, entry, future,
                    job, queue, asked>>
    BY <1>6 DEF Detach, outside
  <2>2. KeepsResumes
    BY <2>1, SameResumes DEF Inv
  <2>3. owner' = [owner EXCEPT ![u] = "detached"]
    BY <1>6 DEF Detach
  <2> QED  BY <1>1, <1>2, <2>1, <2>2, <2>3, QuietStep
<1> QED
  BY <1>3, <1>4, <1>5, <1>6

\* The thread that called run.
LEMMA MainStep ==
  ASSUME Inv, Main
  PROVE  Inv'
<1>1. /\ owner \in [Tasks -> Owners] /\ asked \subseteq Tasks /\ Root \in Tasks
      /\ "destroyed" \in Owners /\ "destroyed" \notin Tasks
      /\ caller \in {"blocked", "released", "joining", "returned"}
      /\ pool \in {"open", "stopped"}
  BY RuntimeAssumption DEF Inv, TypeOK, Owners
<1>2. CASE Return
  <2>1. KeepsResumes /\ asked' \subseteq Tasks
    BY <1>1, <1>2, RequestAbortFacts DEF Return, DestroyTask
  <2>2. /\ owner' = [owner EXCEPT ![Root] = "destroyed"] /\ caller' = "released"
        /\ UNCHANGED <<program, pool, fault, mutex, runner, frame, entry, future,
                       job>>
    BY <1>2 DEF Return, DestroyTask
  <2>3. /\ owner' \in [Tasks -> Owners]
        /\ \A v \in Tasks : owner'[v] \in Tasks => owner'[v] = owner[v]
    BY <1>1, <2>2
  <2> QED  BY <1>1, <2>1, <2>2, <2>3, QuietStep
<1>3. CASE StopPool \/ Join
  <2>1. /\ caller' \in {"joining", "returned"} /\ pool' \in {"open", "stopped"}
        /\ UNCHANGED <<program, fault, queue, mutex, runner, frame, entry, asked,
                       owner, future, job>>
    BY <1>1, <1>3 DEF StopPool, Join, tasks
  <2>2. KeepsResumes
    BY <2>1, SameResumes DEF Inv
  <2> QED  BY <1>1, <2>1, <2>2, QuietStep
<1> QED
  BY <1>2, <1>3 DEF Main

-----------------------------------------------------------------------------
\* A task is spawned, on an executor that runs one handler at a time.
LEMMA LaunchStep ==
  ASSUME Inv, NEW w \in Workers, NEW u \in Tasks, NEW r \in Runners,
         Serial(r.executor), Launch(u, r), job[w].kind = "body",
         UNCHANGED <<program, caller, pool, fault, mutex, asked>>,
         job' = job \/ Become(w, "block"),
         owner' \in [Tasks -> Owners],
         \A v \in Tasks : owner'[v] \in Tasks =>
           \/ owner'[v] \in {u, owner[v]}
           \/ frame[owner'[v]] \notin {"none", "gone"},
         future' \in [Tasks -> {"none", "pending", "set"}]
  PROVE  Inv'
<1>1. /\ TypeOK /\ JobInv /\ SerialInv /\ QueueInv /\ EntryInv /\ OwnInv
      /\ runner' = [runner EXCEPT ![u] = r]
      /\ frame' = [frame EXCEPT ![u] = "queued"] /\ entry' = entry \cup {u}
      /\ queue' = Post(queue, r.executor, Resume(u))
      /\ frame[u] = "none" /\ r.executor \in Executors
      /\ Resume(u) \in Resumptions(u)
  BY RunnersFacts DEF Inv, Launch, Fresh, Resumptions
<1>2. /\ runner' \in [Tasks -> Runners] /\ runner'[u] = r
      /\ frame' \in [Tasks -> Frames] /\ frame'[u] = "queued"
      /\ \A t \in Tasks \ {u} : frame'[t] = frame[t] /\ runner'[t] = runner[t]
  BY <1>1 DEF TypeOK, Frames
<1>3. PostsResume(u, r.executor)
  BY <1>1, PostResume
<1>4. /\ job' \in [Workers -> Jobs]
      /\ \A v \in Workers :
           /\ job'[v].task = job[v].task /\ job'[v].on = job[v].on
           /\ \/ job'[v].kind = job[v].kind
              \/ job'[v].kind = "block" /\ job[v].kind = "body"
  <2>1. CASE job' = job
    BY <1>1, <2>1 DEF TypeOK, Jobs
  <2>2. CASE Become(w, "block")
    <3>1. /\ job' \in [Workers -> Jobs]
          /\ job'[w].kind = "block" /\ job'[w].task = job[w].task
          /\ job'[w].on = job[w].on
          /\ \A v \in Workers \ {w} : job'[v] = job[v]
      BY <1>1, <2>2, BecomeFacts
    <3> QED  BY <3>1
  <2> QED  BY <2>1, <2>2
<1>5. TypeOK'
  <2>1. MutexOK'
    <3>1. MutexOK /\ mutex' = mutex
      BY <1>1 DEF TypeOK, MutexOK
    <3>2. \A v \in Workers : job[v].kind \in {"unlock", "destroy"} =>
            job'[v].kind = job[v].kind /\ job'[v].task = job[v].task
      BY <1>4
    <3>3. None \notin Workers
      BY RuntimeAssumption
    <3> QED  BY <3>1, <3>2, <3>3 DEF MutexOK
  <2>2. entry' \subseteq Tasks /\ queue' \in [Executors -> Seq(Handlers)]
    BY <1>1, <1>3 DEF TypeOK, PostsResume
  <2> QED  BY <1>1, <1>2, <1>4, <2>1, <2>2 DEF TypeOK, MutexOK, Jobs, Frames
<1>6. JobInv'
  <2> SUFFICES ASSUME NEW v \in Workers PROVE JobOf(v)'
    BY DEF JobInv
  <2>1. JobOf(v) /\ job[v].task \in Tasks
    BY <1>1 DEF JobInv, TypeOK
  <2>2. CASE job[v].task = u
    BY <1>1, <1>4, <2>1, <2>2 DEF JobOf, InBody, Holding
  <2>3. CASE job[v].task # u
    BY <1>2, <1>4, <2>1, <2>3 DEF JobOf, InBody, Holding
  <2> QED  BY <2>2, <2>3
<1>7. SerialInv'
  <2>1. \A v \in Workers : job'[v].kind # "idle" =>
          job[v].kind # "idle" /\ job'[v].on = job[v].on
    BY <1>4
  <2>2. \A t \in Tasks : Serial(runner'[t].executor)
    BY <1>1, <1>2 DEF SerialInv
  <2> QED  BY <1>1, <2>1, <2>2, SerialStep
<1>8. QueueInv'
  BY <1>1, <1>2, <1>3, PostsQueueInv
<1>9. EntryInv'
  BY <1>1, <1>2 DEF EntryInv
<1>10. OwnInv'
  BY <1>1, <1>2 DEF OwnInv
<1> QED
  BY <1>5, <1>6, <1>7, <1>8, <1>9, <1>10 DEF Inv

\* SerialRunner makes serial executors of serial executors.
LEMMA RunnerFacts ==
  ASSUME TypeOK, NEW u \in Tasks, NEW t \in Tasks, Serial(runner[t].executor)
  PROVE  /\ ForkRunner(runner[t], u) \in Runners
         /\ Serial(ForkRunner(runner[t], u).executor)
         /\ Plain(runner[t].executor) \in Runners
         /\ Serial(Plain(runner[t].executor).executor)
         /\ BlockOnRunner(runner[t], u) \in Runners
         /\ Serial(BlockOnRunner(runner[t], u).executor)
<1> DEFINE r == runner[t]
<1>1. /\ r.executor \in Executors
      /\ r.inner = r.executor \/ r.inner \in Pools
      /\ Plain(r.executor) \in Runners /\ Plain(r.executor).executor = r.executor
  BY RunnersFacts DEF TypeOK, Runners, Plain
<1>2. ASSUME NEW k \in Pools
      PROVE  /\ OfStrand(Strand(k, u)) \in Runners
             /\ Serial(OfStrand(Strand(k, u)).executor)
  <2>1. Strand(k, u) \in Executors \ Pools
    BY StrandFacts
  <2> QED  BY <2>1 DEF Runners, OfStrand, Serial
<1>3. CASE r.inner = r.executor
  BY <1>1, <1>2, <1>3, StrandFacts DEF ForkRunner, BlockOnRunner
<1>4. CASE r.inner # r.executor
  BY <1>1, <1>2, <1>4, StrandFacts DEF ForkRunner, BlockOnRunner
<1> QED
  BY <1>3, <1>4

LEMMA SpawnStep ==
  ASSUME Inv, NEW w \in Workers, NEW u \in Tasks, Spawn(w, u)
  PROVE  Inv'
<1> DEFINE t == job[w].task
<1>1. /\ TypeOK /\ SerialInv /\ EntryInv /\ OwnInv /\ JobOf(w)
      /\ job[w].kind = "body" /\ t \in Tasks
      /\ UNCHANGED <<program, caller, pool, fault, job, mutex, asked, future>>
  BY DEF Inv, JobInv, Spawn, Does, outside, TypeOK
<1>2. PICK r \in Runners : Serial(r.executor) /\ Launch(u, r)
  <2>1. Serial(runner[t].executor)
    BY <1>1 DEF SerialInv
  <2>2. Launch(u, ForkRunner(runner[t], u)) \/ Launch(u, Plain(runner[t].executor))
    BY DEF Spawn
  <2> QED  BY <1>1, <2>1, <2>2, RunnerFacts
<1>3. PICK moved \in SUBSET Owned(t), k \in Keepers(t, u) :
        owner' = [v \in Tasks |->
                    IF v = u THEN k ELSE IF v \in moved THEN u ELSE owner[v]]
  BY DEF Spawn
<1>4. /\ k \in Tasks /\ (k = u \/ frame[k] \notin {"none", "gone"})
      /\ owner \in [Tasks -> Owners] /\ Tasks \subseteq Owners
      /\ future \in [Tasks -> {"none", "pending", "set"}]
  <2>1. frame[t] = "running"
    BY <1>1 DEF JobOf, InBody
  <2>2. k \in {t, u} \cup entry
    BY <1>3 DEF Keepers
  <2>3. k \in entry => k \in Tasks /\ frame[k] \notin {"none", "gone"}
    BY <1>1 DEF EntryInv, TypeOK
  <2>4. /\ owner \in [Tasks -> Owners] /\ Tasks \subseteq Owners
        /\ future \in [Tasks -> {"none", "pending", "set"}]
    BY <1>1 DEF TypeOK, Owners
  <2> QED  BY <1>1, <2>1, <2>2, <2>3, <2>4
<1>5. /\ owner' \in [Tasks -> Owners]
      /\ \A v \in Tasks : owner'[v] \in {k, u, owner[v]}
  BY <1>3, <1>4
<1> HIDE DEF t
<1> QED
  BY <1>1, <1>2, <1>4, <1>5, LaunchStep

LEMMA SpawnBackgroundStep ==
  ASSUME Inv, NEW w \in Workers, NEW u \in Tasks, SpawnBackground(w, u)
  PROVE  Inv'
<1> DEFINE t == job[w].task
           r == ForkRunner(runner[t], u)
<1>1. /\ TypeOK /\ SerialInv
      /\ job[w].kind = "body" /\ t \in Tasks
      /\ UNCHANGED <<program, caller, pool, fault, job, mutex, asked, future>>
      /\ Launch(u, r) /\ owner' = [owner EXCEPT ![u] = "background"]
  BY DEF Inv, SpawnBackground, Does, outside, TypeOK
<1>2. r \in Runners /\ Serial(r.executor)
  <2>1. Serial(runner[t].executor)
    BY <1>1 DEF SerialInv
  <2> QED  BY <1>1, <2>1, RunnerFacts
<1>3. /\ owner' \in [Tasks -> Owners]
      /\ \A v \in Tasks : owner'[v] \in Tasks => owner'[v] = owner[v]
      /\ future \in [Tasks -> {"none", "pending", "set"}]
  BY <1>1, RuntimeAssumption DEF TypeOK, Owners
<1> HIDE DEF t, r
<1> QED
  BY <1>1, <1>2, <1>3, LaunchStep

LEMMA BlockOnStep ==
  ASSUME Inv, NEW w \in Workers, NEW u \in Tasks, BlockOn(w, u)
  PROVE  Inv'
<1> DEFINE t == job[w].task
           r == BlockOnRunner(runner[t], u)
<1>1. /\ TypeOK /\ SerialInv /\ JobOf(w)
      /\ job[w].kind = "body" /\ t \in Tasks
      /\ UNCHANGED <<program, caller, pool, fault, mutex, asked>>
      /\ Launch(u, r) /\ owner' = [owner EXCEPT ![u] = t]
      /\ future' = [future EXCEPT ![u] = "pending"] /\ Become(w, "block")
  BY DEF Inv, JobInv, BlockOn, Does, outside, TypeOK
<1>2. r \in Runners /\ Serial(r.executor)
  <2>1. Serial(runner[t].executor)
    BY <1>1 DEF SerialInv
  <2> QED  BY <1>1, <2>1, RunnerFacts
<1>3. /\ owner' \in [Tasks -> Owners]
      /\ \A v \in Tasks : owner'[v] \in {t, owner[v]}
      /\ frame[t] = "running"
  BY <1>1 DEF TypeOK, Owners, JobOf, InBody
<1>4. future' \in [Tasks -> {"none", "pending", "set"}]
  BY <1>1 DEF TypeOK
<1> HIDE DEF t, r
<1> QED
  BY <1>1, <1>2, <1>3, <1>4, LaunchStep

\* roam_to, up to the end of its block.
LEMMA RoamStep ==
  ASSUME Inv, NEW w \in Workers, NEW r \in Places, Roam(w, r)
  PROVE  Inv'
<1> DEFINE t == job[w].task
<1>1. /\ TypeOK /\ JobOf(w) /\ SerialInv /\ QueueInv /\ EntryInv /\ OwnInv
      /\ UNCHANGED <<program, caller, pool, fault, entry, asked, owner, future>>
      /\ job[w].kind = "body" /\ t \in Tasks /\ mutex[t] = None
      /\ mutex' = [mutex EXCEPT ![t] = w]
      /\ runner' = [runner EXCEPT ![t] = r]
      /\ frame' = [frame EXCEPT ![t] = "queued"]
      /\ queue' = Post(queue, r.executor, Resume(t)) /\ Become(w, "unlock")
      /\ Serial(r.executor)
  BY DEF Inv, JobInv, Roam, outside, Does, TypeOK
<1>2. /\ r \in Runners /\ r.executor \in Executors
      /\ Resume(t) \in Resumptions(t)
  BY StrandFacts, RunnersFacts DEF Resumptions
<1> HIDE DEF t
<1>3. /\ job' \in [Workers -> Jobs] /\ job'[w].kind = "unlock"
      /\ job'[w].task = t /\ job'[w].on = job[w].on
      /\ \A v \in Workers \ {w} : job'[v] = job[v]
  BY <1>1, BecomeFacts DEF t
<1>4. frame[t] = "running" /\ t = job[w].task
  BY <1>1 DEF JobOf, InBody, t
<1>5. /\ frame' \in [Tasks -> Frames] /\ frame'[t] = "queued"
      /\ runner' \in [Tasks -> Runners] /\ runner'[t] = r
      /\ mutex' \in [Tasks -> Workers \cup {None}] /\ mutex'[t] = w
      /\ \A u \in Tasks \ {t} :
           frame'[u] = frame[u] /\ runner'[u] = runner[u] /\ mutex'[u] = mutex[u]
  BY <1>1, <1>2 DEF TypeOK, Frames
<1>6. PostsResume(t, r.executor)
  BY <1>1, <1>2, <1>4, PostResume
<1>7. TypeOK'
  <2>1. MutexOK'
    <3> SUFFICES ASSUME NEW u \in Tasks, mutex'[u] # None
                 PROVE  /\ job'[mutex'[u]].task = u
                        /\ job'[mutex'[u]].kind \in {"unlock", "destroy"}
      BY <1>5 DEF MutexOK
    <3>1. CASE u = t
      BY <1>3, <1>5, <3>1
    <3>2. CASE u # t
      <4>1. mutex'[u] = mutex[u] /\ mutex[u] \in Workers
        BY <1>1, <1>5, <3>2 DEF TypeOK
      <4>2. /\ job[mutex[u]].task = u
            /\ job[mutex[u]].kind \in {"unlock", "destroy"}
        BY <1>1, <4>1 DEF TypeOK
      <4> QED  BY <1>1, <1>3, <4>1, <4>2
    <3> QED  BY <3>1, <3>2
  <2> QED  BY <1>1, <1>3, <1>5, <1>6, <2>1
           DEF TypeOK, MutexOK, Jobs, Frames, PostsResume
<1>8. JobInv'
  <2>1. \A v \in Workers \ {w} : JobOf(v)'
    BY <1>1, <1>3, <1>4, <1>5, OthersStep DEF InBody
  <2>2. JobOf(w)'
    BY <1>3, <1>5 DEF JobOf, InBody, Holding
  <2> QED  BY <2>1, <2>2 DEF JobInv
<1>9. SerialInv'
  <2>1. \A u \in Tasks : Serial(runner'[u].executor)
    BY <1>1, <1>2, <1>5 DEF SerialInv
  <2> QED  BY <1>1, <1>3, <2>1, SerialStep
<1>10. QueueInv'
  BY <1>1, <1>2, <1>4, <1>5, <1>6, PostsQueueInv
<1>11. EntryInv' /\ OwnInv'
  BY <1>1, <1>4, <1>5 DEF EntryInv, OwnInv
<1> QED
  BY <1>7, <1>8, <1>9, <1>10, <1>11 DEF Inv

\* What a coroutine awaits happens.
LEMMA CompleteStep ==
  ASSUME Inv, NEW t \in Tasks, Complete(t)
  PROVE  Inv'
<1>1. /\ TypeOK /\ JobInv /\ SerialInv /\ QueueInv /\ EntryInv /\ OwnInv
      /\ UNCHANGED <<program, caller, pool, fault, job, mutex, runner, entry, asked,
                     owner, future>>
      /\ frame[t] = "parked" /\ frame' = [frame EXCEPT ![t] = "queued"]
      /\ queue' = Post(queue, runner[t].executor, GuardedResume(t))
      /\ runner[t].executor \in Executors /\ GuardedResume(t) \in Resumptions(t)
  BY RunnersFacts DEF Inv, Complete, outside, TypeOK, Resumptions
<1>2. PostsResume(t, runner[t].executor)
  BY <1>1, PostResume
<1>3. /\ frame' \in [Tasks -> Frames] /\ frame'[t] = "queued"
      /\ \A u \in Tasks \ {t} : frame'[u] = frame[u] /\ runner'[u] = runner[u]
  BY <1>1 DEF TypeOK, Frames
<1>4. TypeOK'
  BY <1>1, <1>2, <1>3 DEF TypeOK, Frames, PostsResume
<1>5. JobInv'
  BY <1>1, <1>3 DEF JobInv, JobOf, TypeOK, InBody
<1>6. SerialInv'
  BY <1>1, SerialStep DEF SerialInv
<1>7. QueueInv'
  BY <1>1, <1>2, <1>3, PostsQueueInv
<1>8. EntryInv' /\ OwnInv'
  BY <1>1, <1>3 DEF EntryInv, OwnInv
<1> QED
  BY <1>4, <1>5, <1>6, <1>7, <1>8 DEF Inv

LEMMA InvStep == Inv /\ [Next]_vars => Inv'
<1> SUFFICES ASSUME Inv, [Next]_vars PROVE Inv'
  OBVIOUS
<1>1. CASE UNCHANGED vars
  <2>1. UNCHANGED <<program, caller, pool, fault, queue, job, mutex, runner, frame,
                    entry, asked, owner, future>>
    BY <1>1 DEF vars, outside, tasks
  <2>2. TypeOK'
    BY <2>1 DEF Inv, TypeOK
  <2>3. SerialInv'
    BY <2>1, SerialStep DEF Inv, SerialInv
  <2>4. JobInv'
    BY <2>1 DEF Inv, JobInv, JobOf
  <2>5. QueueInv'
    BY <2>1 DEF Inv, QueueInv, Wakes
  <2>6. EntryInv' /\ OwnInv'
    BY <2>1 DEF Inv, EntryInv, OwnInv
  <2> QED  BY <2>2, <2>3, <2>4, <2>5, <2>6 DEF Inv
<1>2. ASSUME NEW w \in Workers, Step(w) PROVE Inv'
  BY <1>2, ChaserStep, EndChaserStep, SpawnStep, SpawnBackgroundStep, BlockOnStep,
     OwnerStep, RoamStep, UnlockStep, SuspendStep, EndingStep, ExitStep DEF Step
<1>3. ASSUME NEW w \in Workers, NEW e \in Executors, Take(w, e) PROVE Inv'
  BY <1>3, TakeStep
<1>4. ASSUME NEW t \in Tasks, Complete(t) PROVE Inv'
  BY <1>4, CompleteStep
<1>5. CASE Main
  BY <1>5, MainStep
<1> QED
  BY <1>1, <1>2, <1>3, <1>4, <1>5 DEF Next

LEMMA InvHolds == Spec => []Inv
<1>1. Init => Inv
  BY InvInit
<1> QED
  BY <1>1, InvStep, PTL DEF Spec

-----------------------------------------------------------------------------
(***************************************************************************)
(* A mutex is held by a worker that is unlocking after roam_to, or that    *)
(* destroys the frame: the AbortChaser and the lock_guard release it in    *)
(* every program.                                                          *)
(***************************************************************************)
THEOREM TypeCorrect == Spec => []TypeOK
<1>1. Inv => TypeOK
  BY DEF Inv
<1> QED
  BY <1>1, InvHolds, PTL

(***************************************************************************)
(* A task is a set of coroutines executed sequentially, in every program:  *)
(* wherever it is spawned, and wherever it roams to, one worker at a time  *)
(* runs it or destroys it.                                                 *)
(***************************************************************************)
THEOREM OneThreadInside == Spec => []OneInside
<1>1. ASSUME Inv PROVE OneInside
  <2> SUFFICES ASSUME NEW t \in Tasks PROVE Cardinality(Inside(t)) <= 1
    BY DEF OneInside
  <2>1. CASE Inside(t) = {}
    BY <2>1, FS_EmptySet
  <2>2. ASSUME NEW w \in Inside(t) PROVE Cardinality(Inside(t)) <= 1
    <3>1. ASSUME NEW v \in Inside(t) PROVE v = w
      <4>1. /\ w \in Workers /\ v \in Workers /\ job[w].task = job[v].task
            /\ job[w].kind \in InBody \cup {"exit", "destroy"}
            /\ job[v].kind \in InBody \cup {"exit", "destroy"}
        BY DEF Inside, InBody
      <4> QED  BY <1>1, <4>1, InsideFacts DEF Inv
    <3>2. Inside(t) = {w}
      BY <3>1
    <3> QED  BY <3>2, FS_Singleton
  <2> QED  BY <2>1, <2>2
<1> QED
  BY <1>1, InvHolds, PTL

-----------------------------------------------------------------------------
\* What steps do to jobs, coroutines and owners.
Alive == {"queued", "running", "parked"}

JobStep ==
  \/ job' = job
  \/ \E w \in Workers :
       /\ \A v \in Workers \ {w} : job'[v] = job[v]
       /\ \/ /\ job[w].kind \notin {"ending", "exit"}
             /\ job'[w].kind \notin {"unlock", "ending"}
          \/ SetPromise(w) \/ Finish(w) \/ Exit(w)
          \/ \E r \in Places : Roam(w, r)

FrameStep ==
  \A t \in Tasks :
    /\ \/ frame'[t] = frame[t] \/ frame'[t] \in Alive \/ frame[t] \notin Alive
       \/ mutex[t] = None \/ owner[t] = "background"
    /\ frame[t] = "gone" => frame'[t] = "gone"

\* Whom a task belongs to changes when it is spawned, moved or let go.
OwnerStays ==
  \A t \in Tasks : owner'[t] \in Tasks => owner'[t] = owner[t]

OwnerMoves ==
  \/ OwnerStays
  \/ \E w \in Workers, u \in Tasks : Spawn(w, u) \/ BlockOn(w, u)

LEMMA StepFacts ==
  ASSUME Inv, Next
  PROVE  program' = program /\ JobStep /\ FrameStep
<1>0. /\ TypeOK /\ JobInv /\ EntryInv
      /\ job \in [Workers -> Jobs] /\ frame \in [Tasks -> Frames]
      /\ \A w \in Workers : job[w].task \in Tasks
  BY DEF Inv, TypeOK, Jobs, Frames
<1>1. ASSUME UNCHANGED <<program, job, frame>> PROVE program' = program /\ JobStep /\ FrameStep
  BY <1>1 DEF JobStep, FrameStep
<1>2. ASSUME NEW u \in Tasks, NEW r, Launch(u, r) PROVE FrameStep
  BY <1>0, <1>2 DEF Launch, Fresh, FrameStep, Alive, Frames
<1>3. ASSUME NEW w \in Workers, NEW e \in Executors, Take(w, e)
      PROVE  program' = program /\ JobStep /\ FrameStep
  <2>1. PICK t \in Tasks : TakeResume(w, e, t) \/ TakeChaser(w, e, t)
    BY <1>3 DEF Take
  <2>2. program' = program /\ job[w].kind = "idle"
    BY <1>3 DEF Take, outside, NextIdle, Does
  <2>3. FrameStep
    BY <1>0, <2>1 DEF TakeResume, TakeChaser, FrameStep, Alive, Frames
  <2>4. JobStep
    BY <1>0, <2>1, <2>2 DEF TakeResume, TakeChaser, JobStep, Job, Jobs
  <2> QED  BY <2>2, <2>3, <2>4
<1>4. ASSUME NEW w \in Workers, RunAbortChaser(w)
      PROVE  program' = program /\ JobStep /\ FrameStep
  <2>1. program' = program /\ job[w].kind = "chaser" /\ mutex[job[w].task] = None
    BY <1>4 DEF RunAbortChaser, outside, Does
  <2>2. \/ frame' = frame \/ /\ frame' = [frame EXCEPT ![job[w].task] = "destroying"]
                             /\ job[w].task \in entry
    BY <1>4 DEF RunAbortChaser
  <2>3. FrameStep
    BY <1>0, <2>1, <2>2 DEF FrameStep, EntryInv, Frames
  <2>4. job' = [job EXCEPT ![w] = Idle] \/ job' = [job EXCEPT ![w].kind = "destroy"]
    BY <1>4 DEF RunAbortChaser, Done, Become
  <2>5. JobStep
    BY <1>0, <2>1, <2>4 DEF JobStep, Idle, Job, Jobs
  <2> QED  BY <2>1, <2>3, <2>5
<1>5. ASSUME NEW w \in Workers, EndAbortChaser(w)
      PROVE  program' = program /\ JobStep /\ FrameStep
  <2>1. /\ program' = program /\ job[w].kind = "destroy" /\ Done(w)
        /\ frame[job[w].task] = "destroying"
        /\ frame' = [frame EXCEPT ![job[w].task] = "gone"]
    BY <1>0, <1>5 DEF EndAbortChaser, outside, Does, JobInv, JobOf
  <2> QED  BY <1>0, <2>1
           DEF JobStep, FrameStep, Alive, Done, Idle, Job, Jobs, Frames
<1>6. ASSUME NEW w \in Workers, NEW u \in Tasks,
             Spawn(w, u) \/ SpawnBackground(w, u)
      PROVE  program' = program /\ JobStep /\ FrameStep
  <2>1. program' = program /\ job' = job /\ \E r : Launch(u, r)
    BY <1>6 DEF Spawn, SpawnBackground, outside
  <2> QED  BY <1>2, <2>1 DEF JobStep
<1>7. ASSUME NEW w \in Workers, NEW u \in Tasks, BlockOn(w, u)
      PROVE  program' = program /\ JobStep /\ FrameStep
  <2>1. /\ program' = program /\ job[w].kind = "body" /\ Become(w, "block")
        /\ Launch(u, BlockOnRunner(runner[job[w].task], u))
    BY <1>7 DEF BlockOn, outside, Does
  <2>2. job'[w].kind = "block" /\ \A v \in Workers \ {w} : job'[v] = job[v]
    BY <1>0, <2>1, BecomeFacts
  <2> QED  BY <1>2, <2>1, <2>2 DEF JobStep
<1>8. ASSUME NEW w \in Workers, NEW u \in Tasks, Unblock(w, u)
      PROVE  program' = program /\ JobStep /\ FrameStep
  <2>1. /\ program' = program /\ job[w].kind = "block" /\ Become(w, "body")
        /\ frame' = frame
    BY <1>8 DEF Unblock, WaitsFor, outside, Does
  <2>2. job'[w].kind = "body" /\ \A v \in Workers \ {w} : job'[v] = job[v]
    BY <1>0, <2>1, BecomeFacts
  <2> QED  BY <2>1, <2>2 DEF JobStep, FrameStep
<1>9. ASSUME NEW w \in Workers, NEW u \in Tasks,
             Drop(w, u) \/ Abort(w, u) \/ Detach(w, u)
      PROVE  program' = program /\ JobStep /\ FrameStep
  BY <1>1, <1>9 DEF Drop, Abort, Detach, outside
<1>10. ASSUME NEW w \in Workers, NEW r \in Places, Roam(w, r)
       PROVE  program' = program /\ JobStep /\ FrameStep
  <2>1. /\ program' = program /\ Become(w, "unlock")
        /\ frame' = [frame EXCEPT ![job[w].task] = "queued"]
        /\ frame[job[w].task] = "running"
    BY <1>0, <1>10 DEF Roam, outside, Does, JobInv, JobOf, InBody
  <2>2. \A v \in Workers \ {w} : job'[v] = job[v]
    BY <1>0, <2>1, BecomeFacts
  <2> QED  BY <1>0, <1>10, <2>1, <2>2 DEF JobStep, FrameStep, Alive, Frames
<1>11. ASSUME NEW w \in Workers, Unlock(w)
       PROVE  program' = program /\ JobStep /\ FrameStep
  <2>1. program' = program /\ job[w].kind = "unlock" /\ Done(w) /\ frame' = frame
    BY <1>11 DEF Unlock, outside, tasks, Does
  <2>2. job'[w].kind = "idle" /\ \A v \in Workers \ {w} : job'[v] = job[v]
    BY <1>0, <2>1, DoneFacts
  <2> QED  BY <2>1, <2>2 DEF JobStep, FrameStep
<1>12. ASSUME NEW w \in Workers, Suspend(w)
       PROVE  program' = program /\ JobStep /\ FrameStep
  <2>1. /\ program' = program /\ job[w].kind = "body" /\ Done(w)
        /\ frame' = [frame EXCEPT ![job[w].task] = "parked"]
        /\ frame[job[w].task] = "running"
    BY <1>0, <1>12 DEF Suspend, outside, Does, JobInv, JobOf, InBody
  <2>2. job'[w].kind = "idle" /\ \A v \in Workers \ {w} : job'[v] = job[v]
    BY <1>0, <2>1, DoneFacts
  <2> QED  BY <1>0, <2>1, <2>2 DEF JobStep, FrameStep, Alive, Frames
<1>13. ASSUME NEW w \in Workers, SetPromise(w)
       PROVE  program' = program /\ JobStep /\ FrameStep
  <2>1. program' = program /\ frame' = frame /\ Become(w, "ending")
    BY <1>13 DEF SetPromise, outside
  <2>2. \A v \in Workers \ {w} : job'[v] = job[v]
    BY <1>0, <2>1, BecomeFacts
  <2> QED  BY <1>13, <2>1, <2>2 DEF JobStep, FrameStep
<1>14. ASSUME NEW w \in Workers, Finish(w)
       PROVE  program' = program /\ JobStep /\ FrameStep
  <2>1. /\ program' = program /\ Become(w, "exit")
        /\ frame' = [frame EXCEPT ![job[w].task] = "exiting"]
        /\ frame[job[w].task] = "running"
        /\ owner[job[w].task] = "background" \/ mutex[job[w].task] = None
    BY <1>0, <1>14 DEF Finish, Ends, outside, Does, JobInv, JobOf, InBody
  <2>2. \A v \in Workers \ {w} : job'[v] = job[v]
    BY <1>0, <2>1, BecomeFacts
  <2> QED  BY <1>0, <1>14, <2>1, <2>2 DEF JobStep, FrameStep, Frames
<1>15. ASSUME NEW w \in Workers, Exit(w)
       PROVE  program' = program /\ JobStep /\ FrameStep
  <2>1. /\ program' = program /\ Done(w)
        /\ frame' = [frame EXCEPT ![job[w].task] = "gone"]
        /\ frame[job[w].task] = "exiting"
    BY <1>0, <1>15 DEF Exit, outside, Does, JobInv, JobOf
  <2>2. \A v \in Workers \ {w} : job'[v] = job[v]
    BY <1>0, <2>1, DoneFacts
  <2> QED  BY <1>0, <1>15, <2>1, <2>2 DEF JobStep, FrameStep, Alive, Frames
<1>16. ASSUME NEW t \in Tasks, Complete(t)
       PROVE  program' = program /\ JobStep /\ FrameStep
  BY <1>0, <1>16 DEF Complete, outside, JobStep, FrameStep, Alive, Frames
<1>17. CASE Main
  BY <1>1, <1>17 DEF Main, Return, StopPool, Join, tasks
<1>18. ASSUME NEW w \in Workers, Step(w)
       PROVE  program' = program /\ JobStep /\ FrameStep
  BY <1>4, <1>5, <1>6, <1>7, <1>8, <1>9, <1>10, <1>11, <1>12, <1>13, <1>14, <1>15,
     <1>18 DEF Step
<1> QED
  BY <1>3, <1>16, <1>17, <1>18 DEF Next

LEMMA OwnerFacts ==
  ASSUME Inv, Next
  PROVE  /\ OwnerMoves
         /\ \A t \in Tasks : owner'[t] = "background" =>
              owner[t] = "background" \/ "background" \in program.uses
<1> DEFINE Stays == \A t \in Tasks : owner'[t] = "background" =>
                      owner[t] = "background" \/ "background" \in program.uses
<1>0. /\ owner \in [Tasks -> Owners] /\ Root \in Tasks
      /\ {"background", "detached", "destroyed"} \cap Tasks = {}
      /\ \A w \in Workers : job[w].task \in Tasks
  BY RuntimeAssumption DEF Inv, TypeOK
<1>1. ASSUME owner' = owner PROVE OwnerMoves /\ Stays
  BY <1>1 DEF OwnerMoves, OwnerStays
<1>2. ASSUME NEW u \in Tasks, NEW x \in {"detached", "destroyed"},
             owner' = [owner EXCEPT ![u] = x]
      PROVE  OwnerMoves /\ Stays
  BY <1>0, <1>2 DEF OwnerMoves, OwnerStays
<1>3. ASSUME NEW w \in Workers, NEW u \in Tasks, Spawn(w, u)
      PROVE  OwnerMoves /\ Stays
  <2>1. PICK moved \in SUBSET Owned(job[w].task), k \in Keepers(job[w].task, u) :
          owner' = [v \in Tasks |->
                      IF v = u THEN k ELSE IF v \in moved THEN u ELSE owner[v]]
    BY <1>3 DEF Spawn
  <2>2. k \in Tasks
    BY <1>0 DEF Keepers, Inv, TypeOK
  <2>3. Stays
    BY <1>0, <2>1, <2>2
  <2> QED  BY <1>3, <2>3 DEF OwnerMoves
<1>4. ASSUME NEW w \in Workers, NEW u \in Tasks, BlockOn(w, u)
      PROVE  OwnerMoves /\ Stays
  <2>1. owner' = [owner EXCEPT ![u] = job[w].task]
    BY <1>4 DEF BlockOn
  <2>2. Stays
    BY <1>0, <2>1
  <2> QED  BY <1>4, <2>2 DEF OwnerMoves
<1>5. ASSUME NEW w \in Workers, NEW u \in Tasks, SpawnBackground(w, u)
      PROVE  OwnerMoves /\ Stays
  <2>1. /\ owner' = [owner EXCEPT ![u] = "background"]
        /\ "background" \in program.uses
    BY <1>5 DEF SpawnBackground
  <2> QED  BY <1>0, <2>1 DEF OwnerMoves, OwnerStays
<1>6. ASSUME NEW w \in Workers, NEW u \in Tasks,
             Unblock(w, u) \/ Drop(w, u) \/ Detach(w, u)
      PROVE  OwnerMoves /\ Stays
  <2>1. \/ owner' = [owner EXCEPT ![u] = "destroyed"]
        \/ owner' = [owner EXCEPT ![u] = "detached"]
    BY <1>6 DEF Unblock, Drop, Detach, DestroyTask
  <2> QED  BY <1>2, <2>1
<1>7. ASSUME NEW w \in Workers, NEW u \in Tasks, Abort(w, u)
      PROVE  OwnerMoves /\ Stays
  BY <1>1, <1>7 DEF Abort
<1>8. ASSUME NEW w \in Workers,
             \/ RunAbortChaser(w) \/ EndAbortChaser(w) \/ Unlock(w) \/ Suspend(w)
             \/ SetPromise(w) \/ Finish(w) \/ Exit(w)
             \/ \E r \in Places : Roam(w, r)
             \/ \E e \in Executors : Take(w, e)
      PROVE  OwnerMoves /\ Stays
  <2>1. owner' = owner
    BY <1>8 DEF RunAbortChaser, EndAbortChaser, Unlock, Suspend, SetPromise, Finish,
                Exit, Roam, Take, tasks
  <2> QED  BY <1>1, <2>1
<1>9. ASSUME NEW t \in Tasks, Complete(t) PROVE OwnerMoves /\ Stays
  BY <1>1, <1>9 DEF Complete
<1>10. CASE Main
  <2>1. CASE Return
    BY <1>0, <1>2, <2>1 DEF Return, DestroyTask
  <2>2. CASE StopPool \/ Join
    BY <1>1, <2>2 DEF StopPool, Join, tasks
  <2> QED  BY <1>10, <2>1, <2>2 DEF Main
<1>11. ASSUME NEW w \in Workers, Step(w) PROVE OwnerMoves /\ Stays
  BY <1>3, <1>4, <1>5, <1>6, <1>7, <1>8, <1>11 DEF Step
<1> QED
  BY <1>8, <1>9, <1>10, <1>11 DEF Next

-----------------------------------------------------------------------------
\* A task of spawn_background does not roam: roam_to has no reference to the
\* state that nobody else keeps.
BackgroundStays ==
  \A prog \in Programs : "background" \in prog.uses => prog.places = {}

LEMMA LockStep ==
  ASSUME BackgroundStays, Inv, LockInv, [Next]_vars
  PROVE  LockInv'
<1>1. CASE UNCHANGED vars
  BY <1>1 DEF vars, outside, tasks, LockInv, Does
<1>2. CASE Next
  <2>1. /\ program' = program /\ JobStep /\ FrameStep
        /\ \A t \in Tasks : owner'[t] = "background" =>
             owner[t] = "background" \/ "background" \in program.uses
    BY <1>2, StepFacts, OwnerFacts
  <2>2. ASSUME NEW v \in Workers, job'[v].kind = "unlock"
        PROVE  /\ program'.places # {}
               /\ frame'[job'[v].task] \in Alive
    <3>1. CASE \E r \in Places : Roam(v, r)
      <4>1. /\ job[v].task \in Tasks /\ Become(v, "unlock")
            /\ frame' = [frame EXCEPT ![job[v].task] = "queued"]
            /\ program.places # {}
        BY <3>1 DEF Roam, Inv, TypeOK
      <4>2. job'[v].task = job[v].task
        BY <4>1, BecomeFacts DEF Inv
      <4> QED  BY <2>1, <4>1, <4>2 DEF Alive, Inv, TypeOK
    <3>2. CASE job'[v] = job[v]
      <4> DEFINE t == job[v].task
      <4>1. /\ t \in Tasks /\ frame[t] \in Alive /\ program.places # {}
            /\ mutex[t] = v /\ v # None
        <5>1. job[v].kind = "unlock" /\ t \in Tasks /\ v # None
          BY <2>2, <3>2, RuntimeAssumption DEF Inv, TypeOK
        <5>2. frame[t] \in Alive /\ program.places # {}
          BY <5>1 DEF LockInv, Does, Alive
        <5>3. mutex[t] = v
          BY <5>1 DEF Inv, JobInv, JobOf, Holding
        <5> QED  BY <5>1, <5>2, <5>3
      <4>2. owner[t] # "background"
        BY <4>1 DEF BackgroundStays, LockInv, Inv, TypeOK
      <4>3. frame'[t] \in Alive
        BY <2>1, <4>1, <4>2 DEF FrameStep
      <4> QED  BY <2>1, <3>2, <4>1, <4>3
    <3>3. job'[v] = job[v] \/ \E r \in Places : Roam(v, r)
      <4>1. CASE SetPromise(v) \/ Finish(v) \/ Exit(v)
        <5>1. job'[v].kind \in {"ending", "exit", "idle"}
          BY <4>1, BecomeFacts, DoneFacts DEF SetPromise, Finish, Exit, Inv
        <5> QED  BY <2>2, <5>1
      <4> QED  BY <2>1, <2>2, <4>1 DEF JobStep
    <3> QED  BY <3>1, <3>2, <3>3
  <2> QED  BY <2>1, <2>2 DEF LockInv, Does, Alive
<1> QED
  BY <1>1, <1>2

(***************************************************************************)
(* A mutex is not destroyed while a thread holds it, in any program whose  *)
(* background tasks do not roam: a task that roams cannot end, nor be      *)
(* destroyed, before the guard of roam_to has released the mutex.          *)
(***************************************************************************)
THEOREM MutexKept == ASSUME BackgroundStays PROVE Spec => []MutexOutlives
<1>1. ASSUME Init PROVE LockInv
  <2>1. Caller # "background" /\ None # "background"
    BY RuntimeAssumption
  <2>2. \A t \in Tasks : owner[t] # "background"
    BY <1>1, <2>1 DEF Init
  <2>3. \A w \in Workers : job[w].kind = "idle"
    BY <1>1 DEF Init, Idle, Job
  <2> QED  BY <2>2, <2>3 DEF LockInv, Does
<1>2. Inv /\ LockInv /\ [Next]_vars => LockInv'
  BY LockStep
<1>3. ASSUME Inv, LockInv PROVE MutexOutlives
  <2> SUFFICES ASSUME NEW t \in Tasks, mutex[t] # None PROVE ~Freed(t)
    BY DEF MutexOutlives
  <2>1. PICK w \in Workers : /\ job[w].task = t
                             /\ job[w].kind \in {"unlock", "destroy"}
    BY <1>3 DEF Inv, TypeOK
  <2>2. CASE job[w].kind = "unlock"
    BY <1>3, <2>1, <2>2 DEF LockInv, Does, Freed, Chased
  <2>3. CASE job[w].kind = "destroy"
    BY <1>3, <2>1, <2>3 DEF Freed, Chased
  <2> QED  BY <2>1, <2>2, <2>3
<1> QED
  BY <1>1, <1>2, <1>3, InvHolds, PTL DEF Spec

-----------------------------------------------------------------------------
\* A spawned task belongs to the coroutine that spawned it, and may be given
\* what that one owns: nothing belongs to it before.
LEMMA ForestGrows ==
  ASSUME Forest, NEW t \in Tasks, NEW u \in Tasks, t # u,
         Owned(u) = {}, owner'[u] = t,
         \A v \in Tasks \ {u} :
           owner'[v] = owner[v] \/ (owner'[v] = u /\ owner[v] = t)
  PROVE  Forest'
<1> SUFFICES ASSUME NEW S \in (SUBSET Tasks) \ {{}}
             PROVE  \E x \in S : \A y \in S : owner'[y] # x
  BY DEF Forest
<1>1. CASE u \notin S
  <2>1. PICK x \in S : \A y \in S : owner[y] # x
    BY DEF Forest
  <2>2. \A y \in S : owner'[y] # x
    BY <1>1, <2>1
  <2> QED  BY <2>2
<1>2. CASE u \in S
  <2> DEFINE R == (S \ {u}) \cup {t}
  <2>0. R \in (SUBSET Tasks) \ {{}}
    OBVIOUS
  <2>1. PICK x \in R : \A y \in R : owner[y] # x
    <3> HIDE DEF R
    <3> QED  BY <2>0 DEF Forest
  <2>2. CASE x # t
    <3>1. x \in S /\ x # u
      BY <2>1, <2>2
    <3>2. \A y \in S : owner'[y] # x
      BY <2>1, <2>2, <3>1
    <3> QED  BY <3>1, <3>2
  <2>3. CASE x = t
    <3>1. \A y \in S : owner'[y] # u
      BY <2>1, <2>3 DEF Owned
    <3> QED  BY <1>2, <3>1
  <2> QED  BY <2>2, <2>3
<1> QED
  BY <1>1, <1>2

\* No program keeps a Task in the frame of another running task.
NoneShare == \A prog \in Programs : "share" \notin prog.uses

LEMMA ForestStep ==
  ASSUME NoneShare, Inv, Forest, [Next]_vars
  PROVE  Forest'
<1>0. /\ "share" \notin program.uses /\ owner \in [Tasks -> Owners]
      /\ \A w \in Workers : job[w].task \in Tasks
  BY DEF NoneShare, Inv, TypeOK
<1>1. CASE UNCHANGED vars
  BY <1>1 DEF vars, tasks, Forest
<1>2. CASE OwnerStays
  <2> SUFFICES ASSUME NEW S \in (SUBSET Tasks) \ {{}}
               PROVE  \E x \in S : \A y \in S : owner'[y] # x
    BY DEF Forest
  <2>1. PICK x \in S : \A y \in S : owner[y] # x
    BY DEF Forest
  <2>2. \A y \in S : owner'[y] # x
    BY <1>2, <2>1 DEF OwnerStays
  <2> QED  BY <2>2
<1>3. ASSUME NEW w \in Workers, NEW u \in Tasks, Spawn(w, u) \/ BlockOn(w, u)
      PROVE  Forest'
  <2> DEFINE t == job[w].task
  <2>1. /\ t \in Tasks /\ t # u /\ Owned(u) = {}
    <3>1. job[w].kind = "body" /\ \E r : Launch(u, r)
      BY <1>3 DEF Spawn, BlockOn, Does
    <3>2. frame[u] = "none"
      BY <3>1 DEF Launch, Fresh
    <3>3. frame[t] = "running"
      BY <3>1 DEF Inv, JobInv, JobOf, InBody
    <3> QED  BY <1>0, <3>2, <3>3 DEF Inv, OwnInv, Owned
  <2>2. CASE Spawn(w, u)
    <3>1. PICK moved \in SUBSET Owned(t), k \in Keepers(t, u) :
            owner' = [v \in Tasks |->
                        IF v = u THEN k ELSE IF v \in moved THEN u ELSE owner[v]]
      BY <2>2 DEF Spawn
    <3>2. k = t
      BY <1>0 DEF Keepers
    <3>3. /\ owner'[u] = t
          /\ \A v \in Tasks \ {u} :
               owner'[v] = owner[v] \/ (owner'[v] = u /\ owner[v] = t)
      BY <3>1, <3>2 DEF Owned
    <3> HIDE DEF t
    <3> QED  BY <2>1, <3>3, ForestGrows
  <2>3. CASE BlockOn(w, u)
    <3>1. owner' = [owner EXCEPT ![u] = t]
      BY <2>3 DEF BlockOn
    <3>2. owner'[u] = t /\ \A v \in Tasks \ {u} : owner'[v] = owner[v]
      BY <1>0, <3>1
    <3> HIDE DEF t
    <3> QED  BY <2>1, <3>2, ForestGrows
  <2> QED  BY <1>3, <2>2, <2>3
<1> QED
  BY <1>1, <1>2, <1>3, OwnerFacts DEF OwnerMoves

(***************************************************************************)
(* No threads wait for each other's mutexes when no program keeps a Task   *)
(* in another running task's frame: ownership is a forest then, and an     *)
(* AbortChaser that holds a mutex only waits for those of the tasks below. *)
(***************************************************************************)
THEOREM NoLockDeadlock == ASSUME NoneShare PROVE Spec => []NoLockCycle
<1>1. ASSUME Init PROVE Forest
  <2> SUFFICES ASSUME NEW S \in (SUBSET Tasks) \ {{}}
               PROVE  \E x \in S : \A y \in S : owner[y] # x
    BY DEF Forest
  <2>1. \A y \in Tasks : owner[y] \notin Tasks
    BY <1>1, RuntimeAssumption DEF Init
  <2>2. PICK x \in S : x \in Tasks
    OBVIOUS
  <2>3. \A y \in S : owner[y] # x
    BY <2>1, <2>2
  <2> QED  BY <2>2, <2>3
<1>2. Inv /\ Forest /\ [Next]_vars => Forest'
  BY ForestStep
<1>3. ASSUME Inv, Forest PROVE NoLockCycle
  <2> SUFFICES ASSUME NEW S \in (SUBSET Workers) \ {{}},
                      \A w \in S : \E v \in S : Waits(w, v)
               PROVE  FALSE
    BY DEF NoLockCycle
  <2> DEFINE T == {job[w].task : w \in S}
  <2>1. T \in (SUBSET Tasks) \ {{}}
    <3>1. \A w \in Workers : job[w].task \in Tasks
      BY <1>3 DEF Inv, TypeOK
    <3>2. PICK w \in S : w \in Workers
      OBVIOUS
    <3>3. job[w].task \in T
      OBVIOUS
    <3> QED  BY <3>1, <3>3
  <2>2. PICK t \in T : \A u \in T : owner[u] # t
    BY <1>3, <2>1 DEF Forest
  <2>3. PICK w \in S : job[w].task = t
    BY <2>2
  <2>4. PICK v \in S : Waits(w, v)
    OBVIOUS
  <2>5. PICK u \in Owned(t) : mutex[u] = v
    BY <2>3, <2>4 DEF Waits
  <2>6. job[v].task = u
    BY <1>3, <2>4, <2>5, RuntimeAssumption DEF Inv, TypeOK, Owned
  <2> QED  BY <2>2, <2>4, <2>5, <2>6 DEF Owned
<1> QED
  BY <1>1, <1>2, <1>3, InvHolds, PTL DEF Spec

-----------------------------------------------------------------------------
\* The promise of the root is set by the coroutine itself, and the caller
\* goes on after that.
LEMMA PromiseFacts ==
  ASSUME Inv, Next
  PROVE  /\ future'[Root] = "set" =>
              \/ future[Root] = "set"
              \/ \E w \in Workers : job[w].task = Root /\ SetPromise(w)
         /\ future[Root] = "set" => future'[Root] = "set" \/ frame[Root] = "none"
         /\ caller' # caller => Main
<1>0. future \in [Tasks -> {"none", "pending", "set"}] /\ Root \in Tasks
  BY RuntimeAssumption DEF Inv, TypeOK
<1>1. ASSUME NEW w \in Workers, SetPromise(w)
      PROVE  /\ future' = [future EXCEPT ![job[w].task] = "set"]
             /\ caller' = caller
  BY <1>1 DEF SetPromise, outside
<1>2. ASSUME NEW w \in Workers, NEW u \in Tasks, BlockOn(w, u)
      PROVE  /\ future' = [future EXCEPT ![u] = "pending"]
             /\ caller' = caller /\ frame[u] = "none"
  BY <1>2 DEF BlockOn, outside, Launch, Fresh
<1>3. ASSUME NEW w \in Workers, NEW u \in Tasks,
             \/ Spawn(w, u) \/ SpawnBackground(w, u) \/ Unblock(w, u)
             \/ Drop(w, u) \/ Abort(w, u) \/ Detach(w, u)
      PROVE  future' = future /\ caller' = caller
  BY <1>3 DEF Spawn, SpawnBackground, Unblock, Drop, Abort, Detach, outside
<1>4. ASSUME NEW w \in Workers,
             \/ RunAbortChaser(w) \/ EndAbortChaser(w) \/ Unlock(w) \/ Suspend(w)
             \/ Finish(w) \/ Exit(w) \/ \E r \in Places : Roam(w, r)
             \/ \E e \in Executors : Take(w, e)
      PROVE  future' = future /\ caller' = caller
  BY <1>4 DEF RunAbortChaser, EndAbortChaser, Unlock, Suspend, Finish, Exit, Roam,
              Take, outside, tasks
<1>5. ASSUME NEW t \in Tasks, Complete(t)
      PROVE  future' = future /\ caller' = caller
  BY <1>5 DEF Complete, outside
<1>6. CASE Main
  BY <1>6 DEF Main, Return, StopPool, Join, tasks
<1>7. ASSUME NEW w \in Workers, Step(w), ~ SetPromise(w),
             \A u \in Tasks : ~BlockOn(w, u)
      PROVE  future' = future /\ caller' = caller
  BY <1>3, <1>4, <1>7 DEF Step
<1>8. ASSUME NEW w \in Workers, SetPromise(w)
      PROVE  /\ future'[Root] = "set" => future[Root] = "set" \/ job[w].task = Root
             /\ future[Root] = "set" => future'[Root] = "set"
             /\ caller' = caller
  BY <1>0, <1>1, <1>8
<1>9. ASSUME NEW w \in Workers, NEW u \in Tasks, BlockOn(w, u)
      PROVE  /\ future'[Root] = "set" => future[Root] = "set"
             /\ future[Root] = "set" => future'[Root] = "set" \/ frame[Root] = "none"
             /\ caller' = caller
  BY <1>0, <1>2, <1>9
<1> QED
  BY <1>4, <1>5, <1>6, <1>7, <1>8, <1>9 DEF Next

LEMMA RootStep ==
  ASSUME Inv, RootInv, [Next]_vars
  PROVE  RootInv'
<1>0. /\ TypeOK /\ JobInv /\ Root \in Tasks
      /\ job \in [Workers -> Jobs] /\ frame \in [Tasks -> Frames]
  BY RuntimeAssumption DEF Inv, TypeOK, Jobs, Frames
<1>1. CASE UNCHANGED vars
  BY <1>1 DEF vars, outside, tasks, RootInv, Ending
<1>2. CASE Next
  <2>1. program' = program /\ JobStep /\ FrameStep
    BY <1>2, StepFacts
  <2>2. ASSUME frame[Root] = "gone" \/ Ending(Root)
        PROVE  frame'[Root] = "gone" \/ Ending(Root)'
    <3>1. CASE frame[Root] = "gone"
      BY <1>0, <2>1, <3>1 DEF FrameStep
    <3>2. ASSUME NEW w \in Workers, job[w].task = Root,
                 job[w].kind \in {"ending", "exit"}
          PROVE  frame'[Root] = "gone" \/ Ending(Root)'
      <4>1. CASE job'[w] = job[w]
        BY <3>2, <4>1 DEF Ending
      <4>2. CASE Exit(w)
        <5>1. frame' = [frame EXCEPT ![Root] = "gone"]
          BY <3>2, <4>2 DEF Exit
        <5> QED  BY <1>0, <5>1
      <4>3. CASE Finish(w)
        <5>1. job'[w].kind = "exit" /\ job'[w].task = Root
          BY <1>0, <3>2, <4>3, BecomeFacts DEF Finish
        <5> QED  BY <5>1 DEF Ending
      <4>4. job'[w] = job[w] \/ Exit(w) \/ Finish(w)
        BY <2>1, <3>2 DEF JobStep, SetPromise, Roam, Does
      <4> QED  BY <4>1, <4>2, <4>3, <4>4
    <3> QED  BY <2>2, <3>1, <3>2 DEF Ending
  <2>3. ASSUME future'[Root] = "set" PROVE frame'[Root] = "gone" \/ Ending(Root)'
    <3>1. CASE future[Root] = "set"
      BY <2>2, <3>1 DEF RootInv
    <3>2. ASSUME NEW w \in Workers, job[w].task = Root, SetPromise(w)
          PROVE  Ending(Root)'
      <4>1. job'[w].kind = "ending" /\ job'[w].task = Root
        BY <1>0, <3>2, BecomeFacts DEF SetPromise
      <4> QED  BY <4>1 DEF Ending
    <3> QED  BY <1>2, <2>3, <3>1, <3>2, PromiseFacts
  <2>4. future[Root] = "set" => future'[Root] = "set"
    <3>1. future[Root] = "set" => frame[Root] # "none"
      BY <1>0 DEF RootInv, Ending, JobInv, JobOf, InBody
    <3> QED  BY <1>2, <3>1, PromiseFacts
  <2>5. caller' # "blocked" => future'[Root] = "set"
    <3>1. CASE caller' = caller
      BY <2>4, <3>1 DEF RootInv
    <3>2. CASE Main
      BY <2>4, <3>2 DEF Main, Return, StopPool, Join, RootInv, tasks
    <3> QED  BY <1>2, <3>1, <3>2, PromiseFacts
  <2>6. ASSUME caller' = "returned", Over(runner'[Root].executor) = Pool
        PROVE  frame'[Root] = "gone"
    <3>1. Join
      BY <1>2, <2>6, PromiseFacts DEF Next, Defined, Main, Return, StopPool
    <3>2. /\ frame' = frame /\ runner' = runner /\ future[Root] = "set"
          /\ \A w \in Workers \ Others : job[w].kind = "idle"
      BY <3>1 DEF Join, tasks, RootInv, Does
    <3>3. ASSUME NEW w \in Workers, job[w].task = Root,
                 job[w].kind \in {"ending", "exit"}
          PROVE  FALSE
      <4>1. job[w].on = runner[Root].executor
        BY <1>0, <3>3 DEF JobInv, JobOf, InBody
      <4>2. w \in ThreadsOf(Pool)
        BY <2>6, <3>2, <3>3, <4>1 DEF Inv, SerialInv
      <4>3. \E v : v \in Workers \ Others
        BY RuntimeAssumption
      <4>4. ThreadsOf(Pool) \subseteq Workers \ Others
        BY <4>3 DEF ThreadsOf, Threads
      <4> QED  BY <3>2, <3>3, <4>2, <4>4
    <3> QED  BY <3>2, <3>3 DEF RootInv, Ending
  <2> QED  BY <2>3, <2>5, <2>6 DEF RootInv
<1> QED
  BY <1>1, <1>2

(***************************************************************************)
(* When run returns the coroutine it ran is gone, and no Task object is in *)
(* its frame, whatever the program spawned, blocked for or abandoned, and  *)
(* wherever it roamed, unless it has ended on another runtime: the thread  *)
(* that ends it is one that run joins.                                     *)
(***************************************************************************)
THEOREM RootEndedFirst == Spec => []RootEnded
<1>1. Init => RootInv
  BY InvInit
<1>2. Inv /\ RootInv /\ [Next]_vars => RootInv'
  BY RootStep
<1>3. Inv /\ RootInv => RootEnded
  BY RuntimeAssumption DEF Inv, OwnInv, RootInv, RootEnded, Owned
<1> QED
  BY <1>1, <1>2, <1>3, InvHolds, PTL DEF Spec

-----------------------------------------------------------------------------
\* What keeps a task pursued: handlers are posted and none is taken, and the
\* workers that are after it go on.
KeepsHandlers ==
  \A e \in Executors : Elements(queue[e]) \subseteq Elements(queue'[e])

KeepsHunters ==
  \A w \in Workers : job[w].kind \in {"chaser", "destroy"} => job'[w] = job[w]

Posted(t) == \E e \in Executors : AbortChaser(t) \in Elements(queue[e])
Hunts(w, t) == job[w].task = t /\ job[w].kind \in {"chaser", "destroy"}

LEMMA ChasedFacts ==
  \A t \in Tasks : Chased(t) <=> Posted(t) \/ \E w \in Workers : Hunts(w, t)
BY DEF Chased, Posted, Hunts, Elements

LEMMA ChasedStays ==
  ASSUME KeepsHandlers, KeepsHunters, NEW t \in Tasks, Chased(t)
  PROVE  Chased(t)'
<1>1. Posted(t) => Posted(t)'
  BY DEF Posted, KeepsHandlers
<1>2. \A w \in Workers : Hunts(w, t) => Hunts(w, t)'
  BY DEF Hunts, KeepsHunters
<1>3. Posted(t)' \/ \E w \in Workers : Hunts(w, t)'
  BY <1>1, <1>2, ChasedFacts
<1> QED
  BY <1>3 DEF Chased, Posted, Hunts, Elements

\* asio::post takes nothing away.
LEMMA PostKeeps ==
  ASSUME TypeOK, NEW f \in Executors, NEW h \in Handlers,
         queue' = Post(queue, f, h)
  PROVE  KeepsHandlers /\ h \in Elements(queue'[f])
<1>1. /\ queue \in [Executors -> Seq(Handlers)] /\ queue[f] \in Seq(Handlers)
      /\ queue' = [queue EXCEPT ![f] = Append(queue[f], h)]
  BY DEF TypeOK, Post
<1>2. Elements(Append(queue[f], h)) = Elements(queue[f]) \cup {h}
  BY <1>1, AppendFacts
<1>3. /\ queue'[f] = Append(queue[f], h)
      /\ \A e \in Executors \ {f} : queue'[e] = queue[e]
  BY <1>1
<1> QED
  BY <1>2, <1>3 DEF KeepsHandlers

\* A request to abort is followed by an AbortChaser; a second one finds the
\* first.
LEMMA RequestPursues ==
  ASSUME Inv, AskInv, NEW u \in Tasks, RequestAbort(u)
  PROVE  /\ KeepsHandlers
         /\ asked' \subseteq asked \cup {u}
         /\ u \in entry => u \in asked'
         /\ u \in asked' => u \in asked \/ u \in entry
         /\ u \in entry \ asked => Posted(u)'
<1>1. /\ TypeOK /\ AbortChaser(u) \in Handlers
      /\ runner[u].executor \in Executors
  BY HandlerFacts, RunnersFacts DEF Inv, TypeOK
<1>2. CASE u \in entry \ asked
  <2>1. /\ asked' = asked \cup {u}
        /\ queue' = Post(queue, runner[u].executor, AbortChaser(u))
    BY <1>2 DEF RequestAbort
  <2>2. KeepsHandlers /\ AbortChaser(u) \in Elements(queue'[runner[u].executor])
    BY <1>1, <2>1, PostKeeps
  <2> QED  BY <1>1, <1>2, <2>1, <2>2 DEF Posted
<1>3. CASE u \notin entry \ asked
  BY <1>3 DEF RequestAbort, KeepsHandlers
<1> QED
  BY <1>2, <1>3

\* A step that asks nobody: what was asked stays asked and pursued.
LEMMA AskQuiet ==
  ASSUME AskInv, asked' = asked, entry' \subseteq entry,
         \A t \in Tasks : owner'[t] = owner[t] \/ (owner'[t] # "destroyed" /\ frame[t] # "none"),
         \A t \in Tasks : frame'[t] = "none" => frame[t] = "none",
         \A t \in entry' : t \in Tasks /\ Chased(t) => Chased(t)'
  PROVE  AskInv'
BY DEF AskInv

\* A step that asks u to end, and may destroy its Task.
LEMMA AskStepOf ==
  ASSUME Inv, AskInv, NEW u \in Tasks, RequestAbort(u), frame[u] # "none",
         KeepsHunters, entry' = entry, frame' = frame,
         \A t \in Tasks \ {u} : owner'[t] = owner[t]
  PROVE  AskInv'
<1>1. /\ KeepsHandlers /\ asked' \subseteq asked \cup {u}
      /\ u \in entry => u \in asked'
      /\ u \in entry \ asked => Posted(u)'
  BY RequestPursues
<1>2. asked \subseteq asked'
  BY DEF RequestAbort
<1>3. ASSUME NEW t \in Tasks, t \in entry, t \in asked' PROVE Chased(t)'
  <2>1. CASE t \in asked
    <3>1. Chased(t)
      BY <1>3, <2>1 DEF AskInv
    <3> QED  BY <1>1, <3>1, ChasedStays
  <2>2. CASE t \notin asked
    <3>1. Posted(t)'
      BY <1>1, <1>3, <2>2
    <3> QED  BY <3>1 DEF Posted, Chased, Elements
  <2> QED  BY <2>1, <2>2
<1> QED
  BY <1>1, <1>2, <1>3 DEF AskInv

\* A spawned task is asked for nothing yet.
LEMMA AskLaunch ==
  ASSUME Inv, AskInv, NEW u \in Tasks, NEW r \in Runners, Launch(u, r),
         asked' = asked, owner'[u] # "destroyed", KeepsHunters,
         \A t \in Tasks \ {u} :
           \/ owner'[t] = owner[t]
           \/ owner[t] \in Tasks /\ owner'[t] # "destroyed"
  PROVE  AskInv'
<1>1. /\ TypeOK /\ r.executor \in Executors /\ Resume(u) \in Handlers
      /\ entry' = entry \cup {u} /\ frame[u] = "none"
      /\ frame' = [frame EXCEPT ![u] = "queued"]
      /\ queue' = Post(queue, r.executor, Resume(u))
  BY HandlerFacts, RunnersFacts DEF Inv, Launch, Fresh, Resumptions
<1>2. KeepsHandlers
  BY <1>1, PostKeeps
<1>3. /\ frame'[u] = "queued" /\ u \notin asked
      /\ \A t \in Tasks \ {u} : frame'[t] = frame[t]
  BY <1>1 DEF TypeOK, Inv, AskInv
<1> SUFFICES ASSUME NEW t \in Tasks
             PROVE  /\ t \in entry' /\ owner'[t] = "destroyed" => t \in asked'
                    /\ t \in entry' /\ t \in asked' => Chased(t)'
                    /\ frame'[t] = "none" => owner'[t] = None /\ t \notin asked'
  BY DEF AskInv
<1>4. CASE t = u
  BY <1>3, <1>4
<1>5. CASE t # u
  <2>1. t \in entry' <=> t \in entry
    BY <1>1, <1>5
  <2>2. Chased(t) => Chased(t)'
    BY <1>2, ChasedStays
  <2>3. frame[t] = "none" => owner'[t] = owner[t]
    BY <1>5, RuntimeAssumption DEF AskInv
  <2> QED  BY <1>3, <1>5, <2>1, <2>2, <2>3 DEF AskInv
<1> QED
  BY <1>4, <1>5

\* A worker takes the AbortChaser and is after the task itself.
LEMMA AskTake ==
  ASSUME Inv, AskInv, NEW w \in Workers, NEW e \in Executors, Take(w, e)
  PROVE  AskInv'
<1>1. /\ TypeOK /\ queue[e] # <<>> /\ queue' = [queue EXCEPT ![e] = Tail(@)]
      /\ UNCHANGED <<entry, asked, owner>> /\ job[w].kind = "idle"
  BY DEF Inv, Take, NextIdle, Does
<1>2. PICK t \in Tasks : TakeResume(w, e, t) \/ TakeChaser(w, e, t)
  BY DEF Take
<1>3. /\ Elements(queue[e]) = Elements(queue'[e]) \cup {Head(queue[e])}
      /\ \A f \in Executors \ {e} : queue'[f] = queue[f]
  BY <1>1, TailFacts DEF TypeOK
<1>4. KeepsHunters
  <2>1. \A v \in Workers \ {w} : job'[v] = job[v]
    BY <1>1, <1>2 DEF TakeResume, TakeChaser, TypeOK
  <2> QED  BY <1>1, <2>1 DEF KeepsHunters
<1>5. Head(queue[e]) = AbortChaser(t) => Hunts(w, t)'
  <2>1. CASE TakeResume(w, e, t)
    BY <2>1, HandlerFacts DEF TakeResume, Resumptions
  <2>2. CASE TakeChaser(w, e, t)
    BY <1>1, <2>2 DEF TakeChaser, Hunts, Job, TypeOK
  <2> QED  BY <1>2, <2>1, <2>2
<1>6. ASSUME NEW u \in Tasks, Chased(u) PROVE Chased(u)'
  <2>1. CASE \E v \in Workers : Hunts(v, u)
    BY <1>4, <2>1 DEF KeepsHunters, Hunts, Chased
  <2>2. CASE Posted(u)
    <3>1. PICK f \in Executors : AbortChaser(u) \in Elements(queue[f])
      BY <2>2 DEF Posted
    <3>2. CASE AbortChaser(u) \in Elements(queue'[f])
      BY <3>2 DEF Chased, Elements
    <3>3. CASE AbortChaser(u) \notin Elements(queue'[f])
      <4>1. Head(queue[e]) = AbortChaser(u)
        BY <1>3, <3>1, <3>3
      <4>2. u = t
        BY <1>2, <4>1, HandlerFacts DEF TakeResume, TakeChaser, Resumptions
      <4> QED  BY <1>5, <4>1, <4>2 DEF Hunts, Chased
    <3> QED  BY <3>2, <3>3
  <2> QED  BY <1>6, <2>1, <2>2, ChasedFacts
<1>7. \A u \in Tasks : frame'[u] = "none" => frame[u] = "none"
  BY <1>1, <1>2 DEF TakeResume, TakeChaser, TypeOK
<1> QED
  BY <1>1, <1>6, <1>7, AskQuiet

\* The AbortChaser goes after the task, destroys it, or finds it finished.
LEMMA AskChaser ==
  ASSUME Inv, AskInv, NEW w \in Workers, RunAbortChaser(w)
  PROVE  AskInv'
<1>0. PICK t \in Tasks : t = job[w].task
  BY DEF Inv, TypeOK
<1>1. /\ TypeOK /\ Does(w, "chaser") /\ AbortChaser(t) \in Handlers
      /\ runner[t].executor \in Executors
      /\ UNCHANGED <<entry, asked, owner>>
  BY <1>0, HandlerFacts, RunnersFacts DEF Inv, RunAbortChaser, TypeOK
<1>2. /\ KeepsHandlers
      /\ \A v \in Workers \ {w} : job'[v] = job[v]
      /\ t \in entry => Posted(t)' \/ Hunts(w, t)'
      /\ \A u \in Tasks : frame'[u] = "none" => frame[u] = "none"
  <2>1. CASE t \notin entry /\ Done(w) /\ UNCHANGED <<queue, mutex, frame>>
    BY <1>1, <2>1, DoneFacts DEF KeepsHandlers
  <2>2. CASE /\ queue' = Post(queue, runner[t].executor, AbortChaser(t))
             /\ Done(w) /\ UNCHANGED <<mutex, frame>>
    <3>1. /\ KeepsHandlers
          /\ AbortChaser(t) \in Elements(queue'[runner[t].executor])
      BY <1>1, <2>2, PostKeeps
    <3> QED  BY <1>1, <2>2, <3>1, DoneFacts DEF Posted
  <2>3. CASE /\ frame' = [frame EXCEPT ![t] = "destroying"]
             /\ Become(w, "destroy") /\ UNCHANGED queue
    <3>1. job \in [Workers -> Jobs] /\ frame \in [Tasks -> Frames]
      BY <1>1 DEF TypeOK, Jobs, Frames
    <3>2. job'[w] = [job[w] EXCEPT !.kind = "destroy"]
      BY <2>3, <3>1 DEF Become
    <3>3. \A v \in Workers \ {w} : job'[v] = job[v]
      BY <2>3, <3>1 DEF Become
    <3>4. Hunts(w, t)'
      BY <1>0, <3>1, <3>2 DEF Hunts, Jobs
    <3> QED  BY <2>3, <3>1, <3>3, <3>4 DEF KeepsHandlers
  <2> QED  BY <1>0, <2>1, <2>2, <2>3 DEF RunAbortChaser
<1>3. ASSUME NEW u \in entry', u \in Tasks, Chased(u) PROVE Chased(u)'
  <2>1. CASE Posted(u)
    <3>1. Posted(u)'
      BY <1>2, <2>1 DEF Posted, KeepsHandlers
    <3> QED  BY <3>1 DEF Posted, Chased, Elements
  <2>2. ASSUME NEW v \in Workers, Hunts(v, u) PROVE Chased(u)'
    <3>1. CASE v = w
      <4>1. u = t
        BY <1>0, <2>2, <3>1 DEF Hunts
      <4> QED  BY <1>1, <1>2, <1>3, <4>1 DEF Posted, Hunts, Chased, Elements
    <3>2. CASE v # w
      BY <1>2, <2>2, <3>2 DEF Hunts, Chased
    <3> QED  BY <3>1, <3>2
  <2> QED  BY <1>3, <2>1, <2>2, ChasedFacts
<1> QED
  BY <1>1, <1>2, <1>3, AskQuiet

\* The frame is destroyed, and nothing is left to pursue.
LEMMA AskEndChaser ==
  ASSUME Inv, AskInv, NEW w \in Workers, EndAbortChaser(w)
  PROVE  AskInv'
<1> DEFINE t == job[w].task
<1>1. /\ TypeOK /\ t \in Tasks /\ Done(w) /\ entry' = entry \ {t}
      /\ frame' = [frame EXCEPT ![t] = "gone"]
      /\ UNCHANGED <<queue, asked, owner>>
  BY DEF Inv, EndAbortChaser, TypeOK
<1>2. \A v \in Workers \ {w} : job'[v] = job[v]
  BY <1>1, DoneFacts
<1>3. \A u \in Tasks : frame'[u] = "none" => frame[u] = "none"
  BY <1>1 DEF TypeOK
<1>4. ASSUME NEW u \in entry', Chased(u) PROVE Chased(u)'
  BY <1>1, <1>2, <1>4 DEF Chased
<1> QED
  BY <1>1, <1>3, <1>4, AskQuiet

LEMMA AskStep ==
  ASSUME Inv, RootInv, AskInv, [Next]_vars
  PROVE  AskInv'
<1>0. /\ TypeOK /\ Root \in Tasks /\ None \notin Tasks
      /\ {Caller, None, "background", "detached", "destroyed"} \cap Tasks = {}
      /\ \A w \in Workers : job[w].task \in Tasks
      /\ \A t \in Tasks : owner[t] \in Tasks => frame[t] # "none"
  BY RuntimeAssumption DEF Inv, TypeOK, AskInv
<1>1. CASE UNCHANGED vars
  BY <1>1 DEF vars, outside, tasks, AskInv, Chased
<1>2. ASSUME KeepsHandlers, KeepsHunters, UNCHANGED <<asked, owner>>,
             entry' \subseteq entry,
             \A t \in Tasks : frame'[t] = "none" => frame[t] = "none"
      PROVE  AskInv'
  BY <1>2, ChasedStays, AskQuiet
<1>3. ASSUME NEW w \in Workers, job[w].kind \notin {"chaser", "destroy"},
             \A v \in Workers \ {w} : job'[v] = job[v]
      PROVE  KeepsHunters
  BY <1>3 DEF KeepsHunters
<1>4. ASSUME NEW w \in Workers,
             SetPromise(w) \/ Finish(w) \/ Exit(w) \/ Suspend(w) \/ Unlock(w)
      PROVE  AskInv'
  <2>1. /\ UNCHANGED <<queue, asked, owner>> /\ entry' \subseteq entry
        /\ job[w].kind \notin {"chaser", "destroy"}
    BY <1>4 DEF SetPromise, Finish, Ends, Exit, Suspend, Unlock, Does, tasks
  <2>2. \A v \in Workers \ {w} : job'[v] = job[v]
    BY <1>0, <1>4, BecomeFacts, DoneFacts
    DEF SetPromise, Finish, Exit, Suspend, Unlock
  <2>3. \A t \in Tasks : frame'[t] = "none" => frame[t] = "none"
    BY <1>0, <1>4 DEF SetPromise, Finish, Exit, Suspend, Unlock, tasks, TypeOK
  <2> QED  BY <1>2, <1>3, <2>1, <2>2, <2>3 DEF KeepsHandlers
<1>5. ASSUME NEW w \in Workers, NEW r \in Places, Roam(w, r) PROVE AskInv'
  <2> DEFINE t == job[w].task
  <2>1. /\ UNCHANGED <<entry, asked, owner>> /\ job[w].kind = "body"
        /\ Become(w, "unlock") /\ frame' = [frame EXCEPT ![t] = "queued"]
        /\ queue' = Post(queue, r.executor, Resume(t)) /\ r.executor \in Executors
        /\ Resume(t) \in Handlers
    BY <1>0, <1>5, HandlerFacts, StrandFacts, RunnersFacts DEF Roam, Does, Resumptions
  <2> HIDE DEF t
  <2>2. \A v \in Workers \ {w} : job'[v] = job[v]
    BY <1>0, <2>1, BecomeFacts
  <2>3. \A u \in Tasks : frame'[u] = "none" => frame[u] = "none"
    BY <1>0, <2>1 DEF TypeOK
  <2>4. KeepsHandlers
    BY <1>0, <2>1, PostKeeps
  <2> QED  BY <1>2, <1>3, <2>1, <2>2, <2>3, <2>4
<1>6. ASSUME NEW t \in Tasks, Complete(t) PROVE AskInv'
  <2>1. /\ UNCHANGED <<entry, asked, owner, job>>
        /\ frame' = [frame EXCEPT ![t] = "queued"]
        /\ queue' = Post(queue, runner[t].executor, GuardedResume(t))
        /\ runner[t].executor \in Executors /\ GuardedResume(t) \in Handlers
    BY <1>0, <1>6, HandlerFacts, RunnersFacts DEF Complete, TypeOK, Resumptions
  <2>2. KeepsHandlers
    BY <1>0, <2>1, PostKeeps
  <2>3. \A u \in Tasks : frame'[u] = "none" => frame[u] = "none"
    BY <1>0, <2>1 DEF TypeOK
  <2> QED  BY <1>2, <2>1, <2>2, <2>3 DEF KeepsHunters
<1>7. ASSUME NEW w \in Workers, NEW u \in Tasks,
             Drop(w, u) \/ Abort(w, u) \/ Unblock(w, u)
      PROVE  AskInv'
  <2>1. /\ RequestAbort(u) /\ UNCHANGED <<entry, frame>> /\ owner[u] \in Tasks
        /\ owner' = owner \/ owner' = [owner EXCEPT ![u] = "destroyed"]
        /\ job' = job \/ (job[w].kind = "block" /\ Become(w, "body"))
    BY <1>0, <1>7 DEF Drop, Abort, Unblock, DestroyTask, WaitsFor, Does
  <2>2. KeepsHunters
    <3>1. CASE job' = job
      BY <3>1 DEF KeepsHunters
    <3>2. CASE job[w].kind = "block" /\ Become(w, "body")
      <4>1. \A v \in Workers \ {w} : job'[v] = job[v]
        BY <1>0, <3>2, BecomeFacts
      <4> QED  BY <1>3, <3>2, <4>1
    <3> QED  BY <2>1, <3>1, <3>2
  <2>3. \A t \in Tasks \ {u} : owner'[t] = owner[t]
    BY <1>0, <2>1 DEF TypeOK
  <2> QED  BY <1>0, <2>1, <2>2, <2>3, AskStepOf
<1>8. ASSUME NEW w \in Workers, NEW u \in Tasks, Detach(w, u) PROVE AskInv'
  <2>1. /\ UNCHANGED <<entry, asked, frame, queue, job>> /\ owner[u] \in Tasks
        /\ owner' = [owner EXCEPT ![u] = "detached"]
    BY <1>0, <1>8 DEF Detach
  <2>2. KeepsHandlers /\ KeepsHunters
    BY <2>1 DEF KeepsHandlers, KeepsHunters
  <2>3. \A t \in Tasks : owner'[t] = owner[t]
                           \/ (owner'[t] # "destroyed" /\ frame[t] # "none")
    BY <1>0, <2>1 DEF TypeOK
  <2> QED  BY <2>1, <2>2, <2>3, ChasedStays, AskQuiet
<1>9. ASSUME NEW w \in Workers, NEW u \in Tasks,
             Spawn(w, u) \/ SpawnBackground(w, u) \/ BlockOn(w, u)
      PROVE  AskInv'
  <2> DEFINE t == job[w].task
  <2>1. asked' = asked /\ job[w].kind = "body" /\ t \in Tasks
    BY <1>0, <1>9 DEF Spawn, SpawnBackground, BlockOn, Does
  <2>2. KeepsHunters
    <3>1. CASE job' = job
      BY <3>1 DEF KeepsHunters
    <3>2. CASE Become(w, "block")
      <4>1. \A v \in Workers \ {w} : job'[v] = job[v]
        BY <1>0, <3>2, BecomeFacts
      <4> QED  BY <1>3, <2>1, <4>1
    <3> QED  BY <1>9, <3>1, <3>2 DEF Spawn, SpawnBackground, BlockOn
  <2>3. Serial(runner[t].executor)
    BY <2>1 DEF Inv, SerialInv
  <2>4. PICK r \in Runners : Launch(u, r)
    <3> HIDE DEF t
    <3>1. /\ ForkRunner(runner[t], u) \in Runners
          /\ Plain(runner[t].executor) \in Runners
          /\ BlockOnRunner(runner[t], u) \in Runners
      BY <1>0, <2>1, <2>3, RunnerFacts
    <3> QED  BY <1>9, <3>1 DEF Spawn, SpawnBackground, BlockOn, t
  <2>5. /\ owner'[u] # "destroyed"
        /\ \A v \in Tasks \ {u} :
             \/ owner'[v] = owner[v]
             \/ owner[v] \in Tasks /\ owner'[v] # "destroyed"
    <3>1. CASE Spawn(w, u)
      <4>1. PICK moved \in SUBSET Owned(t), k \in Keepers(t, u) :
              owner' = [v \in Tasks |->
                          IF v = u THEN k ELSE IF v \in moved THEN u ELSE owner[v]]
        BY <3>1 DEF Spawn
      <4>2. k \in Tasks
        BY <1>0, <2>1 DEF Keepers, TypeOK
      <4> QED  BY <1>0, <2>1, <4>1, <4>2 DEF Owned
    <3>2. CASE SpawnBackground(w, u) \/ BlockOn(w, u)
      <4>1. owner' = [owner EXCEPT ![u] = "background"] \/ owner' = [owner EXCEPT ![u] = t]
        BY <3>2 DEF SpawnBackground, BlockOn
      <4> QED  BY <1>0, <2>1, <4>1 DEF TypeOK
    <3> QED  BY <1>9, <3>1, <3>2
  <2> QED  BY <2>1, <2>2, <2>4, <2>5, AskLaunch
<1>10. CASE Main
  <2>1. CASE Return
    <3>1. /\ RequestAbort(Root) /\ UNCHANGED <<job, entry, frame>>
          /\ owner' = [owner EXCEPT ![Root] = "destroyed"]
          /\ future[Root] = "set"
      BY <2>1 DEF Return, DestroyTask
    <3>2. frame[Root] # "none"
      BY <3>1 DEF RootInv, Ending, Inv, JobInv, JobOf, InBody
    <3>3. KeepsHunters /\ \A t \in Tasks \ {Root} : owner'[t] = owner[t]
      BY <1>0, <3>1 DEF KeepsHunters, TypeOK
    <3> QED  BY <1>0, <3>1, <3>2, <3>3, AskStepOf
  <2>2. CASE StopPool \/ Join
    <3>1. UNCHANGED <<queue, job, entry, asked, owner, frame>>
      BY <2>2 DEF StopPool, Join, tasks
    <3>2. KeepsHandlers /\ KeepsHunters
      BY <3>1 DEF KeepsHandlers, KeepsHunters
    <3> QED  BY <1>2, <3>1, <3>2
  <2> QED  BY <1>10, <2>1, <2>2 DEF Main
<1>11. ASSUME NEW w \in Workers, Step(w) PROVE AskInv'
  BY <1>4, <1>5, <1>7, <1>8, <1>9, <1>11, AskChaser, AskEndChaser DEF Step
<1> QED
  BY <1>1, <1>6, <1>10, <1>11, AskTake DEF Next

(***************************************************************************)
(* A task that was asked to end, or whose Task was destroyed, has ended or *)
(* is pursued, in every program, at any depth of ownership and however     *)
(* often it roams: the safety half of AbandonedEnds, which fairness makes  *)
(* an end of unless the task roams for ever.                               *)
(***************************************************************************)
THEOREM AbandonedPursued == Spec => []AbortPursued
<1>1. ASSUME Init PROVE AskInv
  <2>1. Caller # "destroyed" /\ None # "destroyed"
    BY RuntimeAssumption
  <2> QED  BY <1>1, <2>1 DEF Init, AskInv
<1>2. Init => RootInv
  BY InvInit
<1>3. Inv /\ RootInv /\ [Next]_vars => RootInv'
  BY RootStep
<1>4. Inv /\ RootInv /\ AskInv /\ [Next]_vars => AskInv'
  BY AskStep
<1>5. Inv /\ AskInv => AbortPursued
  BY DEF Inv, TypeOK, AskInv, AbortPursued
<1> QED
  BY <1>1, <1>2, <1>3, <1>4, <1>5, InvHolds, PTL DEF Spec
=============================================================================
