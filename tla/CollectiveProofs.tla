-------------------------- MODULE CollectiveProofs --------------------------
(***************************************************************************)
(* Proofs about Collective for any number of awaitable objects.            *)
(***************************************************************************)
EXTENDS Collective, QueueFacts, FiniteSetTheorems

Completions == [branch : Branches, result : Results]
Posted == \E e \in Executors : CallerResume \in Elements(queue[e])

\* A completion is recorded for each branch that is done, once, and nothing
\* can complete once the caller has gone on or is gone, which the flag tells.
DoneInv ==
  /\ canceled <=> Gone
  /\ fault # "dead_caller"
  /\ \A k \in DOMAIN order : branch[order[k].branch] = "done"
  /\ \A j, k \in DOMAIN order : order[j].branch = order[k].branch => j = k
  /\ Gone => \A i \in Branches : branch[i] \in {"done", "destroyed"}
  /\ caller = "launching" =>
       \A i \in Branches : i >= launched => branch[i] = "unlaunched"

\* The handlers' variables are functions of the order of completions.
RestInv == kind # "select" => restCount = Count - Len(order)

GatherInv == kind = "gather" =>
  /\ firstException = None
  /\ \A k \in DOMAIN order : results[order[k].branch] = order[k].result

TryGatherInv == kind = "try_gather" =>
  /\ \A k \in DOMAIN order :
       order[k].result = "value" => results[order[k].branch] = "value"
  /\ firstException = None =>
       \A k \in DOMAIN order : order[k].result = "value"
  /\ firstException # None =>
       \E k \in DOMAIN order :
         Promise!Decides(k) /\ firstException = order[k].branch

SelectInv == kind = "select" =>
  IF order = <<>>
  THEN no = None /\ results = Nothing
  ELSE /\ no = order[1].branch
       /\ results = [Nothing EXCEPT ![no] = order[1].result]

\* What has not completed has no result.
UndoneInv == kind # "select" =>
  \A i \in Branches : ~Promise!IsDone(i) => results[i] = "none"

\* resume() has been called only if the caller has enough.
ResumeInv ==
  /\ ~resumeHandle => Promise!Enough
  /\ Posted => ~resumeHandle

Inv ==
  /\ TypeOK /\ DoneInv /\ RestInv /\ UndoneInv
  /\ GatherInv /\ TryGatherInv /\ SelectInv /\ ResumeInv

\* ... and has been called if it has, unless there is nothing to await.
WakeInv ==
  /\ Promise!Enough => ~resumeHandle
  /\ ~resumeHandle /\ fault = "none" => Gone \/ Posted

\* If no branch roams everything happens on the caller's executor.
HomeInv == ~roams =>
  /\ fault = "none" /\ runner = Home
  /\ \A i \in Branches : at[i] = Home
  /\ \A e \in Executors : queue[e] # <<>> => e = Home
  /\ \A e \in Executors, i \in Branches : BareResume(i) \notin Elements(queue[e])

-----------------------------------------------------------------------------
\* The three kinds of handlers differ.
LEMMA HandlerFacts ==
  /\ CallerResume \in Handlers
  /\ \A i \in Branches :
       /\ BranchResume(i) \in Handlers /\ BareResume(i) \in Handlers
       /\ BranchResume(i) # CallerResume /\ BareResume(i) # CallerResume
       /\ \A j \in Branches : BranchResume(i) # BareResume(j)
<1>1. \A i : "branch" \in DOMAIN BranchResume(i) /\ "branch" \in DOMAIN BareResume(i)
  BY DEF BranchResume, BareResume
<1>2. "branch" \notin DOMAIN CallerResume
  BY DEF CallerResume
<1>3. \A i, j : BranchResume(i) # BareResume(j)
  BY DEF BranchResume, BareResume
<1> QED
  BY <1>1, <1>2, <1>3 DEF Handlers

\* What recording a completion does to the order.
LEMMA OrderFacts ==
  ASSUME NEW s \in Seq(Completions), NEW c \in Completions
  PROVE  /\ Append(s, c) \in Seq(Completions)
         /\ DOMAIN s = 1..Len(s) /\ Len(s) \in Nat
         /\ DOMAIN Append(s, c) = 1..(Len(s) + 1)
         /\ Len(Append(s, c)) = Len(s) + 1
         /\ Append(s, c)[Len(s) + 1] = c
         /\ \A k \in 1..Len(s) : Append(s, c)[k] = s[k] /\ s[k] \in Completions
  OBVIOUS

(***************************************************************************)
(* There are no more completions than branches: rest_count_ never wraps    *)
(* around, although it is unsigned.                                        *)
(***************************************************************************)
LEMMA OrderBound ==
  ASSUME NEW s \in Seq(Completions),
         \A j, k \in DOMAIN s : s[j].branch = s[k].branch => j = k
  PROVE  Len(s) <= Count
<1> DEFINE f == [k \in 1..Len(s) |-> s[k].branch]
<1>1. DOMAIN s = 1..Len(s) /\ Len(s) \in Nat /\ Count \in Nat
  BY CollectiveAssumption
<1>2. \A k \in 1..Len(s) : s[k].branch \in Branches
  <2>1. \A k \in 1..Len(s) : s[k] \in Completions
    BY OrderFacts
  <2> QED  BY <2>1 DEF Completions
<1>3. f \in [1..Len(s) -> Branches]
  BY <1>2
<1>4. IsFiniteSet(Branches) /\ Cardinality(Branches) = Count
  <2>1. /\ IsFiniteSet(0..(Count - 1))
        /\ Cardinality(0..(Count - 1)) =
             IF 0 > Count - 1 THEN 0 ELSE (Count - 1) - 0 + 1
    BY <1>1, FS_Interval
  <2> QED  BY <1>1, <2>1 DEF Branches
<1>5. IsFiniteSet(1..Len(s)) /\ Cardinality(1..Len(s)) = Len(s)
  BY <1>1, FS_Interval
<1>6. SUFFICES ASSUME Count < Len(s) PROVE FALSE
  BY <1>1
<1>7. PICK j \in 1..Len(s), k \in 1..Len(s) : j # k /\ f[j] = f[k]
  <2> HIDE DEF f
  <2> QED  BY <1>3, <1>4, <1>5, <1>6, FS_PigeonHole
<1> QED
  BY <1>1, <1>7

LEMMA OrderBranches ==
  TypeOK => \A k \in DOMAIN order : order[k].branch \in Branches
<1> SUFFICES ASSUME TypeOK PROVE \A k \in DOMAIN order : order[k].branch \in Branches
  OBVIOUS
<1>1. order \in Seq(Completions)
  BY DEF TypeOK, Completions
<1>2. \A k \in DOMAIN order : order[k] \in Completions
  BY <1>1
<1> QED
  BY <1>2 DEF Completions

\* What posting a handler and running the first one do to the queues.
LEMMA PostFacts ==
  ASSUME TypeOK, NEW e \in Executors, NEW h \in Handlers,
         queue' = Post(queue, e, h)
  PROVE  /\ queue' \in [Executors -> Seq(Handlers)]
         /\ Posted' <=> Posted \/ h = CallerResume
         /\ \A f \in Executors \ {e} : queue'[f] = queue[f]
         /\ Elements(queue'[e]) = Elements(queue[e]) \cup {h}
<1>1. /\ queue \in [Executors -> Seq(Handlers)] /\ queue[e] \in Seq(Handlers)
      /\ queue' = [queue EXCEPT ![e] = Append(queue[e], h)]
  BY DEF TypeOK, Post
<1>2. /\ Append(queue[e], h) \in Seq(Handlers)
      /\ Elements(Append(queue[e], h)) = Elements(queue[e]) \cup {h}
  BY <1>1, AppendFacts
<1>3. /\ queue' \in [Executors -> Seq(Handlers)]
      /\ \A f \in Executors \ {e} : queue'[f] = queue[f]
      /\ Elements(queue'[e]) = Elements(queue[e]) \cup {h}
  BY <1>1, <1>2
<1> QED
  BY <1>3 DEF Posted

LEMMA PopFacts ==
  ASSUME TypeOK, NEW e \in Executors, NEW h, Takes(e, h), queue' = Popped(e)
  PROVE  /\ queue' \in [Executors -> Seq(Handlers)]
         /\ h \in Elements(queue[e]) /\ queue[e] # <<>>
         /\ Posted' => Posted
         /\ Posted /\ h # CallerResume => Posted'
         /\ \A f \in Executors : /\ Elements(queue'[f]) \subseteq Elements(queue[f])
                                 /\ queue'[f] # <<>> => queue[f] # <<>>
<1>1. /\ queue \in [Executors -> Seq(Handlers)] /\ queue[e] \in Seq(Handlers)
      /\ queue[e] # <<>> /\ Head(queue[e]) = h
      /\ queue' = [queue EXCEPT ![e] = Tail(queue[e])]
  BY DEF TypeOK, Popped, Takes
<1>2. /\ Tail(queue[e]) \in Seq(Handlers) /\ h \in Elements(queue[e])
      /\ Elements(queue[e]) = Elements(Tail(queue[e])) \cup {h}
  BY <1>1, TailFacts
<1>3. /\ queue' \in [Executors -> Seq(Handlers)]
      /\ \A f \in Executors \ {e} : queue'[f] = queue[f]
      /\ Elements(queue[e]) = Elements(queue'[e]) \cup {h}
  BY <1>1, <1>2
<1> QED
  BY <1>1, <1>2, <1>3 DEF Posted

-----------------------------------------------------------------------------
(***************************************************************************)
(* The invariant: what do_co_await has collected is a function of the      *)
(* order of completions, and resume() is called when there are enough.     *)
(***************************************************************************)
LEMMA InvInit == Init => Inv
<1> SUFFICES ASSUME Init PROVE Inv
  OBVIOUS
<1>1. \A e \in Executors : /\ queue[e] = <<>> /\ queue[e] \in Seq(Handlers)
                           /\ Elements(queue[e]) = {}
  BY DEF Init, Elements
<1>2. TypeOK
  <2>1. canceled \in BOOLEAN /\ resumeHandle \in BOOLEAN /\ roams \in BOOLEAN
    BY CollectiveAssumption DEF Init
  <2> QED  BY <1>1, <2>1, CollectiveAssumption DEF Init, TypeOK, Results, Nothing
<1>3. order = <<>> /\ DOMAIN order = {} /\ Len(order) = 0 /\ Count \in Nat
  BY CollectiveAssumption DEF Init
<1>4. ~Posted
  BY <1>1 DEF Posted
<1> QED
  BY <1>2, <1>3, <1>4
  DEF Init, Inv, DoneInv, Gone, RestInv, UndoneInv, GatherInv, TryGatherInv,
      SelectInv, ResumeInv, Nothing

\* A step in which no branch completes leaves what is collected alone.
LEMMA QuietStep ==
  ASSUME Inv, UNCHANGED <<kind, handler, order, resumeHandle>>,
         TypeOK', DoneInv', Posted' => Posted
  PROVE  Inv'
<1>1. UNCHANGED <<restCount, results, firstException, no>>
  BY DEF handler
<1>2. RestInv' /\ UndoneInv' /\ GatherInv' /\ SelectInv'
  BY <1>1
  DEF Inv, RestInv, UndoneInv, GatherInv, SelectInv, Promise!IsDone, Nothing
<1>3. TryGatherInv'
  BY <1>1 DEF Inv, TryGatherInv, Promise!Decides
<1>4. ResumeInv'
  BY DEF Inv, ResumeInv, Promise!Enough, Promise!Decides
<1> QED
  BY <1>2, <1>3, <1>4 DEF Inv

\* resume() posts do_resume if it has not been posted.
LEMMA ResumeFacts ==
  ASSUME TypeOK, NEW condition \in BOOLEAN, ResumeIf(condition)
  PROVE  /\ queue' \in [Executors -> Seq(Handlers)]
         /\ resumeHandle' = (resumeHandle /\ ~condition)
         /\ Posted' <=> Posted \/ (condition /\ resumeHandle)
<1>1. CASE condition /\ resumeHandle
  <2>1. queue' = Post(queue, runner, CallerResume) /\ ~resumeHandle'
    BY <1>1 DEF ResumeIf
  <2> QED  BY <1>1, <2>1, PostFacts, HandlerFacts DEF TypeOK, ResumeIf
<1>2. CASE ~(condition /\ resumeHandle)
  <2>1. UNCHANGED <<queue, resumeHandle>>
    BY <1>2 DEF ResumeIf
  <2> QED  BY <1>2, <2>1 DEF TypeOK, Posted
<1> QED
  BY <1>1, <1>2

\* What a completion adds to the order, and to what decides.
LEMMA CompletionFacts ==
  ASSUME Inv, NEW i \in Branches, NEW r \in Results, Finish(i, r)
  PROVE  /\ order' \in Seq(Completions) /\ DoneInv'
         /\ Len(order) \in Nat /\ Len(order') = Len(order) + 1
         /\ Len(order) + 1 <= Count
         /\ DOMAIN order = 1..Len(order)
         /\ DOMAIN order' = 1..(Len(order) + 1)
         /\ order'[Len(order) + 1] = [branch |-> i, result |-> r]
         /\ \A k \in 1..Len(order) :
              /\ order'[k] = order[k] /\ order[k] \in Completions
              /\ order[k].branch \in Branches \ {i}
              /\ Promise!Decides(k)' <=> Promise!Decides(k)
         /\ \A j \in Branches \ {i} : Promise!IsDone(j)' <=> Promise!IsDone(j)
         /\ ~Promise!IsDone(i) /\ Promise!IsDone(i)'
<1> DEFINE n == Len(order)
           c == [branch |-> i, result |-> r]
<1>1. /\ order \in Seq(Completions) /\ c \in Completions
      /\ order' = Append(order, c) /\ branch[i] = "running"
      /\ branch' = [branch EXCEPT ![i] = "done"]
      /\ UNCHANGED <<kind, caller, canceled, launched, fault>>
      /\ branch \in [Branches -> {"unlaunched", "running", "parked", "queued",
                                  "done", "destroyed"}]
  BY DEF Inv, TypeOK, Completions, Finish, call
<1>2. /\ order' \in Seq(Completions) /\ n \in Nat /\ Len(order') = n + 1
      /\ DOMAIN order = 1..n /\ DOMAIN order' = 1..(n + 1)
      /\ order'[n + 1] = c
      /\ \A k \in 1..n : order'[k] = order[k] /\ order[k] \in Completions
  BY <1>1, OrderFacts
<1>3. DoneInv
  BY DEF Inv
<1>4. \A k \in 1..n : order[k].branch \in Branches \ {i}
  BY <1>1, <1>2, <1>3 DEF DoneInv, Completions
<1> HIDE DEF n
<1>5. \A k \in 1..(n + 1) : k = n + 1 \/ k \in 1..n
  BY <1>2
<1>6. n + 1 \in 1..(n + 1) /\ \A k \in 1..n : k \in 1..(n + 1)
  BY <1>2
<1>7. DoneInv'
  <2>1. \A k \in DOMAIN order' : branch'[order'[k].branch] = "done"
    BY <1>1, <1>2, <1>3, <1>4, <1>5 DEF DoneInv
  <2>2. \A j, k \in DOMAIN order' :
          order'[j].branch = order'[k].branch => j = k
    BY <1>2, <1>3, <1>4, <1>5 DEF DoneInv
  <2>3. Gone' = Gone /\ ~Gone
    BY <1>1, <1>3 DEF DoneInv, Gone
  <2>4. caller' = "launching" =>
          \A j \in Branches : j >= launched' => branch'[j] = "unlaunched"
    BY <1>1, <1>3 DEF DoneInv
  <2>5. (canceled <=> Gone)' /\ fault' # "dead_caller"
    BY <1>1, <1>3 DEF DoneInv, Gone
  <2> QED  BY <2>1, <2>2, <2>3, <2>4, <2>5 DEF DoneInv
<1>8. n + 1 <= Count
  BY <1>2, <1>7, OrderBound DEF DoneInv
<1>9. \A k \in 1..n : Promise!Decides(k)' <=> Promise!Decides(k)
  <2>1. \A k \in 1..n : \A j \in 1..(k - 1) : j \in 1..n
    BY <1>2
  <2> QED  BY <1>1, <1>2, <2>1 DEF Promise!Decides
<1>10. \A j \in Branches \ {i} : Promise!IsDone(j)' <=> Promise!IsDone(j)
  BY <1>2, <1>5, <1>6 DEF Promise!IsDone
<1>11. ~Promise!IsDone(i) /\ Promise!IsDone(i)'
  BY <1>2, <1>4, <1>6 DEF Promise!IsDone
<1> QED
  BY <1>2, <1>4, <1>7, <1>8, <1>9, <1>10, <1>11 DEF n

\* More completions do not undo that there are enough; a last one, a first
\* exception or a first completion of select makes them enough.
LEMMA EnoughFacts ==
  ASSUME Inv, NEW i \in Branches, NEW r \in Results, Finish(i, r)
  PROVE  /\ Promise!Enough => Promise!Enough'
         /\ Promise!Enough' <=>
              \/ Promise!Enough
              \/ \E k \in DOMAIN order' \ DOMAIN order : Promise!Decides(k)'
              \/ kind # "select" /\ Len(order) + 1 = Count
<1> DEFINE n == Len(order)
<1>1. /\ n \in Nat /\ Len(order') = n + 1 /\ n + 1 <= Count /\ Count \in Nat
      /\ DOMAIN order = 1..n /\ DOMAIN order' = 1..(n + 1)
      /\ \A k \in 1..n : Promise!Decides(k)' <=> Promise!Decides(k)
      /\ kind' = kind
  BY CompletionFacts, CollectiveAssumption DEF Finish, call
<1>4. ~(Len(order) = Count) /\ (Len(order') = Count <=> Len(order) + 1 = Count)
  <2>1. n \in Nat /\ Len(order') = n + 1 /\ n + 1 <= Count /\ Count \in Nat
    BY <1>1
  <2>2. ~(n = Count)
    BY <2>1
  <2> QED  BY <2>1, <2>2
<1> HIDE DEF n
<1>2. \A k \in 1..(n + 1) : k = n + 1 \/ k \in 1..n
  BY <1>1
<1>3. n + 1 \in 1..(n + 1) /\ \A k \in 1..n : k \in 1..(n + 1)
  BY <1>1
<1>5. \A k : k \in DOMAIN order' \ DOMAIN order <=> k = n + 1
  BY <1>1, <1>2, <1>3
<1>6. (\E k \in DOMAIN order' : Promise!Decides(k)')
        <=> \/ \E k \in DOMAIN order : Promise!Decides(k)
            \/ \E k \in DOMAIN order' \ DOMAIN order : Promise!Decides(k)'
  BY <1>1, <1>2, <1>3, <1>5
<1> QED
  BY <1>1, <1>4, <1>6 DEF Promise!Enough

\* A branch of gather completes.
LEMMA GatherStep ==
  ASSUME Inv, NEW i \in Branches, NEW r \in Results, Finish(i, r),
         kind = "gather"
  PROVE  Inv'
<1> DEFINE n == Len(order)
<1>1. /\ TypeOK /\ RestInv /\ UndoneInv /\ GatherInv /\ ResumeInv
      /\ GatherDone(i, r) /\ kind' = "gather" /\ kind # "select"
      /\ UNCHANGED <<kind, roams, runner, caller, canceled, launched, at,
                     delivered, fault>>
      /\ branch' = [branch EXCEPT ![i] = "done"]
      /\ Count \in Nat
  BY CollectiveAssumption DEF Inv, Finish, call
<1>2. /\ results' = [results EXCEPT ![i] = r] /\ restCount' = restCount - 1
      /\ UNCHANGED <<firstException, no>> /\ ResumeIf(restCount = 1)
  BY <1>1 DEF GatherDone
<1>3. /\ order' \in Seq(Completions) /\ DoneInv'
      /\ n \in Nat /\ Len(order') = n + 1 /\ n + 1 <= Count
      /\ DOMAIN order = 1..n /\ DOMAIN order' = 1..(n + 1)
      /\ order'[n + 1] = [branch |-> i, result |-> r]
      /\ \A k \in 1..n : /\ order'[k] = order[k]
                         /\ order[k].branch \in Branches \ {i}
      /\ \A j \in Branches \ {i} : Promise!IsDone(j)' <=> Promise!IsDone(j)
      /\ Promise!IsDone(i)'
  BY CompletionFacts
<1> HIDE DEF n
<1>4. restCount = Count - n /\ restCount' = Count - (n + 1)
  BY <1>1, <1>2 DEF RestInv, n
<1>5. /\ queue' \in [Executors -> Seq(Handlers)]
      /\ resumeHandle' = (resumeHandle /\ ~(restCount = 1))
      /\ Posted' <=> Posted \/ (restCount = 1 /\ resumeHandle)
  BY <1>1, <1>2, ResumeFacts
<1>6. TypeOK'
  <2>1. restCount' \in 0..Count
    BY <1>1, <1>3, <1>4
  <2> QED
    BY <1>1, <1>2, <1>3, <1>5, <2>1 DEF TypeOK, Completions
<1>7. RestInv'
  BY <1>3, <1>4 DEF RestInv
<1>8. UndoneInv'
  BY <1>1, <1>2, <1>3 DEF UndoneInv, TypeOK
<1>9. \A k \in DOMAIN order' : results'[order'[k].branch] = order'[k].result
  <2>1. \A k \in 1..(n + 1) : k = n + 1 \/ k \in 1..n
    BY <1>3
  <2>2. results \in [Branches -> Results \cup {"none"}]
    BY <1>1 DEF TypeOK
  <2>3. ASSUME NEW k \in 1..n
        PROVE  results'[order'[k].branch] = order'[k].result
    BY <1>1, <1>2, <1>3, <2>2, <2>3 DEF GatherInv
  <2>4. results'[order'[n + 1].branch] = order'[n + 1].result
    BY <1>2, <1>3, <2>2
  <2> QED  BY <1>3, <2>1, <2>3, <2>4
<1>10. ResumeInv'
  <2>1. restCount = 1 => n + 1 = Count
    BY <1>1, <1>3, <1>4
  <2> QED
    BY <1>1, <1>5, <2>1, EnoughFacts DEF ResumeInv, n
<1> QED
  BY <1>1, <1>2, <1>3, <1>6, <1>7, <1>8, <1>9, <1>10
  DEF Inv, GatherInv, TryGatherInv, SelectInv

\* A branch of try_gather completes.
LEMMA TryGatherStep ==
  ASSUME Inv, NEW i \in Branches, NEW r \in Results, Finish(i, r),
         kind = "try_gather"
  PROVE  Inv'
<1> DEFINE n == Len(order)
<1>1. /\ TypeOK /\ RestInv /\ UndoneInv /\ TryGatherInv /\ ResumeInv
      /\ TryGatherDone(i, r) /\ kind' = "try_gather" /\ kind # "select"
      /\ UNCHANGED <<kind, roams, runner, caller, canceled, launched, at,
                     delivered, fault>>
      /\ branch' = [branch EXCEPT ![i] = "done"]
      /\ Count \in Nat
  BY CollectiveAssumption DEF Inv, Finish, call
<1>2. /\ results' = [results EXCEPT ![i] = IF r = "value" THEN r ELSE @]
      /\ firstException' = IF r = "exception" /\ firstException = None
                           THEN i ELSE firstException
      /\ restCount' = restCount - 1 /\ no' = no
      /\ ResumeIf(firstException' # firstException \/ restCount = 1)
  BY <1>1 DEF TryGatherDone
<1>3. /\ order' \in Seq(Completions) /\ DoneInv'
      /\ n \in Nat /\ Len(order') = n + 1 /\ n + 1 <= Count
      /\ DOMAIN order = 1..n /\ DOMAIN order' = 1..(n + 1)
      /\ order'[n + 1] = [branch |-> i, result |-> r]
      /\ \A k \in 1..n : /\ order'[k] = order[k] /\ order[k] \in Completions
                         /\ order[k].branch \in Branches \ {i}
                         /\ Promise!Decides(k)' <=> Promise!Decides(k)
      /\ \A j \in Branches \ {i} : Promise!IsDone(j)' <=> Promise!IsDone(j)
      /\ Promise!IsDone(i)'
  BY CompletionFacts
<1> HIDE DEF n
<1>4. restCount = Count - n /\ restCount' = Count - (n + 1)
  BY <1>1, <1>2 DEF RestInv, n
<1>5. \A k \in 1..(n + 1) : k = n + 1 \/ k \in 1..n
  BY <1>3
<1>6. n + 1 \in 1..(n + 1) /\ \A k \in 1..n : k \in 1..(n + 1)
  BY <1>3
<1> DEFINE decisive == firstException' # firstException
<1>7. decisive <=> r = "exception" /\ firstException = None
  BY <1>1, <1>2, CollectiveAssumption DEF TypeOK, Branches
<1>8. ASSUME decisive
      PROVE  /\ \E k \in DOMAIN order' \ DOMAIN order :
                  Promise!Decides(k)' /\ firstException' = order'[k].branch
  <2>1. \A k \in 1..((n + 1) - 1) : order'[k].result # "exception"
    <3>1. \A k \in 1..n : order[k].result = "value"
      BY <1>1, <1>3, <1>7, <1>8 DEF TryGatherInv
    <3>2. (n + 1) - 1 = n
      BY <1>3
    <3> QED  BY <1>3, <3>1, <3>2
  <2>2. PICK k \in DOMAIN order' \ DOMAIN order : k = n + 1
    BY <1>3, <1>5, <1>6
  <2>3. Promise!Decides(k)'
    BY <1>1, <1>3, <1>7, <1>8, <2>1, <2>2 DEF Promise!Decides
  <2> QED  BY <1>2, <1>3, <1>7, <1>8, <2>2, <2>3
<1>9. /\ queue' \in [Executors -> Seq(Handlers)]
      /\ resumeHandle' = (resumeHandle /\ ~(decisive \/ restCount = 1))
      /\ Posted' <=> Posted \/ ((decisive \/ restCount = 1) /\ resumeHandle)
  BY <1>1, <1>2, ResumeFacts
<1> HIDE DEF decisive
<1>10. TypeOK'
  <2>1. restCount' \in 0..Count
    BY <1>1, <1>3, <1>4
  <2> QED
    BY <1>1, <1>2, <1>3, <1>9, <2>1 DEF TypeOK, Completions
<1>11. RestInv'
  BY <1>3, <1>4 DEF RestInv
<1>12. UndoneInv'
  BY <1>1, <1>2, <1>3 DEF UndoneInv, TypeOK
<1>13. TryGatherInv'
  <2>1. \A k \in DOMAIN order' :
          order'[k].result = "value" => results'[order'[k].branch] = "value"
    <3>1. results \in [Branches -> Results \cup {"none"}]
      BY <1>1 DEF TypeOK
    <3>2. ASSUME NEW k \in 1..n, order'[k].result = "value"
          PROVE  results'[order'[k].branch] = "value"
      BY <1>1, <1>2, <1>3, <3>1, <3>2 DEF TryGatherInv
    <3>3. r = "value" => results'[order'[n + 1].branch] = "value"
      BY <1>2, <1>3, <3>1
    <3> QED  BY <1>3, <1>5, <3>2, <3>3
  <2>2. firstException' = None =>
          \A k \in DOMAIN order' : order'[k].result = "value"
    <3> SUFFICES ASSUME firstException' = None
                 PROVE  \A k \in DOMAIN order' : order'[k].result = "value"
      OBVIOUS
    <3>1. firstException = None /\ r = "value"
      BY <1>1, <1>2, CollectiveAssumption DEF TypeOK, Branches, Results
    <3> QED  BY <1>1, <1>3, <1>5, <3>1 DEF TryGatherInv
  <2>3. firstException' # None =>
          \E k \in DOMAIN order' :
            Promise!Decides(k)' /\ firstException' = order'[k].branch
    <3>1. CASE decisive
      BY <1>8, <3>1
    <3>2. CASE ~decisive
      BY <1>1, <1>3, <1>6, <3>2 DEF TryGatherInv, decisive
    <3> QED  BY <3>1, <3>2
  <2> QED  BY <1>1, <2>1, <2>2, <2>3 DEF TryGatherInv
<1>14. ResumeInv'
  <2>1. restCount = 1 => n + 1 = Count
    BY <1>1, <1>3, <1>4
  <2> QED
    BY <1>1, <1>8, <1>9, <2>1, EnoughFacts DEF ResumeInv, n
<1> QED
  BY <1>1, <1>3, <1>10, <1>11, <1>12, <1>13, <1>14
  DEF Inv, GatherInv, SelectInv

\* A branch of select completes.
LEMMA SelectStep ==
  ASSUME Inv, NEW i \in Branches, NEW r \in Results, Finish(i, r),
         kind = "select"
  PROVE  Inv'
<1> DEFINE n == Len(order)
<1>1. /\ TypeOK /\ SelectInv /\ ResumeInv
      /\ SelectDone(i, r) /\ kind' = "select"
      /\ UNCHANGED <<kind, roams, runner, caller, canceled, launched, at,
                     delivered, fault>>
      /\ branch' = [branch EXCEPT ![i] = "done"]
      /\ order \in Seq(Completions)
  BY DEF Inv, Finish, call, TypeOK, Completions
<1>2. /\ UNCHANGED <<restCount, firstException>> /\ ResumeIf(no = None)
      /\ \/ no = None /\ no' = i /\ results' = [results EXCEPT ![i] = r]
         \/ no # None /\ UNCHANGED <<no, results>>
  BY <1>1 DEF SelectDone
<1>3. /\ order' \in Seq(Completions) /\ DoneInv'
      /\ n \in Nat /\ Len(order') = n + 1
      /\ DOMAIN order = 1..n /\ DOMAIN order' = 1..(n + 1)
      /\ order'[n + 1] = [branch |-> i, result |-> r]
      /\ \A k \in 1..n : order'[k] = order[k] /\ order[k].branch \in Branches
  BY CompletionFacts
<1>4. order = <<>> <=> n = 0
  BY <1>1
<1>5. order' # <<>>
  BY <1>3
<1> HIDE DEF n
<1>6. no = None <=> n = 0
  <2>1. n # 0 => order[1].branch # None
    BY <1>3, CollectiveAssumption DEF Branches
  <2> QED  BY <1>1, <1>4, <2>1 DEF SelectInv
<1>7. /\ queue' \in [Executors -> Seq(Handlers)]
      /\ resumeHandle' = (resumeHandle /\ ~(no = None))
      /\ Posted' <=> Posted \/ (no = None /\ resumeHandle)
  BY <1>1, <1>2, ResumeFacts
<1>8. TypeOK'
  BY <1>1, <1>2, <1>3, <1>7 DEF TypeOK, Completions
<1>9. SelectInv'
  <2>1. CASE n = 0
    BY <1>1, <1>2, <1>3, <1>4, <1>5, <1>6, <2>1 DEF SelectInv, Nothing
  <2>2. CASE n # 0
    BY <1>1, <1>2, <1>3, <1>4, <1>5, <1>6, <2>2 DEF SelectInv, Nothing
  <2> QED  BY <2>1, <2>2
<1>10. ResumeInv'
  <2>1. no = None => \E k \in DOMAIN order' \ DOMAIN order : Promise!Decides(k)'
    BY <1>1, <1>3, <1>6 DEF Promise!Decides
  <2> QED
    BY <1>1, <1>7, <2>1, EnoughFacts DEF ResumeInv, n
<1> QED
  BY <1>1, <1>3, <1>8, <1>9, <1>10
  DEF Inv, GatherInv, TryGatherInv, RestInv, UndoneInv

\* The caller's turn: it goes on if do_resume finds it there, whose
\* awaiter then destroys the branches that are left.
LEMMA CallerStep ==
  ASSUME Inv, NEW e \in Executors, RunCallerResume(e)
  PROVE  Inv'
<1>1. /\ TypeOK /\ DoneInv /\ Takes(e, CallerResume) /\ queue' = Popped(e)
      /\ UNCHANGED <<kind, roams, runner, launched, at, handler, resumeHandle,
                     order>>
  BY DEF Inv, RunCallerResume, call
<1>2. queue' \in [Executors -> Seq(Handlers)] /\ (Posted' => Posted)
  BY <1>1, PopFacts
<1>3. CASE Gone
  <2>1. UNCHANGED <<caller, canceled, delivered, branch, fault>>
    BY <1>1, <1>3 DEF RunCallerResume, DoneInv
  <2>2. TypeOK' /\ DoneInv'
    BY <1>1, <1>2, <2>1 DEF TypeOK, DoneInv, Gone, handler
  <2> QED  BY <1>1, <1>2, <2>2, QuietStep
<1>4. CASE ~Gone
  <2>1. /\ caller' = "returned" /\ delivered' = Collected /\ fault' = StartFault
        /\ branch' = [i \in Branches |->
                        IF branch[i] = "done" THEN "done" ELSE "destroyed"]
        /\ canceled' = TRUE
    BY <1>1, <1>4 DEF RunCallerResume, DestroyAwaiter, BranchesDestroyed, DoneInv
  <2>2. Collected \in [Branches -> Results \cup {"none"}]
    BY <1>1 DEF Collected, TypeOK, Nothing, Results
  <2>3. TypeOK'
    BY <1>1, <1>2, <2>1, <2>2 DEF TypeOK, StartFault, handler
  <2>4. \A k \in DOMAIN order : order[k].branch \in Branches
    BY <1>1, OrderBranches
  <2>5. DoneInv'
    BY <1>1, <2>1, <2>4 DEF DoneInv, Gone, StartFault
  <2> QED  BY <1>1, <1>2, <2>3, <2>5, QuietStep
<1> QED
  BY <1>3, <1>4

\* Every step of the caller, of a branch and of an executor keeps it.
LEMMA InvStep == Inv /\ [Next]_vars => Inv'
<1> SUFFICES ASSUME Inv, [Next]_vars PROVE Inv'
  OBVIOUS
<1>0. /\ TypeOK /\ DoneInv
      /\ \A k \in DOMAIN order : order[k].branch \in Branches
  BY OrderBranches DEF Inv
<1>1. CASE UNCHANGED vars
  <2>1. TypeOK' /\ DoneInv' /\ (Posted' => Posted)
    BY <1>0, <1>1 DEF vars, call, handler, TypeOK, DoneInv, Gone, Posted
  <2> QED  BY <1>1, <2>1, QuietStep DEF vars, call
<1>2. CASE Launch
  <2>1. TypeOK'
    <3>1. launched' \in 0..Count
      BY <1>0, <1>2, CollectiveAssumption DEF Launch, TypeOK
    <3>2. branch' \in [Branches -> {"unlaunched", "running", "parked", "queued",
                                   "done", "destroyed"}]
      BY <1>0, <1>2 DEF Launch, TypeOK
    <3> QED  BY <1>0, <1>2, <3>1, <3>2 DEF Launch, call, handler, TypeOK
  <2>2. DoneInv'
    <3>1. /\ launched \in Branches /\ launched \in Nat /\ launched' = launched + 1
          /\ branch[launched] = "unlaunched" /\ caller = "launching"
      BY <1>0, <1>2, CollectiveAssumption DEF Launch, TypeOK, DoneInv, Branches
    <3>2. /\ \A k \in Branches \ {launched} : branch'[k] = branch[k]
          /\ UNCHANGED <<order, caller, canceled, fault>>
      BY <1>0, <1>2 DEF Launch, TypeOK
    <3>3. Branches \subseteq Nat
      BY CollectiveAssumption DEF Branches
    <3>4. \A k \in DOMAIN order : branch'[order[k].branch] = "done"
      BY <1>0, <3>1, <3>2 DEF DoneInv
    <3>5. \A i \in Branches : i >= launched + 1 => branch'[i] = "unlaunched"
      <4>1. \A i \in Branches : i >= launched => branch[i] = "unlaunched"
        BY <1>0, <3>1 DEF DoneInv
      <4>2. \A i \in Branches : i >= launched + 1 => i >= launched /\ i # launched
        BY <3>1, <3>3
      <4> QED  BY <3>2, <4>1, <4>2
    <3> QED  BY <1>0, <3>1, <3>2, <3>4, <3>5 DEF DoneInv, Gone
  <2>3. Posted' => Posted
    BY <1>2 DEF Launch, call, handler, Posted
  <2> QED  BY <1>2, <2>1, <2>2, <2>3, QuietStep DEF Launch, call
<1>3. CASE Launched
  <2>1. TypeOK' /\ DoneInv' /\ (Posted' => Posted)
    BY <1>0, <1>3 DEF Launched, call, handler, TypeOK, DoneInv, Gone, Posted
  <2> QED  BY <1>3, <2>1, QuietStep DEF Launched, call
<1>4. CASE Cancel
  <2>1. TypeOK' /\ DoneInv' /\ (Posted' => Posted)
    BY <1>0, <1>4
    DEF Cancel, DestroyAwaiter, BranchesDestroyed, StartFault, call, handler, TypeOK, DoneInv,
        Gone, Posted
  <2> QED  BY <1>4, <2>1, QuietStep DEF Cancel, call
<1>5. ASSUME NEW i \in Branches, Suspend(i) PROVE Inv'
  <2>1. TypeOK' /\ DoneInv' /\ (Posted' => Posted)
    BY <1>0, <1>5 DEF Suspend, call, handler, TypeOK, DoneInv, Gone, Posted
  <2> QED  BY <1>5, <2>1, QuietStep DEF Suspend, call
<1>6. ASSUME NEW i \in Branches, Complete(i) PROVE Inv'
  <2>1. queue' \in [Executors -> Seq(Handlers)] /\ (Posted' => Posted)
    BY <1>0, <1>6, PostFacts, HandlerFacts DEF Complete, TypeOK
  <2>2. TypeOK' /\ DoneInv'
    BY <1>0, <1>6, <2>1 DEF Complete, call, handler, TypeOK, DoneInv, Gone
  <2> QED  BY <1>6, <2>1, <2>2, QuietStep DEF Complete, call
<1>7. ASSUME NEW i \in Branches, NEW f \in Executors, Roam(i, f) PROVE Inv'
  <2>1. queue' \in [Executors -> Seq(Handlers)] /\ (Posted' => Posted)
    BY <1>0, <1>7, PostFacts, HandlerFacts DEF Roam
  <2>2. TypeOK' /\ DoneInv'
    BY <1>0, <1>7, <2>1 DEF Roam, call, handler, TypeOK, DoneInv, Gone
  <2> QED  BY <1>7, <2>1, <2>2, QuietStep DEF Roam, call
<1>8. ASSUME NEW i \in Branches, NEW r \in Results, Finish(i, r) PROVE Inv'
  <2>1. kind \in Kinds
    BY <1>0 DEF TypeOK
  <2> QED  BY <1>8, <2>1, GatherStep, TryGatherStep, SelectStep DEF Kinds
<1>9. ASSUME NEW e \in Executors, RunCallerResume(e) PROVE Inv'
  BY <1>9, CallerStep
<1>10. ASSUME NEW e \in Executors, NEW i \in Branches,
              RunBranchResume(e, i) \/ RunBareResume(e, i)
       PROVE  Inv'
  <2>1. queue' \in [Executors -> Seq(Handlers)] /\ (Posted' => Posted)
    BY <1>0, <1>10, PopFacts DEF RunBranchResume, RunBareResume
  <2>2. /\ branch' \in {branch, [branch EXCEPT ![i] = "running"]}
        /\ branch' = branch \/ branch[i] = "queued"
        /\ fault' \in {"none", "parallel", "resumed_dead"}
        /\ UNCHANGED <<call, runner, caller, canceled, launched, at, handler,
                       resumeHandle, delivered, order>>
    <3>1. fault \in {"none", "parallel", "resumed_dead"}
      BY <1>0 DEF TypeOK, DoneInv
    <3>2. CASE RunBranchResume(e, i)
      BY <3>1, <3>2 DEF RunBranchResume, StartFault
    <3>3. CASE RunBareResume(e, i)
      BY <3>3 DEF RunBareResume, StartFault
    <3> QED  BY <1>10, <3>2, <3>3
  <2>3. TypeOK'
    BY <1>0, <2>1, <2>2 DEF call, handler, TypeOK
  <2>4. \A k \in Branches : branch'[k] = branch[k] \/ (k = i /\ branch[i] = "queued")
    BY <1>0, <2>2 DEF TypeOK
  <2>5. /\ UNCHANGED <<caller, canceled, launched, order>>
        /\ fault' # "dead_caller"
    BY <2>2
  <2>6. (canceled <=> Gone)'
    BY <1>0, <2>5 DEF DoneInv, Gone
  <2>7. /\ Gone' => \A k \in Branches : branch'[k] \in {"done", "destroyed"}
        /\ caller' = "launching" =>
             \A k \in Branches : k >= launched' => branch'[k] = "unlaunched"
    BY <1>0, <2>4, <2>5 DEF DoneInv, Gone
  <2>8. DoneInv'
    BY <1>0, <2>4, <2>5, <2>6, <2>7 DEF DoneInv
  <2> QED  BY <2>1, <2>2, <2>3, <2>8, QuietStep DEF call
<1> QED
  BY <1>1, <1>2, <1>3, <1>4, <1>5, <1>6, <1>7, <1>8, <1>9, <1>10
  DEF Next, Step, Body, Run

(***************************************************************************)
(* Type correctness, and with it that rest_count_, which is unsigned,      *)
(* never goes below zero.                                                  *)
(***************************************************************************)
THEOREM TypeCorrect == Spec => []TypeOK
<1>1. Inv => TypeOK
  BY DEF Inv
<1> QED
  BY <1>1, InvInit, InvStep, PTL DEF Spec

(***************************************************************************)
(* No do_resume resumes a caller that has gone on or is destroyed, however *)
(* many branches there are, wherever they roam and whenever the caller is  *)
(* destroyed: whatever ends the wait sets the flag in the same step.       *)
(***************************************************************************)
THEOREM DeadNotResumed == Spec => []NoDeadCaller
<1>1. Inv => NoDeadCaller
  BY DEF Inv, DoneInv, NoDeadCaller
<1> QED
  BY <1>1, InvInit, InvStep, PTL DEF Spec

-----------------------------------------------------------------------------
\* resume() is called by the completion that makes them enough.
LEMMA DecidingStep ==
  ASSUME Inv, WakeInv, NEW i \in Branches, NEW r \in Results, Finish(i, r),
         Promise!Enough', resumeHandle
  PROVE  Posted' /\ ~resumeHandle'
<1> DEFINE n == Len(order)
<1>1. /\ TypeOK /\ RestInv /\ TryGatherInv /\ SelectInv /\ kind' = kind
      /\ Count \in Nat /\ kind \in Kinds
  BY CollectiveAssumption DEF Inv, Finish, call, TypeOK
<1>2. /\ n \in Nat /\ DOMAIN order = 1..n /\ DOMAIN order' = 1..(n + 1)
      /\ order'[n + 1] = [branch |-> i, result |-> r]
      /\ \A k \in 1..n : order'[k] = order[k] /\ order[k] \in Completions
  BY CompletionFacts
<1>3. kind # "select" => restCount = Count - n
  BY <1>1 DEF RestInv
<1>4. order = <<>> <=> n = 0
  BY <1>1 DEF TypeOK
<1>5. (kind # "select" /\ n + 1 = Count)
        \/ \E k \in DOMAIN order' \ DOMAIN order : Promise!Decides(k)'
  BY EnoughFacts DEF WakeInv
<1> HIDE DEF n
<1>6. \A k \in DOMAIN order' \ DOMAIN order : k = n + 1
  BY <1>2
<1>7. CASE kind = "gather"
  <2>1. restCount = 1
    BY <1>1, <1>2, <1>3, <1>5, <1>7 DEF Promise!Decides
  <2>2. ResumeIf(restCount = 1)
    BY <1>7 DEF Finish, GatherDone
  <2> QED  BY <1>1, <2>1, <2>2, ResumeFacts
<1>8. CASE kind = "try_gather"
  <2> DEFINE condition == firstException' # firstException \/ restCount = 1
  <2>1. n + 1 = Count => condition
    BY <1>1, <1>2, <1>3, <1>8
  <2>2. ASSUME NEW k \in DOMAIN order' \ DOMAIN order, Promise!Decides(k)'
        PROVE  condition
    <3>1. k = n + 1 /\ k - 1 = n
      BY <1>2, <1>6
    <3>2. r = "exception" /\ \A j \in 1..n : order[j].result # "exception"
      BY <1>1, <1>2, <1>8, <2>2, <3>1 DEF Promise!Decides
    <3>3. firstException = None
      BY <1>1, <1>2, <1>8, <3>2 DEF TryGatherInv, Promise!Decides
    <3>4. firstException' = i
      BY <1>8, <3>2, <3>3 DEF Finish, TryGatherDone
    <3> QED  BY <3>3, <3>4, CollectiveAssumption DEF Branches
  <2>3. ResumeIf(condition)
    BY <1>8 DEF Finish, TryGatherDone
  <2>4. condition
    BY <1>5, <2>1, <2>2
  <2> HIDE DEF condition
  <2> QED  BY <1>1, <2>3, <2>4, ResumeFacts
<1>9. CASE kind = "select"
  <2>1. no = None
    BY <1>1, <1>2, <1>4, <1>5, <1>6, <1>9 DEF Promise!Decides, SelectInv
  <2>2. ResumeIf(no = None)
    BY <1>9 DEF Finish, SelectDone
  <2> QED  BY <1>1, <2>1, <2>2, ResumeFacts
<1> QED
  BY <1>1, <1>7, <1>8, <1>9 DEF Kinds

\* do_resume stays posted until it runs.
LEMMA WakeStep == Inv /\ WakeInv /\ [Next]_vars => WakeInv'
<1> SUFFICES ASSUME Inv, WakeInv, [Next]_vars PROVE WakeInv'
  OBVIOUS
<1>0. TypeOK /\ DoneInv
  BY DEF Inv
<1>1. ASSUME UNCHANGED <<kind, order, resumeHandle>>, fault = "none",
             ~Gone => Gone' \/ (Posted => Posted'),
             Gone => Gone'
      PROVE  WakeInv'
  BY <1>1 DEF WakeInv, Promise!Enough, Promise!Decides
<1>2. CASE UNCHANGED vars
  BY <1>2 DEF vars, call, WakeInv, Promise!Enough, Promise!Decides, Gone,
              Posted
<1> SUFFICES ASSUME fault = "none", Step PROVE WakeInv'
  BY <1>2 DEF Next
<1>3. CASE Launch \/ Launched \/ Cancel
  BY <1>1, <1>3 DEF Launch, Launched, Cancel, call, Gone, Posted
<1>4. ASSUME NEW i \in Branches, Suspend(i) PROVE WakeInv'
  BY <1>1, <1>4 DEF Suspend, call, Gone, Posted
<1>5. ASSUME NEW i \in Branches, Complete(i) PROVE WakeInv'
  <2>1. Posted => Posted'
    BY <1>0, <1>5, PostFacts, HandlerFacts DEF Complete, TypeOK
  <2> QED  BY <1>1, <1>5, <2>1 DEF Complete, call, Gone
<1>6. ASSUME NEW i \in Branches, NEW f \in Executors, Roam(i, f) PROVE WakeInv'
  <2>1. Posted => Posted'
    BY <1>0, <1>6, PostFacts, HandlerFacts DEF Roam
  <2> QED  BY <1>1, <1>6, <2>1 DEF Roam, call, Gone
<1>7. ASSUME NEW i \in Branches, NEW r \in Results, Finish(i, r) PROVE WakeInv'
  <2>1. caller' = caller /\ fault' = fault
    BY <1>7 DEF Finish
  <2>2. CASE resumeHandle
    <3>1. resumeHandle' \/ Posted'
      <4>1. kind \in Kinds
        BY <1>0 DEF TypeOK
      <4> DEFINE c == firstException' # firstException \/ restCount = 1
      <4>2. CASE kind = "gather"
        BY <1>0, <1>7, <2>2, <4>2, ResumeFacts DEF Finish, GatherDone
      <4>3. CASE kind = "try_gather"
        <5>1. ResumeIf(c)
          BY <1>7, <4>3 DEF Finish, TryGatherDone
        <5>2. c \in BOOLEAN
          OBVIOUS
        <5> HIDE DEF c
        <5> QED  BY <1>0, <2>2, <5>1, <5>2, ResumeFacts
      <4>4. CASE kind = "select"
        BY <1>0, <1>7, <2>2, <4>4, ResumeFacts DEF Finish, SelectDone
      <4> QED  BY <4>1, <4>2, <4>3, <4>4 DEF Kinds
    <3> QED  BY <1>7, <2>1, <2>2, <3>1, DecidingStep DEF WakeInv, Gone
  <2>3. CASE ~resumeHandle
    <3>1. UNCHANGED <<queue, resumeHandle>>
      BY <1>7, <2>3 DEF Finish, GatherDone, TryGatherDone, SelectDone, ResumeIf
    <3> QED  BY <2>1, <2>3, <3>1 DEF WakeInv, Gone, Posted
  <2> QED  BY <2>2, <2>3
<1>8. ASSUME NEW e \in Executors, RunCallerResume(e) PROVE WakeInv'
  <2>1. Gone'
    BY <1>0, <1>8 DEF RunCallerResume, Gone, DoneInv
  <2> QED  BY <1>1, <1>8, <2>1 DEF RunCallerResume, call
<1>9. ASSUME NEW e \in Executors, NEW i \in Branches,
             RunBranchResume(e, i) \/ RunBareResume(e, i)
      PROVE  WakeInv'
  <2>1. Posted => Posted'
    BY <1>0, <1>9, PopFacts, HandlerFacts DEF RunBranchResume, RunBareResume
  <2>2. UNCHANGED <<kind, order, resumeHandle, caller>>
    BY <1>9 DEF RunBranchResume, RunBareResume, call
  <2> QED  BY <1>1, <2>1, <2>2 DEF Gone
<1> QED
  BY <1>3, <1>4, <1>5, <1>6, <1>7, <1>8, <1>9 DEF Step, Body, Run

(***************************************************************************)
(* The resumption of the caller is never lost: with anything to await at   *)
(* all, whatever the order of the completions, the one that makes them     *)
(* enough posts do_resume and it stays posted until it runs.               *)
(***************************************************************************)
THEOREM WakeNotLost ==
  ASSUME Count # 0
  PROVE  Spec => []ResumePosted
<1>1. Init => Inv /\ WakeInv
  <2> SUFFICES ASSUME Init PROVE WakeInv
    BY InvInit
  <2>1. order = <<>> /\ DOMAIN order = {} /\ Len(order) = 0
    BY DEF Init
  <2> QED  BY <2>1 DEF Init, WakeInv, Promise!Enough
<1>2. (Inv /\ WakeInv) /\ [Next]_vars => (Inv /\ WakeInv)'
  BY InvStep, WakeStep
<1>3. Inv /\ WakeInv => ResumePosted
  BY DEF WakeInv, ResumePosted, Posted, Elements
<1> QED
  BY <1>1, <1>2, <1>3, PTL DEF Spec

-----------------------------------------------------------------------------
\* An executor at home that takes a handler has the task to itself.
LEMMA AloneAtHome ==
  ASSUME TypeOK, HomeInv, ~roams, NEW e \in Executors, Free(e), e = Home
  PROVE  StartFault = "none"
BY DEF HomeInv, Free, StartFault, Alone, Running

\* Without roaming nobody leaves home.
LEMMA HomeStep == Inv /\ HomeInv /\ [Next]_vars => HomeInv' /\ roams' = roams
<1> SUFFICES ASSUME Inv, HomeInv, [Next]_vars PROVE HomeInv' /\ roams' = roams
  OBVIOUS
<1>0. TypeOK /\ DoneInv /\ Home \in Executors
  BY CollectiveAssumption DEF Inv
<1>1. roams' = roams
  BY DEF Next, Step, Body, Run, Launch, Launched, Cancel, Suspend, Complete, Roam,
         Finish, RunCallerResume, RunBranchResume, RunBareResume, call, vars
<1> SUFFICES ASSUME ~roams PROVE HomeInv'
  BY <1>1 DEF HomeInv
<1>2. /\ fault = "none" /\ runner = Home /\ (\A i \in Branches : at[i] = Home)
      /\ \A e \in Executors : queue[e] # <<>> => e = Home
      /\ \A e \in Executors, i \in Branches : BareResume(i) \notin Elements(queue[e])
  BY DEF HomeInv
<1>3. ASSUME UNCHANGED <<queue, fault, runner, at>> PROVE HomeInv'
  BY <1>2, <1>3 DEF HomeInv
<1>4. ASSUME NEW h \in Handlers, queue' = Post(queue, Home, h),
             \A i \in Branches : BareResume(i) # h, UNCHANGED <<fault, runner, at>>
      PROVE  HomeInv'
  <2>1. /\ \A f \in Executors \ {Home} : queue'[f] = queue[f]
        /\ Elements(queue'[Home]) = Elements(queue[Home]) \cup {h}
    BY <1>0, <1>4, PostFacts
  <2> QED  BY <1>0, <1>2, <1>4, <2>1 DEF HomeInv
<1>5. ASSUME NEW e \in Executors, NEW h, Takes(e, h), queue' = Popped(e),
             UNCHANGED <<runner, at>>
      PROVE  /\ fault' = "none" => HomeInv'
             /\ e = Home /\ StartFault = "none"
             /\ \A i \in Branches : h # BareResume(i)
  <2>1. /\ h \in Elements(queue[e]) /\ queue[e] # <<>>
        /\ \A f \in Executors : /\ Elements(queue'[f]) \subseteq Elements(queue[f])
                                /\ queue'[f] # <<>> => queue[f] # <<>>
    BY <1>0, <1>5, PopFacts
  <2>2. e = Home /\ \A i \in Branches : h # BareResume(i)
    BY <1>2, <2>1
  <2>3. StartFault = "none"
    BY <1>0, <1>5, <2>2, AloneAtHome DEF Takes
  <2>4. ASSUME NEW f \in Executors
        PROVE  /\ \A i \in Branches : BareResume(i) \notin Elements(queue'[f])
               /\ queue'[f] # <<>> => f = Home
    BY <1>2, <2>1
  <2>5. runner' = Home /\ \A i \in Branches : at'[i] = Home
    BY <1>2, <1>5
  <2>6. fault' = "none" => HomeInv'
    BY <2>4, <2>5, Zenon DEF HomeInv
  <2> QED  BY <2>2, <2>3, <2>6
<1>6. CASE UNCHANGED vars
  BY <1>3, <1>6 DEF vars
<1>7. CASE Launch \/ Launched
  BY <1>3, <1>7 DEF Launch, Launched
<1>8. CASE Cancel
  <2>1. StartFault = "none"
    BY <1>0, <1>2, <1>8, AloneAtHome DEF Cancel
  <2> QED  BY <1>2, <1>3, <1>8, <2>1 DEF Cancel
<1>9. ASSUME NEW i \in Branches, Suspend(i) PROVE HomeInv'
  BY <1>0, <1>2, <1>9 DEF Suspend, HomeInv, TypeOK
<1>10. ASSUME NEW i \in Branches, Complete(i) PROVE HomeInv'
  BY <1>2, <1>4, <1>10, HandlerFacts DEF Complete
<1>11. ASSUME NEW i \in Branches, NEW r \in Results, Finish(i, r) PROVE HomeInv'
  <2>1. UNCHANGED <<runner, at, fault>>
    BY <1>11 DEF Finish
  <2>2. UNCHANGED queue \/ queue' = Post(queue, Home, CallerResume)
    BY <1>2, <1>11 DEF Finish, GatherDone, TryGatherDone, SelectDone, ResumeIf
  <2> QED  BY <1>3, <1>4, <2>1, <2>2, HandlerFacts
<1>12. ASSUME NEW e \in Executors, RunCallerResume(e) PROVE HomeInv'
  BY <1>0, <1>2, <1>5, <1>12 DEF RunCallerResume, DoneInv
<1>13. ASSUME NEW e \in Executors, NEW i \in Branches, RunBranchResume(e, i)
       PROVE  HomeInv'
  BY <1>2, <1>5, <1>13 DEF RunBranchResume
<1>14. ASSUME NEW e \in Executors, NEW i \in Branches, RunBareResume(e, i)
       PROVE  HomeInv'
  BY <1>5, <1>14 DEF RunBareResume
<1> QED
  BY <1>6, <1>7, <1>8, <1>9, <1>10, <1>11, <1>12, <1>13, <1>14
  DEF Next, Step, Body, Run, Roam

LEMMA HomeInit == Init => HomeInv
BY DEF Init, HomeInv, Elements

(***************************************************************************)
(* If no branch may roam, the caller and its branches never run on two     *)
(* threads at a time.                                                      *)
(***************************************************************************)
THEOREM SequentialAtHome ==
  ASSUME TRUE \notin Roams
  PROVE  Spec => []Sequential
<1> DEFINE I == Inv /\ HomeInv /\ ~roams
<1>1. Init => I
  BY InvInit, HomeInit, CollectiveAssumption DEF Init
<1>2. I /\ [Next]_vars => I'
  BY InvStep, HomeStep
<1>3. I => Sequential
  BY DEF HomeInv, Sequential
<1> QED
  BY <1>1, <1>2, <1>3, PTL DEF Spec

-----------------------------------------------------------------------------
\* The completion of a branch is the one recorded for it.
LEMMA TheCompletion ==
  ASSUME Inv, NEW k \in DOMAIN order
  PROVE  (CHOOSE c \in {order[j] : j \in DOMAIN order} :
            c.branch = order[k].branch) = order[k]
<1> DEFINE S == {order[j] : j \in DOMAIN order}
<1>1. order[k] \in S
  OBVIOUS
<1>2. \A c \in S : c.branch = order[k].branch => c = order[k]
  BY DEF Inv, DoneInv
<1> QED
  BY <1>1, <1>2

\* What collect_results returns or throws is what the order of completions
\* promises.
LEMMA CollectedAnswer ==
  ASSUME Inv, Promise!Enough
  PROVE  Collected = Promise!Answer
<1> DEFINE The(i) == CHOOSE c \in {order[j] : j \in DOMAIN order} : c.branch = i
           Told(i) == \E k \in DOMAIN order :
                        /\ order[k].branch = i
                        /\ \/ Promise!Decides(k)
                           \/ \A j \in DOMAIN order : ~Promise!Decides(j)
<1>1. Promise!Answer =
        [i \in Branches |-> IF Told(i) THEN The(i).result ELSE "none"]
  BY DEF Promise!Answer, Promise!Branches, Branches
<1>2. /\ \A k \in DOMAIN order : The(order[k].branch) = order[k]
      /\ \A k \in DOMAIN order : order[k] \in Completions
      /\ \A j, k \in DOMAIN order : order[j].branch = order[k].branch => j = k
      /\ DOMAIN order = 1..Len(order) /\ Len(order) \in Nat
  <2>1. order \in Seq(Completions)
    BY DEF Inv, TypeOK, Completions
  <2> QED  BY <2>1, TheCompletion DEF Inv, DoneInv
<1>3. /\ results \in [Branches -> Results \cup {"none"}] /\ kind \in Kinds
      /\ firstException \in Branches \cup {None}
  BY DEF Inv, TypeOK
<1> HIDE DEF The
<1>4. CASE kind = "gather"
  <2>1. \A k : ~Promise!Decides(k)
    BY <1>4 DEF Promise!Decides
  <2>2. ASSUME NEW i \in Branches
        PROVE  results[i] = IF Told(i) THEN The(i).result ELSE "none"
    <3>1. CASE Promise!IsDone(i)
      BY <1>2, <1>4, <2>1, <3>1 DEF Inv, GatherInv, Promise!IsDone
    <3>2. CASE ~Promise!IsDone(i)
      BY <1>4, <2>1, <3>2 DEF Inv, UndoneInv, Promise!IsDone
    <3> QED  BY <3>1, <3>2
  <2>3. Collected = results
    BY <1>4 DEF Collected
  <2> QED  BY <1>1, <1>3, <2>2, <2>3
<1>5. CASE kind = "try_gather" /\ firstException = None
  <2>1. \A k \in DOMAIN order : order[k].result = "value" /\ ~Promise!Decides(k)
    BY <1>5 DEF Inv, TryGatherInv, Promise!Decides
  <2>2. ASSUME NEW i \in Branches
        PROVE  results[i] = IF Told(i) THEN The(i).result ELSE "none"
    <3>1. CASE Promise!IsDone(i)
      BY <1>2, <1>5, <2>1, <3>1 DEF Inv, TryGatherInv, Promise!IsDone
    <3>2. CASE ~Promise!IsDone(i)
      BY <1>5, <2>1, <3>2 DEF Inv, UndoneInv, Promise!IsDone
    <3> QED  BY <3>1, <3>2
  <2>3. Collected = results
    BY <1>5 DEF Collected
  <2> QED  BY <1>1, <1>3, <2>2, <2>3
<1>6. CASE kind = "try_gather" /\ firstException # None
  <2>1. PICK k \in DOMAIN order :
          Promise!Decides(k) /\ firstException = order[k].branch
    BY <1>6 DEF Inv, TryGatherInv
  <2>2. \A j \in DOMAIN order : Promise!Decides(j) => j = k
    BY <1>2, <1>6, <2>1 DEF Promise!Decides
  <2>3. order[k].result = "exception"
    BY <1>6, <2>1 DEF Promise!Decides
  <2>4. \A i \in Branches : Told(i) <=> i = firstException
    BY <1>2, <2>1, <2>2
  <2>5. The(firstException).result = "exception"
    BY <1>2, <2>1, <2>3
  <2>6. Collected = [Nothing EXCEPT ![firstException] = "exception"]
    BY <1>6 DEF Collected
  <2> QED  BY <1>1, <1>3, <2>4, <2>5, <2>6 DEF Nothing
<1>7. CASE kind = "select"
  <2>1. order # <<>> /\ 1 \in DOMAIN order
    BY <1>2, <1>7 DEF Promise!Enough, Promise!Decides
  <2>2. \A k : Promise!Decides(k) <=> k = 1
    BY <1>7 DEF Promise!Decides
  <2>3. /\ no = order[1].branch /\ no \in Branches
        /\ results = [Nothing EXCEPT ![no] = order[1].result]
    BY <1>2, <1>7, <2>1 DEF Inv, SelectInv, Completions
  <2>4. \A i \in Branches : Told(i) <=> i = no
    BY <2>1, <2>2, <2>3
  <2>5. The(no) = order[1]
    BY <1>2, <2>1, <2>3
  <2>6. Collected = results
    BY <1>7 DEF Collected
  <2> QED  BY <1>1, <2>3, <2>4, <2>5, <2>6 DEF Nothing
<1> QED
  BY <1>3, <1>4, <1>5, <1>6, <1>7 DEF Kinds

(***************************************************************************)
(* Collective implements CollectivePromise: a branch's end is a completion *)
(* of it, the caller's turn its return, a destroyed caller gives up, and   *)
(* nothing else shows.                                                     *)
(***************************************************************************)
LEMMA PromiseInit == Init => Promise!Init
BY DEF Init, Promise!Init, Kinds, Promise!Kinds, Nothing, Promise!Nothing,
       Branches, Promise!Branches

\* A completion of a branch is one of the promise.
LEMMA PromiseComplete ==
  ASSUME Inv, NEW i \in Branches, NEW r \in Results, Finish(i, r)
  PROVE  Promise!Complete(i, r)
<1>1. ~Promise!IsDone(i)
  BY CompletionFacts
<1>2. ~Gone
  BY DEF Inv, DoneInv, Finish
<1> QED
  BY <1>1, <1>2 DEF Finish, Promise!Complete, Gone, call

\* The caller's turn is the return of the promise.
LEMMA PromiseReturn ==
  ASSUME Inv, NEW e \in Executors, RunCallerResume(e)
  PROVE  Promise!Return \/ UNCHANGED Promise!vars
<1>1. UNCHANGED <<kind, order>>
  BY DEF RunCallerResume, call
<1>2. CASE Gone
  BY <1>1, <1>2 DEF Inv, DoneInv, RunCallerResume, Promise!vars
<1>3. CASE ~Gone
  <2>1. Posted
    BY PopFacts DEF Inv, RunCallerResume, Posted
  <2>2. Promise!Enough
    BY <2>1 DEF Inv, ResumeInv
  <2>3. delivered' = Promise!Answer /\ caller' = "returned"
    BY <1>3, <2>2, CollectedAnswer DEF Inv, DoneInv, RunCallerResume
  <2> QED  BY <1>1, <1>3, <2>2, <2>3 DEF Promise!Return, Gone
<1> QED
  BY <1>2, <1>3

LEMMA PromiseStep == Inv /\ [Next]_vars => [Promise!Next]_(Promise!vars)
<1> SUFFICES ASSUME Inv, [Next]_vars
             PROVE  Promise!Next \/ UNCHANGED Promise!vars
  OBVIOUS
<1>1. CASE UNCHANGED vars \/ Launch \/ Launched
  BY <1>1 DEF vars, call, Launch, Launched, Promise!vars
<1>2. CASE Cancel
  BY <1>2 DEF Cancel, call, Promise!Next, Promise!GiveUp
<1>3. ASSUME NEW i \in Branches, NEW r \in Results, Finish(i, r)
      PROVE  Promise!Next
  BY <1>3, PromiseComplete
  DEF Promise!Next, Results, Promise!Results, Branches, Promise!Branches
<1>4. ASSUME NEW e \in Executors, RunCallerResume(e)
      PROVE  Promise!Next \/ UNCHANGED Promise!vars
  BY <1>4, PromiseReturn DEF Promise!Next
<1>5. ASSUME NEW i \in Branches,
             \/ Suspend(i) \/ Complete(i) \/ \E f \in Executors : Roam(i, f)
             \/ \E e \in Executors : RunBranchResume(e, i) \/ RunBareResume(e, i)
      PROVE  UNCHANGED Promise!vars
  BY <1>5 DEF Suspend, Complete, Roam, RunBranchResume, RunBareResume, call,
              Promise!vars
<1> QED
  BY <1>1, <1>2, <1>3, <1>4, <1>5 DEF Next, Step, Body, Run

(***************************************************************************)
(* What gather, try_gather and select deliver depends on the order of the  *)
(* completions alone, for any number of branches, on whatever executors    *)
(* they complete and whenever the caller gets its turn.                    *)
(***************************************************************************)
THEOREM CollectiveKeepsPromise == Spec => KeepsPromise
BY PromiseInit, PromiseStep, InvInit, InvStep, PTL
DEF Spec, KeepsPromise, Promise!Spec
=============================================================================
