-------------------------- MODULE CollectivePromise --------------------------
(***************************************************************************)
(* What gather, try_gather and select promise the coroutine that awaits    *)
(* them.  Branches complete one by one, each with a value or an exception. *)
(* gather delivers every result, each in the place of its branch;          *)
(* try_gather delivers every value, or only the first exception; select    *)
(* delivers only the first completion.  What is delivered depends on the   *)
(* order of completions alone, not on when the caller gets to run.         *)
(***************************************************************************)
EXTENDS Naturals, Sequences

CONSTANT Count   \* how many awaitable objects

VARIABLES
  kind,      \* which of the three it is
  done,      \* the completions, in the order they happened
  caller,    \* "waiting", "returned" or "gone" (destroyed while it waited)
  delivered  \* the result each branch contributes to what is returned

vars == <<kind, done, caller, delivered>>

Kinds == {"gather", "try_gather", "select"}
Branches == 0..(Count - 1)
Results == {"value", "exception"}
Nothing == [i \in Branches |-> "none"]

IsDone(i) == \E k \in DOMAIN done : done[k].branch = i

\* The completion that decides alone what the caller gets.
Decides(k) ==
  \/ kind = "select" /\ k = 1
  \/ /\ kind = "try_gather" /\ done[k].result = "exception"
     /\ \A j \in 1..(k - 1) : done[j].result # "exception"

Enough ==
  \/ \E k \in DOMAIN done : Decides(k)
  \/ kind # "select" /\ Len(done) = Count

Answer ==
  [i \in Branches |->
     IF \E k \in DOMAIN done :
          /\ done[k].branch = i
          /\ Decides(k) \/ \A j \in DOMAIN done : ~Decides(j)
     THEN (CHOOSE c \in {done[k] : k \in DOMAIN done} : c.branch = i).result
     ELSE "none"]

Init ==
  /\ kind \in Kinds
  /\ done = <<>>
  /\ caller = "waiting"
  /\ delivered = Nothing

Complete(i, r) ==
  /\ caller = "waiting" /\ ~IsDone(i)
  /\ done' = Append(done, [branch |-> i, result |-> r])
  /\ UNCHANGED <<kind, caller, delivered>>

Return ==
  /\ caller = "waiting" /\ Enough
  /\ caller' = "returned" /\ delivered' = Answer
  /\ UNCHANGED <<kind, done>>

GiveUp ==
  /\ caller = "waiting" /\ caller' = "gone"
  /\ UNCHANGED <<kind, done, delivered>>

Next ==
  \/ \E i \in Branches, r \in Results : Complete(i, r)
  \/ Return
  \/ GiveUp

Spec == Init /\ [][Next]_vars
=============================================================================
