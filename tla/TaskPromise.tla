---------------------------- MODULE TaskPromise ----------------------------
(***************************************************************************)
(* What a corio::Task promises to the coroutines that await it, with no    *)
(* executor, queue or lock in sight.  A task settles once; it settles as   *)
(* cancelled only if an abort was accepted; whoever awaits it hears the    *)
(* settled outcome and nothing else, never before it is settled and never  *)
(* after giving up; and the stored result is handed out once, because      *)
(* await_resume and get_result move it out of the shared state.            *)
(***************************************************************************)
CONSTANT Awaiters   \* the co_await expressions applied to the task

VARIABLES
  outcome,  \* "pending", or what the task settled as
  asked,    \* has an abort been accepted?
  spent,    \* has the stored result been moved out?
  told      \* what each await has come to

vars == <<outcome, asked, spent, told>>

Results == {"value", "exception"}

Init ==
  /\ outcome = "pending"
  /\ asked = FALSE
  /\ spent = FALSE
  /\ told = [a \in Awaiters |-> "idle"]

Ask ==
  /\ outcome = "pending"
  /\ asked' = TRUE
  /\ UNCHANGED <<outcome, spent, told>>

Settle ==
  /\ outcome = "pending"
  /\ \/ outcome' \in Results
     \/ asked /\ outcome' = "cancelled"
  /\ UNCHANGED <<asked, spent, told>>

Await(a) ==
  /\ outcome = "pending"
  /\ told[a] = "idle"
  /\ told' = [told EXCEPT ![a] = "waiting"]
  /\ UNCHANGED <<outcome, asked, spent>>

Tell(a) ==
  /\ outcome # "pending"
  /\ told[a] \in {"idle", "waiting"}
  /\ told' = [told EXCEPT ![a] = IF spent THEN "moved" ELSE outcome]
  /\ spent' = (outcome \in Results)
  /\ UNCHANGED <<outcome, asked>>

GiveUp(a) ==
  /\ told[a] = "waiting"
  /\ told' = [told EXCEPT ![a] = "dropped"]
  /\ UNCHANGED <<outcome, asked, spent>>

Take ==
  /\ outcome \in Results
  /\ spent' = TRUE
  /\ UNCHANGED <<outcome, asked, told>>

Next ==
  \/ Ask
  \/ Settle
  \/ Take
  \/ \E a \in Awaiters : Await(a) \/ Tell(a) \/ GiveUp(a)

Spec == Init /\ [][Next]_vars

(***************************************************************************)
(* Once the task has settled, a coroutine still waiting for it is told.    *)
(***************************************************************************)
FairSpec == Spec /\ \A a \in Awaiters : WF_vars(told[a] = "waiting" /\ Tell(a))
=============================================================================
