------------------------------- MODULE MCTask -------------------------------
(***************************************************************************)
(* Small instances of Task for TLC: two or three executors and two awaits, *)
(* one from a coroutine on the task's own executor and one from elsewhere. *)
(***************************************************************************)
EXTENDS Task, TLC
CONSTANTS e1, e2, e3, a1, a2

MCAwaitOn == a1 :> e1 @@ a2 :> e2
=============================================================================
