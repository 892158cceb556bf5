------------------------------ MODULE MCRuntime ------------------------------
(***************************************************************************)
(* Small instances of Runtime for TLC: two workers of the pool that run    *)
(* makes and one of another runtime.                                       *)
(***************************************************************************)
EXTENDS Runtime, TLC
CONSTANTS r, a, b, w1, w2, w3, p

P(multi, some, features, goals) ==
  [multi_thread |-> multi, tasks |-> some, uses |-> features, places |-> goals]

\* A strand of the program over either pool, and the pool itself, which is
\* serial and what this_coro::executor gives a task where it has one thread.
Elsewhere == OfStrand(Strand(Pool, p))
OnAbroad == OfStrand(Strand(Abroad, p))
Home == Plain(Pool)
MCPlaces == {Elsewhere, OnAbroad, Home}

\* Programs that between them use every feature but two tasks that share
\* each other's Tasks.
OnOneThread ==
  P(FALSE, {r, a}, {"same_executor", "abort", "detach", "block_on"}, {Elsewhere})
OnTheMove == P(TRUE, {r, a}, {"detach"}, {Elsewhere})
Emigrants == P(FALSE, {r, a}, {"abort"}, {OnAbroad, Home})
Background ==
  P(TRUE, {r, a}, {"background", "same_executor", "abort", "block_on"}, {})
Nested == P(TRUE, {r, a, b}, {}, {})

\* A task nobody owns goes to another executor.
RoamingBackground == {P(TRUE, {r, a}, {"background"}, {Elsewhere})}

MCPrograms == {OnOneThread, OnTheMove, Emigrants, Background, Nested}
=============================================================================
