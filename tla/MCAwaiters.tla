----------------------------- MODULE MCAwaiters -----------------------------
(***************************************************************************)
(* Small instances of Awaiters for TLC: one coroutine per kind of awaiter, *)
(* and one whose operation, like asio::post, heeds no cancellation.        *)
(***************************************************************************)
EXTENDS Awaiters, TLC
CONSTANTS y, s, o, p

MCKind == [c \in Coroutines |->
  CASE c = y -> "yield" [] c = s -> "sleep" [] OTHER -> "operation"]
=============================================================================
