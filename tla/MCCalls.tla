------------------------------- MODULE MCCalls -------------------------------
(***************************************************************************)
(* Small instances of Calls for TLC: an entry coroutine, two branches and  *)
(* two more, each called at most once, in whatever shape.                  *)
(***************************************************************************)
EXTENDS Calls, TLC
CONSTANTS t, b1, b2, l, g, y

\* A Lazy and a Generator, or a Generator and an AnyAwaitable that takes it.
Shape(isLazy, isAny) == [c \in Coroutines |->
  CASE c = t -> "entry" [] c \in {b1, b2} -> "branch" [] c = g -> "generator"
    [] c = l -> (IF isLazy THEN "lazy" ELSE "none")
    [] c = y -> (IF isAny THEN "any" ELSE "none")]

MCKinds == {Shape(TRUE, FALSE), Shape(FALSE, TRUE)}

BranchSymmetry == Permutations({b1, b2})
=============================================================================
