----------------------------- MODULE CallsProofs -----------------------------
(***************************************************************************)
(* Proofs about Calls for any number of coroutines of any kinds, nested    *)
(* and awaited to any depth, in programs whose branches await what they    *)
(* own.                                                                    *)
(***************************************************************************)
EXTENDS Calls, TLAPS

Awaitables == Lazies \cup Generators \cup Anys

\* Coroutines that have begun and not stopped at a co_yield or at their end.
Active == {"running", "waiting", "suspended", "collecting"}

\* The objects form a forest: no frame is, at any depth, in itself.
Forest ==
  \A S \in (SUBSET Coroutines) \ {{}} : \E c \in S : holder[c] \notin S

TreeInv ==
  /\ Forest
  /\ \A c \in Coroutines :
       /\ frame[c] = "uncreated" \/ c \in Entries => holder[c] = None
       /\ holder[c] # None => frame[holder[c]] # "uncreated"
       /\ holder[c] \in Anys => c \in Lazies \cup Generators
       /\ Alive(c) /\ c \notin Entries =>
            holder[c] \in Coroutines /\ Alive(holder[c])

\* What each kind of coroutine may be doing.
KindInv ==
  \A c \in Coroutines :
    /\ c \in Entries => frame[c] \in Active \cup {"initial", "destroyed"}
    /\ c \in Branches => frame[c] \in Active \cup {"initial", "final"} \cup Gone
    /\ c \in Lazies =>
         /\ frame[c] \in Active \cup {"initial", "final"} \cup Gone
         /\ frame[c] = "final" => value[c] # "none"
    /\ c \in Generators =>
         frame[c] \in Active \cup {"initial", "yielded", "final"} \cup Gone
    /\ c \in Anys => frame[c] \in {"empty", "running", "waiting"} \cup Gone
    /\ kind[c] = "none" => frame[c] = "uncreated"

\* An active coroutine has a caller that waits for it, or collects it, and a
\* waiting one has an active callee; a caller is where the object is.
ChainInv ==
  \A c \in Coroutines :
    /\ c \in Awaitables /\ frame[c] \in Active =>
         /\ callerHandle[c] = holder[c] /\ holder[c] \in Coroutines
         /\ frame[holder[c]] = "waiting" /\ callee[holder[c]] = c
    /\ c \in Branches /\ frame[c] \in Active =>
         holder[c] \in Coroutines /\ frame[holder[c]] = "collecting"
    /\ c \notin Awaitables => callerHandle[c] = None
    /\ frame[c] = "waiting" =>
         /\ callee[c] \in Awaitables /\ frame[callee[c]] \in Active
         /\ holder[callee[c]] = c

\* What a Generator has answered, and what it has said at its end.
GeneratorInv ==
  \A g \in Generators :
    /\ g \in finished => value[g] = "none"
    /\ g \in finished \/ value[g] = "exception" => frame[g] \in {"final", "destroyed"}
    /\ frame[g] = "final" => g \in finished \/ value[g] = "exception"
    /\ reported[g] = yields[g] + (IF value[g] = "exception" THEN 1 ELSE 0)

Inv ==
  /\ TypeOK /\ TreeInv /\ KindInv
  /\ fault \in {"none", "resumed_done"} /\ (fault = "none" \/ AwaitThrown)
  /\ fault = "none" => ChainInv /\ GeneratorInv

Frames == {"uncreated", "initial", "running", "waiting", "suspended", "collecting",
           "yielded", "final", "empty", "destroyed"}

-----------------------------------------------------------------------------
\* Every coroutine has one kind, and keeps it.
LEMMA KindFacts ==
  ASSUME TypeOK
  PROVE  /\ \A c \in Coroutines :
              c \in Entries \cup Branches \cup Awaitables \/ kind[c] = "none"
         /\ Entries \cap Branches = {} /\ Entries \cap Awaitables = {}
         /\ Branches \cap Awaitables = {} /\ Lazies \cap Generators = {}
         /\ Lazies \cap Anys = {} /\ Generators \cap Anys = {}
<1>1. \A c \in Coroutines : kind[c] \in Kind
  BY CallsAssumption DEF TypeOK
<1> QED
  BY <1>1 DEF Kind, Entries, Branches, Awaitables, Lazies, Generators, Anys

LEMMA SameKinds ==
  ASSUME kind' = kind
  PROVE  /\ Entries' = Entries /\ Branches' = Branches /\ Lazies' = Lazies
         /\ Generators' = Generators /\ Anys' = Anys /\ Awaitables' = Awaitables
BY DEF Entries, Branches, Lazies, Generators, Anys, Awaitables

\* A set of coroutines that has with each those that its frame holds.
Closed(W) == \A c \in Coroutines : holder[c] \in W => c \in W

\* Within(S) is the least closed set around S.
LEMMA WithinFacts ==
  ASSUME NEW S \in SUBSET Coroutines
  PROVE  /\ Within(S) \subseteq Coroutines /\ S \subseteq Within(S)
         /\ Closed(Within(S))
         /\ \A T \in SUBSET Coroutines :
              S \subseteq T /\ Closed(T) => Within(S) \subseteq T
         /\ \A c \in Within(S) \ S : holder[c] \in Within(S)
<1>1. \A c : c \in Within(S) <=>
        /\ c \in Coroutines
        /\ \A T \in SUBSET Coroutines : S \subseteq T /\ Closed(T) => c \in T
  BY DEF Within, Closed
<1>2. Within(S) \subseteq Coroutines /\ S \subseteq Within(S)
  BY <1>1
<1>3. Closed(Within(S))
  BY <1>1 DEF Closed
<1>4. ASSUME NEW c \in Within(S) \ S, holder[c] \notin Within(S) PROVE FALSE
  <2> DEFINE T == Within(S) \ {c}
  <2>1. T \in SUBSET Coroutines /\ S \subseteq T
    BY <1>2
  <2>2. Closed(T)
    BY <1>3, <1>4 DEF Closed
  <2>3. c \in T
    BY <1>1, <2>1, <2>2
  <2> QED  BY <2>3
<1> QED
  BY <1>1, <1>2, <1>3, <1>4

\* No frame is destroyed with the objects in it.
LEMMA AboveFact ==
  ASSUME Forest, NEW c \in Coroutines, NEW S \in SUBSET Held(c)
  PROVE  c \notin Within(S)
<1>1. S \in SUBSET Coroutines /\ \A d \in S : holder[d] = c
  BY DEF Held
<1> SUFFICES ASSUME c \in Within(S) PROVE FALSE
  OBVIOUS
<1>2. Within(S) \in (SUBSET Coroutines) \ {{}}
  BY <1>1, WithinFacts
<1>3. \A d \in Within(S) : holder[d] \in Within(S)
  BY <1>1, WithinFacts
<1> QED
  BY <1>2, <1>3 DEF Forest

\* Objects are only in frames that were made.
LEMMA CreatedBelow ==
  ASSUME TreeInv, NEW S \in SUBSET Coroutines,
         \A c \in S : frame[c] # "uncreated"
  PROVE  \A c \in Within(S) : frame[c] # "uncreated"
<1>1. \A c \in Within(S) \ S : c \in Coroutines /\ holder[c] \in Coroutines
  BY WithinFacts
<1>2. None \notin Coroutines
  BY CallsAssumption
<1> QED
  BY <1>1, <1>2 DEF TreeInv

\* What an inactive coroutine holds is inactive.
LEMMA InactiveBelow ==
  ASSUME TypeOK, TreeInv, KindInv, ChainInv, NEW S \in SUBSET Coroutines,
         \A c \in S : frame[c] \notin Active
  PROVE  \A c \in Within(S) : frame[c] \notin Active
<1> DEFINE T == {c \in Coroutines : frame[c] \notin Active}
<1>1. ASSUME NEW c \in Coroutines, frame[c] \in Active, holder[c] \in T PROVE FALSE
  <2>1. holder[c] \in Coroutines /\ frame[holder[c]] \notin Active
    BY <1>1
  <2>2. c \notin Entries
    BY <2>1, CallsAssumption DEF TreeInv
  <2>3. kind[c] # "none"
    BY <1>1 DEF KindInv, Active
  <2>4. c \in Branches \cup Awaitables
    BY <2>2, <2>3, KindFacts
  <2> QED  BY <1>1, <2>1, <2>4 DEF ChainInv, Active
<1>2. Closed(T)
  BY <1>1 DEF Closed
<1>3. Within(S) \subseteq T
  BY <1>2, WithinFacts
<1> QED
  BY <1>3

\* Nothing a running coroutine holds is active.
LEMMA HeldInactive ==
  ASSUME TypeOK, TreeInv, KindInv, ChainInv, NEW c \in Coroutines,
         frame[c] \notin {"waiting", "collecting"}
  PROVE  \A d \in Held(c) : frame[d] \notin Active
<1> SUFFICES ASSUME NEW d \in Coroutines, holder[d] = c, frame[d] \in Active
             PROVE  FALSE
  BY DEF Held
<1>1. d \notin Entries
  BY CallsAssumption DEF TreeInv
<1>2. kind[d] # "none"
  BY DEF KindInv, Active
<1>3. d \in Branches \cup Awaitables
  BY <1>1, <1>2, KindFacts
<1> QED
  BY <1>3 DEF ChainInv

-----------------------------------------------------------------------------
\* Frames are destroyed with all they hold: the others are where they were.
LEMMA TreeStep ==
  ASSUME TypeOK, TreeInv, UNCHANGED <<kind, holder>>, NEW W \in SUBSET Coroutines,
         Closed(W),
         \A c \in Coroutines :
           IF c \in W THEN frame'[c] = "destroyed"
           ELSE /\ frame[c] \in Gone => frame'[c] = frame[c]
                /\ frame'[c] \in Gone => frame[c] = frame'[c]
  PROVE  TreeInv'
<1>1. /\ Forest' /\ Entries' = Entries /\ Anys' = Anys /\ Lazies' = Lazies
      /\ Generators' = Generators
  BY SameKinds DEF TreeInv, Forest
<1>2. ASSUME NEW c \in Coroutines
      PROVE  /\ frame'[c] = "uncreated" \/ c \in Entries => holder[c] = None
             /\ holder[c] # None => frame'[holder[c]] # "uncreated"
             /\ frame'[c] \notin Gone /\ c \notin Entries =>
                  holder[c] \in Coroutines /\ frame'[holder[c]] \notin Gone
  <2>1. holder[c] \in Coroutines \cup {None}
    BY DEF TypeOK
  <2>2. frame'[c] = "uncreated" \/ c \in Entries => holder[c] = None
    BY DEF TreeInv, Gone
  <2>3. holder[c] # None => frame'[holder[c]] # "uncreated"
    BY <2>1 DEF TreeInv, Gone
  <2>4. ASSUME frame'[c] \notin Gone, c \notin Entries
        PROVE  holder[c] \in Coroutines /\ frame'[holder[c]] \notin Gone
    <3>1. c \notin W /\ frame[c] \notin Gone
      BY <2>4 DEF Gone
    <3>2. holder[c] \in Coroutines \ W /\ frame[holder[c]] \notin Gone
      BY <2>4, <3>1 DEF TreeInv, Alive, Closed
    <3> QED  BY <3>2
  <2> QED  BY <2>2, <2>3, <2>4
<1> QED
  BY <1>1, <1>2 DEF TreeInv, Alive

\* What a step without a fault has to keep.
LEMMA Calm ==
  ASSUME TypeOK', TreeInv', KindInv', ChainInv', GeneratorInv', fault' = "none"
  PROVE  Inv'
BY DEF Inv

\* Frames W are destroyed, and with an active one its caller; it may be that
\* a collecting coroutine goes on, all of whose branches are in W, and that a
\* branch ends.
LEMMA KillStep ==
  ASSUME Inv, fault = "none", NEW W \in SUBSET Coroutines, Closed(W),
         \A c \in W : frame[c] # "uncreated",
         \A c \in W : c \in Awaitables /\ frame[c] \in Active => holder[c] \in W,
         UNCHANGED <<kind, holder, callerHandle, finished, yields, reported, fault>>,
         frame' \in [Coroutines -> Frames],
         \A c \in Coroutines :
           IF c \in W THEN frame'[c] = "destroyed"
           ELSE \/ frame'[c] = frame[c]
                \/ /\ frame[c] = "collecting" /\ frame'[c] = "running"
                   /\ \A b \in Branches : holder[b] = c => b \in W
                \/ c \in Branches /\ frame[c] = "running" /\ frame'[c] = "final",
         callee' \in [Coroutines -> Coroutines \cup {None}],
         \A c \in Coroutines : callee'[c] = callee[c] \/ frame[c] = "running",
         value' \in [Coroutines -> {"none", "value", "moved", "exception"}],
         \A c \in Coroutines : value'[c] = value[c] \/ c \in Branches
  PROVE  Inv'
<1>1. /\ TypeOK /\ TreeInv /\ KindInv /\ ChainInv /\ GeneratorInv
      /\ Entries' = Entries /\ Branches' = Branches /\ Lazies' = Lazies
      /\ Generators' = Generators /\ Anys' = Anys /\ Awaitables' = Awaitables
  BY SameKinds DEF Inv
<1>2. TypeOK'
  BY <1>1 DEF TypeOK, Frames
<1>3. TreeInv'
  <2>1. \A c \in Coroutines :
           IF c \in W THEN frame'[c] = "destroyed"
           ELSE /\ frame[c] \in Gone => frame'[c] = frame[c]
                /\ frame'[c] \in Gone => frame[c] = frame'[c]
    BY DEF Gone
  <2> QED  BY <1>1, <2>1, TreeStep
<1>4. KindInv'
  <2> SUFFICES ASSUME NEW c \in Coroutines
      PROVE  /\ c \in Entries => frame'[c] \in Active \cup {"initial", "destroyed"}
             /\ c \in Branches => frame'[c] \in Active \cup {"initial", "final"} \cup Gone
             /\ c \in Lazies =>
                  /\ frame'[c] \in Active \cup {"initial", "final"} \cup Gone
                  /\ frame'[c] = "final" => value'[c] # "none"
             /\ c \in Generators =>
                  frame'[c] \in Active \cup {"initial", "yielded", "final"} \cup Gone
             /\ c \in Anys => frame'[c] \in {"empty", "running", "waiting"} \cup Gone
             /\ kind[c] = "none" => frame'[c] = "uncreated"
    BY <1>1 DEF KindInv
  <2>1. CASE c \in W
    BY <1>1, <2>1 DEF KindInv, Gone
  <2>2. CASE c \notin W /\ frame'[c] = frame[c] /\ c \notin Branches
    BY <1>1, <2>2 DEF KindInv
  <2>3. CASE c \notin W /\ frame'[c] = frame[c] /\ c \in Branches
    BY <1>1, <2>3, KindFacts DEF KindInv, Branches, Awaitables
  <2>4. CASE c \notin W /\ frame[c] = "collecting" /\ frame'[c] = "running"
    BY <1>1, <2>4 DEF KindInv, Active, Gone
  <2>5. CASE c \notin W /\ c \in Branches /\ frame[c] = "running" /\ frame'[c] = "final"
    BY <1>1, <2>5, KindFacts DEF KindInv, Branches, Awaitables
  <2> QED  BY <2>1, <2>2, <2>3, <2>4, <2>5
<1>5. ChainInv'
  <2> SUFFICES ASSUME NEW c \in Coroutines
      PROVE  /\ c \in Awaitables /\ frame'[c] \in Active =>
                  /\ callerHandle[c] = holder[c] /\ holder[c] \in Coroutines
                  /\ frame'[holder[c]] = "waiting" /\ callee'[holder[c]] = c
             /\ c \in Branches /\ frame'[c] \in Active =>
                  holder[c] \in Coroutines /\ frame'[holder[c]] = "collecting"
             /\ c \notin Awaitables => callerHandle[c] = None
             /\ frame'[c] = "waiting" =>
                  /\ callee'[c] \in Awaitables /\ frame'[callee'[c]] \in Active
                  /\ holder[callee'[c]] = c
    BY <1>1 DEF ChainInv
  <2>1. ASSUME frame'[c] \in Active
        PROVE  /\ c \notin W /\ frame[c] \in Active
               /\ holder[c] \in Coroutines => holder[c] \notin W
    BY <2>1 DEF Active, Closed
  <2>2. ASSUME c \in Awaitables, frame'[c] \in Active
        PROVE  /\ callerHandle[c] = holder[c] /\ holder[c] \in Coroutines
               /\ frame'[holder[c]] = "waiting" /\ callee'[holder[c]] = c
    <3>1. /\ callerHandle[c] = holder[c] /\ holder[c] \in Coroutines
          /\ frame[holder[c]] = "waiting" /\ callee[holder[c]] = c
      BY <1>1, <2>1, <2>2 DEF ChainInv
    <3> QED  BY <2>1, <2>2, <3>1
  <2>3. ASSUME c \in Branches, frame'[c] \in Active
        PROVE  holder[c] \in Coroutines /\ frame'[holder[c]] = "collecting"
    <3>1. holder[c] \in Coroutines /\ frame[holder[c]] = "collecting"
      BY <1>1, <2>1, <2>3 DEF ChainInv
    <3> QED  BY <2>1, <2>3, <3>1
  <2>4. ASSUME frame'[c] = "waiting"
        PROVE  /\ callee'[c] \in Awaitables /\ frame'[callee'[c]] \in Active
               /\ holder[callee'[c]] = c
    <3>1. c \notin W /\ frame[c] = "waiting" /\ callee'[c] = callee[c]
      BY <2>4
    <3>2. /\ callee[c] \in Awaitables /\ frame[callee[c]] \in Active
          /\ holder[callee[c]] = c /\ callee[c] \in Coroutines
      BY <1>1, <3>1 DEF ChainInv, Awaitables, Lazies, Generators, Anys
    <3>3. callee[c] \notin W /\ callee[c] \notin Branches
      BY <1>1, <3>1, <3>2, KindFacts
    <3> QED  BY <3>1, <3>2, <3>3 DEF Active
  <2> QED  BY <1>1, <2>2, <2>3, <2>4 DEF ChainInv
<1>6. GeneratorInv'
  <2> SUFFICES ASSUME NEW g \in Generators
      PROVE  /\ g \in finished => value'[g] = "none"
             /\ g \in finished \/ value'[g] = "exception"
                  => frame'[g] \in {"final", "destroyed"}
             /\ frame'[g] = "final" => g \in finished \/ value'[g] = "exception"
             /\ reported[g] = yields[g] + (IF value'[g] = "exception" THEN 1 ELSE 0)
    BY <1>1 DEF GeneratorInv
  <2>1. g \in Coroutines /\ g \notin Branches /\ value'[g] = value[g]
    BY <1>1, KindFacts DEF Generators, Awaitables
  <2> QED  BY <1>1, <2>1 DEF GeneratorInv
<1> QED
  BY <1>2, <1>3, <1>4, <1>5, <1>6, Calm

\* A coroutine begins or stops by itself.
LEMMA LocalStep ==
  ASSUME Inv, fault = "none", NEW c \in Coroutines,
         NEW s \in {"running", "suspended", "collecting"},
         frame' = [frame EXCEPT ![c] = s], c \notin Anys,
         \/ frame[c] \in {"running", "suspended"}
         \/ frame[c] = "initial" /\ c \in Entries
         \/ frame[c] = "initial" /\ c \in ToLaunch,
         UNCHANGED <<kind, holder, callee, promise, yields, reported, fault>>
  PROVE  Inv'
<1>1. /\ TypeOK /\ TreeInv /\ KindInv /\ ChainInv /\ GeneratorInv
      /\ Entries' = Entries /\ Branches' = Branches /\ Lazies' = Lazies
      /\ Generators' = Generators /\ Anys' = Anys /\ Awaitables' = Awaitables
      /\ UNCHANGED <<callerHandle, value, finished>>
  BY SameKinds DEF Inv, promise
<1>2. /\ frame' \in [Coroutines -> Frames] /\ frame'[c] = s
      /\ \A x \in Coroutines \ {c} : frame'[x] = frame[x]
      /\ s \in Active /\ s # "waiting" /\ frame[c] # "waiting"
      /\ frame[c] # "collecting"
  BY <1>1 DEF TypeOK, Frames, Active
<1>3. TypeOK'
  BY <1>1, <1>2 DEF TypeOK, Frames
<1>4. TreeInv'
  <2>1. frame[c] \notin Gone /\ frame'[c] \notin Gone
    BY <1>2 DEF Gone
  <2>2. Closed({})
    BY DEF Closed
  <2> QED  BY <1>1, <1>2, <2>1, <2>2, TreeStep
<1>5. c \in Awaitables => frame[c] \in Active
  BY <1>1, KindFacts DEF Active, ToLaunch
<1>6. KindInv'
  <2>1. kind[c] # "none"
    BY <1>1 DEF KindInv
  <2> QED  BY <1>1, <1>2, <2>1 DEF KindInv, Active
<1>7. ChainInv'
  <2> SUFFICES ASSUME NEW x \in Coroutines
      PROVE  /\ x \in Awaitables /\ frame'[x] \in Active =>
                  /\ callerHandle[x] = holder[x] /\ holder[x] \in Coroutines
                  /\ frame'[holder[x]] = "waiting" /\ callee[holder[x]] = x
             /\ x \in Branches /\ frame'[x] \in Active =>
                  holder[x] \in Coroutines /\ frame'[holder[x]] = "collecting"
             /\ x \notin Awaitables => callerHandle[x] = None
             /\ frame'[x] = "waiting" =>
                  /\ callee[x] \in Awaitables /\ frame'[callee[x]] \in Active
                  /\ holder[callee[x]] = x
    BY <1>1 DEF ChainInv
  <2>1. ASSUME x \in Awaitables, frame'[x] \in Active
        PROVE  /\ callerHandle[x] = holder[x] /\ holder[x] \in Coroutines
               /\ frame'[holder[x]] = "waiting" /\ callee[holder[x]] = x
    <3>1. frame[x] \in Active
      BY <1>2, <1>5, <2>1
    <3> QED  BY <1>1, <1>2, <2>1, <3>1 DEF ChainInv
  <2>2. ASSUME x \in Branches, frame'[x] \in Active
        PROVE  holder[x] \in Coroutines /\ frame'[holder[x]] = "collecting"
    <3>1. CASE frame[x] \in Active
      BY <1>1, <1>2, <2>2, <3>1 DEF ChainInv
    <3>2. CASE frame[x] \notin Active
      <4>1. x = c /\ frame[c] = "initial"
        BY <1>2, <2>2, <3>2 DEF Active
      <4>2. c \in ToLaunch
        BY <1>1, <2>2, <4>1, KindFacts
      <4>3. frame[holder[c]] = "collecting" /\ frame[c] \notin Gone /\ c \notin Entries
        BY <1>1, <4>1, <4>2, KindFacts DEF ToLaunch, Gone
      <4>4. holder[c] \in Coroutines
        BY <1>1, <4>3 DEF TreeInv, Alive
      <4> QED  BY <1>2, <4>1, <4>3, <4>4
    <3> QED  BY <3>1, <3>2
  <2>3. ASSUME frame'[x] = "waiting"
        PROVE  /\ callee[x] \in Awaitables /\ frame'[callee[x]] \in Active
               /\ holder[callee[x]] = x
    <3>1. frame[x] = "waiting"
      BY <1>2, <2>3
    <3>2. /\ callee[x] \in Awaitables /\ frame[callee[x]] \in Active
          /\ holder[callee[x]] = x /\ callee[x] \in Coroutines
      BY <1>1, <3>1 DEF ChainInv, Awaitables, Lazies, Generators, Anys
    <3> QED  BY <1>2, <3>2
  <2> QED  BY <1>1, <2>1, <2>2, <2>3 DEF ChainInv
<1>8. GeneratorInv'
  <2>1. \A g \in Generators : g \in Coroutines /\ g \in Awaitables
    BY DEF Generators, Awaitables
  <2>2. c \in Generators => frame[c] \in Active /\ frame'[c] \in Active
    BY <1>2, <1>5, <2>1
  <2> QED  BY <1>1, <1>2, <2>1, <2>2 DEF GeneratorInv, Active
<1> QED
  BY <1>3, <1>4, <1>6, <1>7, <1>8, Calm

\* current().
LEMMA CurrentStep ==
  ASSUME Inv, fault = "none", kind' = kind,
         NEW c \in Coroutines, NEW g \in Coroutines, Current(c, g)
  PROVE  Inv'
<1>1. /\ TypeOK /\ TreeInv /\ KindInv /\ ChainInv /\ GeneratorInv
      /\ Entries' = Entries /\ Branches' = Branches /\ Lazies' = Lazies
      /\ Generators' = Generators /\ Anys' = Anys /\ Awaitables' = Awaitables
      /\ UNCHANGED <<frame, holder, callee, callerHandle, finished, yields, reported,
                     fault>>
      /\ g \in Generators /\ value[g] = "value"
      /\ value' = [value EXCEPT ![g] = "moved"]
  BY SameKinds DEF Inv, Current
<1>2. /\ value' \in [Coroutines -> {"none", "value", "moved", "exception"}]
      /\ value'[g] = "moved" /\ \A x \in Coroutines \ {g} : value'[x] = value[x]
  BY <1>1 DEF TypeOK
<1>3. TypeOK' /\ TreeInv' /\ ChainInv'
  BY <1>1, <1>2 DEF TypeOK, TreeInv, Forest, Alive, ChainInv
<1>4. KindInv'
  BY <1>1, <1>2, KindFacts DEF KindInv
<1>5. GeneratorInv'
  BY <1>1, <1>2 DEF GeneratorInv, Generators
<1> QED
  BY <1>1, <1>3, <1>4, <1>5, Calm

\* An awaited coroutine stops, and is destroyed with what it holds (W) or
\* left in the state s: its caller goes on.
LEMMA UpStep ==
  ASSUME Inv, fault = "none", NEW d \in Awaitables, frame[d] = "running",
         NEW c \in Coroutines, c = callerHandle[d],
         NEW W \in SUBSET Coroutines, Closed(W), c \notin W,
         \A x \in W : frame[x] # "uncreated" /\ (x = d \/ frame[x] \notin Active),
         frame' \in [Coroutines -> Frames],
         \A x \in Coroutines \ {d} :
           frame'[x] = IF x \in W THEN "destroyed" ELSE IF x = c THEN "running" ELSE frame[x],
         IF d \in W THEN frame'[d] = "destroyed"
         ELSE \/ d \in Generators /\ frame'[d] \in {"yielded", "final"}
              \/ d \in Anys /\ frame'[d] = "empty",
         callee' = [callee EXCEPT ![c] = None],
         value' \in [Coroutines -> {"none", "value", "moved", "exception"}],
         \A x \in Coroutines \ {d} : value'[x] = value[x],
         UNCHANGED <<kind, holder, callerHandle>>
  PROVE  TreeInv' /\ KindInv' /\ ChainInv'
<1>1. /\ TypeOK /\ TreeInv /\ KindInv /\ ChainInv /\ d \in Coroutines
      /\ Entries' = Entries /\ Branches' = Branches /\ Lazies' = Lazies
      /\ Generators' = Generators /\ Anys' = Anys /\ Awaitables' = Awaitables
  BY SameKinds DEF Inv, Awaitables, Lazies, Generators, Anys
<1>2. /\ holder[d] = c /\ frame[c] = "waiting" /\ callee[c] = d /\ c # d
      /\ callee'[c] = None /\ \A x \in Coroutines \ {c} : callee'[x] = callee[x]
  BY <1>1 DEF ChainInv, Active, TypeOK
<1>3. /\ \A x \in Coroutines \ {c, d} :
           frame'[x] = IF x \in W THEN "destroyed" ELSE frame[x]
      /\ frame'[c] = "running"
      /\ frame'[d] \in {"destroyed", "yielded", "final", "empty"}
      /\ d \in W <=> frame'[d] = "destroyed"
  BY <1>1, <1>2
<1>4. TreeInv'
  <2>1. \A x \in Coroutines :
           IF x \in W THEN frame'[x] = "destroyed"
           ELSE /\ frame[x] \in Gone => frame'[x] = frame[x]
                /\ frame'[x] \in Gone => frame[x] = frame'[x]
    BY <1>2, <1>3 DEF Gone
  <2> QED  BY <1>1, <2>1, TreeStep
<1>5. KindInv'
  <2> SUFFICES ASSUME NEW x \in Coroutines
      PROVE  /\ x \in Entries => frame'[x] \in Active \cup {"initial", "destroyed"}
             /\ x \in Branches => frame'[x] \in Active \cup {"initial", "final"} \cup Gone
             /\ x \in Lazies =>
                  /\ frame'[x] \in Active \cup {"initial", "final"} \cup Gone
                  /\ frame'[x] = "final" => value'[x] # "none"
             /\ x \in Generators =>
                  frame'[x] \in Active \cup {"initial", "yielded", "final"} \cup Gone
             /\ x \in Anys => frame'[x] \in {"empty", "running", "waiting"} \cup Gone
             /\ kind[x] = "none" => frame'[x] = "uncreated"
    BY <1>1 DEF KindInv
  <2>1. CASE x = d
    <3>1. kind[d] # "none" /\ d \notin Entries /\ d \notin Branches
      BY <1>1, KindFacts DEF KindInv
    <3> QED  BY <1>1, <1>3, <2>1, <3>1, KindFacts DEF Gone
  <2>2. CASE x = c
    BY <1>1, <1>2, <1>3, <2>2 DEF KindInv, Active
  <2>3. CASE x \notin {c, d} /\ x \in W
    BY <1>1, <1>3, <2>3 DEF KindInv, Gone
  <2>4. CASE x \notin {c, d} /\ x \notin W
    BY <1>1, <1>3, <2>4 DEF KindInv
  <2> QED  BY <2>1, <2>2, <2>3, <2>4
<1>6. ChainInv'
  <2> SUFFICES ASSUME NEW x \in Coroutines
      PROVE  /\ x \in Awaitables /\ frame'[x] \in Active =>
                  /\ callerHandle[x] = holder[x] /\ holder[x] \in Coroutines
                  /\ frame'[holder[x]] = "waiting" /\ callee'[holder[x]] = x
             /\ x \in Branches /\ frame'[x] \in Active =>
                  holder[x] \in Coroutines /\ frame'[holder[x]] = "collecting"
             /\ x \notin Awaitables => callerHandle[x] = None
             /\ frame'[x] = "waiting" =>
                  /\ callee'[x] \in Awaitables /\ frame'[callee'[x]] \in Active
                  /\ holder[callee'[x]] = x
    BY <1>1 DEF ChainInv
  <2>0. frame'[x] \in Active => frame[x] \in Active /\ x # d /\ x \notin W
    BY <1>2, <1>3 DEF Active
  <2>1. ASSUME x \in Awaitables, frame'[x] \in Active
        PROVE  /\ callerHandle[x] = holder[x] /\ holder[x] \in Coroutines
               /\ frame'[holder[x]] = "waiting" /\ callee'[holder[x]] = x
    <3>1. /\ callerHandle[x] = holder[x] /\ holder[x] \in Coroutines
          /\ frame[holder[x]] = "waiting" /\ callee[holder[x]] = x
      BY <1>1, <2>0, <2>1 DEF ChainInv
    <3>2. holder[x] # c /\ holder[x] # d /\ holder[x] \notin W
      BY <1>2, <2>0, <2>1, <3>1 DEF Closed
    <3> QED  BY <1>2, <1>3, <3>1, <3>2
  <2>2. ASSUME x \in Branches, frame'[x] \in Active
        PROVE  holder[x] \in Coroutines /\ frame'[holder[x]] = "collecting"
    <3>1. holder[x] \in Coroutines /\ frame[holder[x]] = "collecting"
      BY <1>1, <2>0, <2>2 DEF ChainInv
    <3>2. holder[x] # c /\ holder[x] # d /\ holder[x] \notin W
      BY <1>2, <2>0, <2>2, <3>1 DEF Closed
    <3> QED  BY <1>3, <3>1, <3>2
  <2>3. ASSUME frame'[x] = "waiting"
        PROVE  /\ callee'[x] \in Awaitables /\ frame'[callee'[x]] \in Active
               /\ holder[callee'[x]] = x
    <3>1. x # c /\ x # d /\ frame[x] = "waiting" /\ callee'[x] = callee[x]
      BY <1>2, <1>3, <2>3
    <3>2. /\ callee[x] \in Awaitables /\ frame[callee[x]] \in Active
          /\ holder[callee[x]] = x /\ callee[x] \in Coroutines
      BY <1>1, <3>1 DEF ChainInv, Awaitables, Lazies, Generators, Anys
    <3>3. callee[x] # d /\ callee[x] \notin W
      BY <1>2, <3>1, <3>2
    <3> QED  BY <1>3, <3>1, <3>2, <3>3 DEF Active
  <2> QED  BY <1>1, <2>1, <2>2, <2>3 DEF ChainInv
<1> QED
  BY <1>4, <1>5, <1>6

\* The running coroutine c awaits one it holds, and through an AnyAwaitable
\* the one in that: D are those that begin, or go on.
LEMMA DownStep ==
  ASSUME Inv, fault = "none", NEW c \in Coroutines, frame[c] = "running",
         NEW D \in SUBSET Awaitables,
         \A d \in D :
           /\ frame[d] \notin Active \cup Gone /\ frame'[d] \in {"running", "waiting"}
           /\ callerHandle'[d] = holder[d] /\ holder[d] \in D \cup {c}
           /\ frame'[holder[d]] = "waiting" /\ callee'[holder[d]] = d,
         frame'[c] = "waiting" /\ callerHandle'[c] = callerHandle[c],
         \A x \in D \cup {c} : frame'[x] = "waiting" =>
           callee'[x] \in D /\ holder[callee'[x]] = x,
         \A x \in Coroutines \ (D \cup {c}) :
           /\ frame'[x] = frame[x] /\ callee'[x] = callee[x]
           /\ callerHandle'[x] = callerHandle[x],
         frame' \in [Coroutines -> Frames],
         callee' \in [Coroutines -> Coroutines \cup {None}],
         callerHandle' \in [Coroutines -> Coroutines \cup {None}],
         UNCHANGED <<kind, holder, value, finished, yields, reported>>,
         \/ fault' = "none" /\ \A d \in D : frame[d] # "final"
         \/ fault' = "resumed_done" /\ AwaitThrown
  PROVE  Inv'
<1>1. /\ TypeOK /\ TreeInv /\ KindInv /\ ChainInv /\ GeneratorInv
      /\ Entries' = Entries /\ Branches' = Branches /\ Lazies' = Lazies
      /\ Generators' = Generators /\ Anys' = Anys /\ Awaitables' = Awaitables
      /\ D \subseteq Coroutines
  BY SameKinds DEF Inv, Awaitables, Lazies, Generators, Anys
<1>2. /\ c \notin D /\ frame[c] \in Active
      /\ \A x \in Coroutines \ D : frame'[x] \in Active <=> frame[x] \in Active
      /\ D \cap Entries = {} /\ D \cap Branches = {}
  BY <1>1, KindFacts DEF Active
<1>3. TypeOK'
  BY <1>1 DEF TypeOK, Frames
<1>4. TreeInv'
  <2>1. \A x \in Coroutines :
          /\ frame[x] \in Gone => frame'[x] = frame[x]
          /\ frame'[x] \in Gone => frame[x] = frame'[x]
    BY <1>2 DEF Gone
  <2>2. Closed({})
    BY DEF Closed
  <2> QED  BY <1>1, <2>1, <2>2, TreeStep
<1>5. KindInv'
  <2> SUFFICES ASSUME NEW x \in Coroutines
      PROVE  /\ x \in Entries => frame'[x] \in Active \cup {"initial", "destroyed"}
             /\ x \in Branches => frame'[x] \in Active \cup {"initial", "final"} \cup Gone
             /\ x \in Lazies =>
                  /\ frame'[x] \in Active \cup {"initial", "final"} \cup Gone
                  /\ frame'[x] = "final" => value[x] # "none"
             /\ x \in Generators =>
                  frame'[x] \in Active \cup {"initial", "yielded", "final"} \cup Gone
             /\ x \in Anys => frame'[x] \in {"empty", "running", "waiting"} \cup Gone
             /\ kind[x] = "none" => frame'[x] = "uncreated"
    BY <1>1 DEF KindInv
  <2>1. CASE x \in D \cup {c}
    <3>1. kind[x] # "none"
      BY <1>1, <2>1 DEF KindInv, Gone
    <3> QED  BY <2>1, <3>1 DEF Active
  <2>2. CASE x \notin D \cup {c}
    BY <1>1, <2>2 DEF KindInv
  <2> QED  BY <2>1, <2>2
<1>6. ChainInv'
  <2> SUFFICES ASSUME NEW x \in Coroutines
      PROVE  /\ x \in Awaitables /\ frame'[x] \in Active =>
                  /\ callerHandle'[x] = holder[x] /\ holder[x] \in Coroutines
                  /\ frame'[holder[x]] = "waiting" /\ callee'[holder[x]] = x
             /\ x \in Branches /\ frame'[x] \in Active =>
                  holder[x] \in Coroutines /\ frame'[holder[x]] = "collecting"
             /\ x \notin Awaitables => callerHandle'[x] = None
             /\ frame'[x] = "waiting" =>
                  /\ callee'[x] \in Awaitables /\ frame'[callee'[x]] \in Active
                  /\ holder[callee'[x]] = x
    BY <1>1 DEF ChainInv
  <2>1. ASSUME x \in Awaitables, frame'[x] \in Active
        PROVE  /\ callerHandle'[x] = holder[x] /\ holder[x] \in Coroutines
               /\ frame'[holder[x]] = "waiting" /\ callee'[holder[x]] = x
    <3>1. CASE x \in D
      BY <1>1, <3>1
    <3>2. CASE x \notin D
      <4>1. /\ callerHandle[x] = holder[x] /\ holder[x] \in Coroutines
            /\ frame[holder[x]] = "waiting" /\ callee[holder[x]] = x
        BY <1>1, <1>2, <2>1, <3>2 DEF ChainInv
      <4>2. holder[x] \notin D \cup {c}
        BY <4>1 DEF Active
      <4> QED  BY <3>2, <4>1, <4>2
    <3> QED  BY <3>1, <3>2
  <2>2. ASSUME x \in Branches, frame'[x] \in Active
        PROVE  holder[x] \in Coroutines /\ frame'[holder[x]] = "collecting"
    <3>1. holder[x] \in Coroutines /\ frame[holder[x]] = "collecting"
      BY <1>1, <1>2, <2>2 DEF ChainInv
    <3>2. holder[x] \notin D \cup {c}
      BY <3>1 DEF Active
    <3> QED  BY <3>1, <3>2
  <2>3. ASSUME frame'[x] = "waiting"
        PROVE  /\ callee'[x] \in Awaitables /\ frame'[callee'[x]] \in Active
               /\ holder[callee'[x]] = x
    <3>1. CASE x \in D \cup {c}
      BY <2>3, <3>1 DEF Active
    <3>2. CASE x \notin D \cup {c}
      <4>1. frame[x] = "waiting" /\ callee'[x] = callee[x]
        BY <2>3, <3>2
      <4>2. /\ callee[x] \in Awaitables /\ frame[callee[x]] \in Active
            /\ holder[callee[x]] = x /\ callee[x] \in Coroutines
        BY <1>1, <4>1 DEF ChainInv, Awaitables, Lazies, Generators, Anys
      <4>3. frame'[callee[x]] \in Active
        BY <1>2, <4>2
      <4> QED  BY <4>1, <4>2, <4>3
    <3> QED  BY <3>1, <3>2
  <2>4. x \notin Awaitables => callerHandle'[x] = None
    BY <1>1 DEF ChainInv
  <2> QED  BY <2>1, <2>2, <2>3, <2>4
<1>7. CASE fault' = "none"
  <2>1. \A d \in D : frame[d] # "final"
    BY <1>7
  <2>2. GeneratorInv'
    <3> SUFFICES ASSUME NEW g \in Generators
        PROVE  /\ g \in finished => value[g] = "none"
               /\ g \in finished \/ value[g] = "exception"
                    => frame'[g] \in {"final", "destroyed"}
               /\ frame'[g] = "final" => g \in finished \/ value[g] = "exception"
               /\ reported[g] = yields[g] + (IF value[g] = "exception" THEN 1 ELSE 0)
      BY <1>1 DEF GeneratorInv
    <3>1. g \in Coroutines
      BY DEF Generators
    <3>2. CASE g \in D \cup {c}
      <4>1. frame[g] \notin {"final", "destroyed"} /\ frame'[g] # "final"
        BY <2>1, <3>2 DEF Gone
      <4> QED  BY <1>1, <4>1 DEF GeneratorInv
    <3>3. CASE g \notin D \cup {c}
      BY <1>1, <3>1, <3>3 DEF GeneratorInv
    <3> QED  BY <3>2, <3>3
  <2> QED  BY <1>3, <1>4, <1>5, <1>6, <1>7, <2>2, Calm
<1>8. CASE fault' = "resumed_done" /\ AwaitThrown
  BY <1>3, <1>4, <1>5, <1>8 DEF Inv
<1> QED
  BY <1>7, <1>8

\* Inactive objects are made or moved.
LEMMA HolderStep ==
  ASSUME Inv, fault = "none", TreeInv', KindInv', NEW D \in SUBSET Coroutines,
         \A x \in D :
           /\ frame[x] \notin Active
           /\ \/ frame'[x] = frame[x]
              \/ frame[x] = "uncreated" /\ frame'[x] \in {"initial", "empty"},
         \A x \in Coroutines \ D : frame'[x] = frame[x] /\ holder'[x] = holder[x],
         frame' \in [Coroutines -> Frames],
         holder' \in [Coroutines -> Coroutines \cup {None}],
         UNCHANGED <<kind, callee, promise, yields, reported, fault>>
  PROVE  Inv'
<1>1. /\ TypeOK /\ TreeInv /\ KindInv /\ ChainInv /\ GeneratorInv
      /\ Entries' = Entries /\ Branches' = Branches /\ Lazies' = Lazies
      /\ Generators' = Generators /\ Anys' = Anys /\ Awaitables' = Awaitables
      /\ UNCHANGED <<callerHandle, value, finished>>
  BY SameKinds DEF Inv, promise
<1>2. /\ \A x \in Coroutines : frame'[x] \in Active <=> frame[x] \in Active
      /\ \A x \in Coroutines : frame[x] \in Active =>
           frame'[x] = frame[x] /\ holder'[x] = holder[x]
  BY DEF Active
<1>3. TypeOK'
  BY <1>1 DEF TypeOK, Frames
<1>4. ChainInv'
  <2> SUFFICES ASSUME NEW x \in Coroutines
      PROVE  /\ x \in Awaitables /\ frame'[x] \in Active =>
                  /\ callerHandle[x] = holder'[x] /\ holder'[x] \in Coroutines
                  /\ frame'[holder'[x]] = "waiting" /\ callee[holder'[x]] = x
             /\ x \in Branches /\ frame'[x] \in Active =>
                  holder'[x] \in Coroutines /\ frame'[holder'[x]] = "collecting"
             /\ x \notin Awaitables => callerHandle[x] = None
             /\ frame'[x] = "waiting" =>
                  /\ callee[x] \in Awaitables /\ frame'[callee[x]] \in Active
                  /\ holder'[callee[x]] = x
    BY <1>1 DEF ChainInv
  <2>1. ASSUME frame'[x] = "waiting"
        PROVE  /\ callee[x] \in Awaitables /\ frame'[callee[x]] \in Active
               /\ holder'[callee[x]] = x
    <3>1. frame[x] = "waiting"
      BY <1>2, <2>1 DEF Active
    <3>2. /\ callee[x] \in Awaitables /\ frame[callee[x]] \in Active
          /\ holder[callee[x]] = x /\ callee[x] \in Coroutines
      BY <1>1, <3>1 DEF ChainInv, Awaitables, Lazies, Generators, Anys
    <3> QED  BY <1>2, <3>2
  <2>2. ASSUME x \in Awaitables, frame'[x] \in Active
        PROVE  /\ callerHandle[x] = holder'[x] /\ holder'[x] \in Coroutines
               /\ frame'[holder'[x]] = "waiting" /\ callee[holder'[x]] = x
    <3>1. /\ callerHandle[x] = holder[x] /\ holder[x] \in Coroutines
          /\ frame[holder[x]] = "waiting" /\ callee[holder[x]] = x
          /\ holder'[x] = holder[x]
      BY <1>1, <1>2, <2>2 DEF ChainInv
    <3> QED  BY <1>2, <3>1 DEF Active
  <2>3. ASSUME x \in Branches, frame'[x] \in Active
        PROVE  holder'[x] \in Coroutines /\ frame'[holder'[x]] = "collecting"
    <3>1. /\ holder[x] \in Coroutines /\ frame[holder[x]] = "collecting"
          /\ holder'[x] = holder[x]
      BY <1>1, <1>2, <2>3 DEF ChainInv
    <3> QED  BY <1>2, <3>1 DEF Active
  <2> QED  BY <1>1, <2>1, <2>2, <2>3 DEF ChainInv
<1>5. GeneratorInv'
  <2>1. \A g \in Generators :
          /\ g \in Coroutines
          /\ frame'[g] = frame[g] \/ (frame[g] = "uncreated" /\ frame'[g] # "final")
    BY DEF Generators
  <2> QED  BY <1>1, <2>1 DEF GeneratorInv
<1> QED
  BY <1>1, <1>3, <1>4, <1>5, Calm

-----------------------------------------------------------------------------
\* Destroying frames, and with them what they hold.
LEMMA DestroyedFacts ==
  ASSUME NEW f \in [Coroutines -> Frames], NEW S \in SUBSET Coroutines
  PROVE  /\ Destroyed(f, S) \in [Coroutines -> Frames]
         /\ \A x \in Coroutines :
              Destroyed(f, S)[x] = IF x \in Within(S) THEN "destroyed" ELSE f[x]
BY DEF Destroyed, Frames

\* The locals of d are destroyed.
LEMMA LeftFacts ==
  ASSUME Inv, fault = "none", NEW d \in Coroutines, frame[d] = "running",
         NEW s \in Frames
  PROVE  /\ Within(Held(d)) \subseteq Coroutines /\ Closed(Within(Held(d)))
         /\ d \notin Within(Held(d))
         /\ \A x \in Within(Held(d)) : frame[x] # "uncreated" /\ frame[x] \notin Active
         /\ Left(d, s) \in [Coroutines -> Frames]
         /\ \A x \in Coroutines :
              Left(d, s)[x] = IF x \in Within(Held(d)) THEN "destroyed"
                              ELSE IF x = d THEN s ELSE frame[x]
<1>1. TypeOK /\ TreeInv /\ KindInv /\ ChainInv /\ frame \in [Coroutines -> Frames]
  BY DEF Inv, TypeOK, Frames
<1>2. Held(d) \in SUBSET Coroutines
  BY DEF Held
<1>3. \A x \in Held(d) : frame[x] # "uncreated" /\ frame[x] \notin Active
  <2>1. \A x \in Held(d) : frame[x] \notin Active
    BY <1>1, HeldInactive
  <2>2. \A x \in Held(d) : frame[x] # "uncreated"
    BY <1>1, CallsAssumption DEF Held, TreeInv
  <2> QED  BY <2>1, <2>2
<1>4. /\ \A x \in Within(Held(d)) : frame[x] \notin Active
      /\ \A x \in Within(Held(d)) : frame[x] # "uncreated"
  BY <1>1, <1>2, <1>3, InactiveBelow, CreatedBelow
<1>5. d \notin Within(Held(d))
  BY <1>1, AboveFact DEF TreeInv
<1>6. [frame EXCEPT ![d] = s] \in [Coroutines -> Frames]
  BY <1>1
<1>7. /\ Left(d, s) \in [Coroutines -> Frames]
      /\ \A x \in Coroutines :
           Left(d, s)[x] = IF x \in Within(Held(d)) THEN "destroyed"
                           ELSE [frame EXCEPT ![d] = s][x]
  BY <1>2, <1>6, DestroyedFacts DEF Left
<1> QED
  BY <1>1, <1>2, <1>4, <1>5, <1>7, WithinFacts

\* The object d that a running coroutine holds, and all that it holds.
LEMMA ObjectFacts ==
  ASSUME Inv, fault = "none", NEW c \in Coroutines, NEW d \in Coroutines,
         holder[d] = c, frame[c] = "running"
  PROVE  /\ Within({d}) \subseteq Coroutines /\ Closed(Within({d}))
         /\ d \in Within({d}) /\ c \notin Within({d})
         /\ \A x \in Within({d}) : frame[x] # "uncreated" /\ frame[x] \notin Active
<1>1. TypeOK /\ TreeInv /\ KindInv /\ ChainInv
  BY DEF Inv
<1>2. {d} \in SUBSET Held(c) /\ {d} \in SUBSET Coroutines
  BY DEF Held
<1>3. frame[d] # "uncreated"
  BY <1>1, CallsAssumption DEF TreeInv
<1>4. frame[d] \notin Active
  BY <1>1, <1>2, HeldInactive
<1>5. c \notin Within({d})
  BY <1>1, <1>2, AboveFact DEF TreeInv
<1>6. /\ \A x \in Within({d}) : frame[x] \notin Active
      /\ \A x \in Within({d}) : frame[x] # "uncreated"
  BY <1>1, <1>2, <1>3, <1>4, InactiveBelow, CreatedBelow
<1> QED
  BY <1>2, <1>5, <1>6, WithinFacts

\* Control goes to the caller, which waits for d.
LEMMA TransferFacts ==
  ASSUME Inv, fault = "none", NEW d \in Awaitables, frame[d] = "running"
  PROVE  /\ d \in Coroutines /\ callerHandle[d] \in Coroutines
         /\ holder[d] = callerHandle[d] /\ frame[callerHandle[d]] = "waiting"
         /\ callee[callerHandle[d]] = d /\ callerHandle[d] # d
         /\ \A f : Transfer(d, f) /\ f[callerHandle[d]] = "waiting" =>
              AwaitResume(callerHandle[d], d, f) /\ fault' = fault
<1>1. /\ d \in Coroutines /\ callerHandle[d] \in Coroutines
      /\ holder[d] = callerHandle[d] /\ frame[callerHandle[d]] = "waiting"
      /\ callee[callerHandle[d]] = d
  BY DEF Inv, ChainInv, Active, Awaitables, Lazies, Generators, Anys
<1>2. callerHandle[d] # None
  BY <1>1, CallsAssumption
<1> QED
  BY <1>1, <1>2 DEF Transfer

\* A Lazy ends: its caller takes the result and destroys the frame.
LEMMA LazyStep ==
  ASSUME Inv, fault = "none", kind' = kind, NEW d \in Lazies,
         NEW r \in {"value", "exception"}, ReturnLazy(d, r)
  PROVE  Inv'
<1> DEFINE c == callerHandle[d]
           W == Within({d})
<1>1. /\ TypeOK /\ TreeInv /\ GeneratorInv /\ d \in Awaitables /\ d \in Coroutines
      /\ d \notin Generators /\ d \notin Anys /\ frame[d] = "running"
      /\ value' = [value EXCEPT ![d] = r] /\ Transfer(d, Left(d, "final"))
      /\ UNCHANGED <<holder, callerHandle, finished, yields>>
      /\ Generators' = Generators
  BY KindFacts, SameKinds DEF Inv, ReturnLazy, Awaitables, Lazies
<1>2. /\ c \in Coroutines /\ holder[d] = c /\ frame[c] = "waiting" /\ c # d
  BY <1>1, TransferFacts
<1>3. "final" \in Frames
  BY DEF Frames
<1>4. Left(d, "final")[c] = "waiting"
  BY <1>1, <1>2, <1>3, LeftFacts DEF Active
<1>5. AwaitResume(c, d, Left(d, "final")) /\ fault' = fault
  BY <1>1, <1>4, TransferFacts
<1>6. /\ callee' = [callee EXCEPT ![c] = None] /\ reported' = reported
      /\ frame' = [Destroyed(Left(d, "final"), {d}) EXCEPT ![c] = "running"]
  BY <1>1, <1>5 DEF AwaitResume, LazyAwaitResume
<1>7. /\ W \in SUBSET Coroutines /\ Closed(W) /\ d \in W
      /\ c \notin W
  <2>1. {d} \in SUBSET Held(c) /\ {d} \in SUBSET Coroutines
    BY <1>1, <1>2 DEF Held
  <2> QED  BY <1>1, <1>2, <2>1, AboveFact, WithinFacts DEF TreeInv
<1>8. Within(Held(d)) \subseteq W /\ W \subseteq Within(Held(d)) \cup {d}
  <2>1. Held(d) \in SUBSET Coroutines /\ Held(d) \subseteq W
    BY <1>1, <1>7 DEF Held, Closed
  <2>2. Within(Held(d)) \subseteq W
    BY <1>7, <2>1, WithinFacts
  <2>3. /\ Within(Held(d)) \subseteq Coroutines /\ Closed(Within(Held(d)))
        /\ Held(d) \subseteq Within(Held(d))
    BY <2>1, WithinFacts
  <2>4. Closed(Within(Held(d)) \cup {d}) /\ Within(Held(d)) \cup {d} \in SUBSET Coroutines
    BY <1>1, <2>3 DEF Closed, Held
  <2> QED  BY <1>1, <2>2, <2>4, WithinFacts
<1>9. \A x \in W : frame[x] # "uncreated" /\ (x = d \/ frame[x] \notin Active)
  BY <1>1, <1>3, <1>8, LeftFacts
<1>10. /\ frame' \in [Coroutines -> Frames]
       /\ \A x \in Coroutines :
            frame'[x] = IF x \in W THEN "destroyed" ELSE IF x = c THEN "running"
                        ELSE frame[x]
  <2>1. Left(d, "final") \in [Coroutines -> Frames]
    BY <1>1, <1>3, LeftFacts
  <2>2. /\ Destroyed(Left(d, "final"), {d}) \in [Coroutines -> Frames]
        /\ \A x \in Coroutines : Destroyed(Left(d, "final"), {d})[x] =
             IF x \in W THEN "destroyed" ELSE Left(d, "final")[x]
    BY <1>1, <2>1, DestroyedFacts
  <2>3. \A x \in Coroutines : x \notin W => Left(d, "final")[x] = frame[x]
    <3>1. \A x \in Coroutines :
            Left(d, "final")[x] = IF x \in Within(Held(d)) THEN "destroyed"
                                  ELSE IF x = d THEN "final" ELSE frame[x]
      BY <1>1, <1>3, LeftFacts
    <3> HIDE DEF W
    <3> QED  BY <1>7, <1>8, <3>1
  <2> HIDE DEF c, W
  <2> QED  BY <1>2, <1>6, <1>7, <2>2, <2>3 DEF Frames
<1>11. /\ value' \in [Coroutines -> {"none", "value", "moved", "exception"}]
       /\ \A x \in Coroutines \ {d} : value'[x] = value[x]
  BY <1>1 DEF TypeOK
<1> HIDE DEF W, c
<1>12. TreeInv' /\ KindInv' /\ ChainInv'
  <2>1. /\ c = callerHandle[d] /\ d \in Awaitables /\ frame[d] = "running"
        /\ c \in Coroutines /\ callee' = [callee EXCEPT ![c] = None]
        /\ UNCHANGED <<kind, holder, callerHandle>>
    BY <1>1, <1>2, <1>6 DEF c
  <2>2. /\ frame' \in [Coroutines -> Frames]
        /\ \A x \in Coroutines \ {d} :
             frame'[x] = IF x \in W THEN "destroyed" ELSE IF x = c THEN "running"
                         ELSE frame[x]
        /\ IF d \in W THEN frame'[d] = "destroyed"
           ELSE \/ d \in Generators /\ frame'[d] \in {"yielded", "final"}
                \/ d \in Anys /\ frame'[d] = "empty"
    BY <1>1, <1>7, <1>10
  <2> QED  BY ZenonT(60), <1>7, <1>9, <1>11, <2>1, <2>2, UpStep
<1>13. TypeOK'
  BY <1>1, <1>2, <1>5, <1>6, <1>10, <1>11 DEF TypeOK, Frames
<1>14. GeneratorInv'
  <2> SUFFICES ASSUME NEW g \in Generators
      PROVE  /\ g \in finished => value'[g] = "none"
             /\ g \in finished \/ value'[g] = "exception"
                  => frame'[g] \in {"final", "destroyed"}
             /\ frame'[g] = "final" => g \in finished \/ value'[g] = "exception"
             /\ reported'[g] = yields[g] + (IF value'[g] = "exception" THEN 1 ELSE 0)
    BY <1>1 DEF GeneratorInv
  <2>1. /\ g \in Coroutines /\ value'[g] = value[g]
        /\ frame'[g] = frame[g] \/ frame'[g] = "destroyed"
             \/ (frame[g] = "waiting" /\ frame'[g] = "running")
    BY <1>1, <1>2, <1>10, <1>11 DEF Generators
  <2> QED  BY <1>1, <1>6, <2>1 DEF GeneratorInv
<1> QED
  BY <1>5, <1>12, <1>13, <1>14, Calm

\* The invoker of an AnyAwaitable ends.
LEMMA AnyStep ==
  ASSUME Inv, fault = "none", kind' = kind, NEW y \in Coroutines, ReturnAny(y)
  PROVE  Inv'
<1> DEFINE c == callerHandle[y]
           f == [frame EXCEPT ![y] = "final"]
<1>1. /\ TypeOK /\ GeneratorInv /\ y \in Awaitables /\ y \in Anys
      /\ y \notin Generators /\ y \notin Lazies /\ frame[y] = "running"
      /\ Transfer(y, f) /\ UNCHANGED <<holder, callerHandle, value, finished, yields>>
      /\ Generators' = Generators
  BY KindFacts, SameKinds DEF Inv, ReturnAny, Awaitables, promise
<1>2. c \in Coroutines /\ frame[c] = "waiting" /\ c # y
  BY <1>1, TransferFacts
<1>3. f[c] = "waiting"
  BY <1>1, <1>2 DEF TypeOK
<1>4. AwaitResume(c, y, f) /\ fault' = fault
  BY <1>1, <1>3, TransferFacts
<1>5. /\ callee' = [callee EXCEPT ![c] = None] /\ reported' = reported
      /\ frame' = [f EXCEPT ![c] = "running", ![y] = "empty"]
  BY <1>1, <1>4 DEF AwaitResume, AnyAwaitResume
<1>6. /\ frame' \in [Coroutines -> Frames]
      /\ frame'[c] = "running" /\ frame'[y] = "empty"
      /\ \A x \in Coroutines \ {c, y} : frame'[x] = frame[x]
  BY <1>1, <1>2, <1>5 DEF TypeOK, Frames
<1>7. /\ value \in [Coroutines -> {"none", "value", "moved", "exception"}]
      /\ Closed({}) /\ None \notin Coroutines
  BY <1>1, CallsAssumption DEF TypeOK, Closed
<1> HIDE DEF c, f
<1>8. TreeInv' /\ KindInv' /\ ChainInv'
  <2>1. c = callerHandle[y]
    BY DEF c
  <2>2. \A x \in Coroutines \ {y} :
          frame'[x] = IF x \in {} THEN "destroyed" ELSE IF x = c THEN "running"
                      ELSE frame[x]
    BY <1>6
  <2> QED  BY <1>1, <1>2, <1>5, <1>6, <1>7, <2>1, <2>2, UpStep
<1>9. TypeOK'
  BY <1>1, <1>2, <1>4, <1>5, <1>6 DEF TypeOK, Frames
<1>10. GeneratorInv'
  <2>1. \A g \in Generators :
          /\ g \in Coroutines
          /\ frame'[g] = frame[g] \/ (frame[g] = "waiting" /\ frame'[g] = "running")
    BY <1>1, <1>2, <1>6 DEF Generators
  <2> QED  BY <1>1, <1>5, <2>1 DEF GeneratorInv
<1> QED
  BY <1>4, <1>8, <1>9, <1>10, Calm

\* A Generator yields, ends or throws, which leaves the frames f: its caller
\* is told whether there was a co_yield.
LEMMA GeneratorStops ==
  ASSUME Inv, fault = "none", kind' = kind, NEW g \in Coroutines,
         ReturnGenerator(g) \/ ThrowGenerator(g) \/ YieldValue(g),
         NEW f \in [Coroutines -> Frames], NEW W \in SUBSET Coroutines,
         NEW s \in {"final", "yielded"},
         Transfer(g, f), Closed(W), g \notin W,
         \A x \in W : frame[x] # "uncreated" /\ frame[x] \notin Active,
         \A x \in Coroutines : f[x] = IF x \in W THEN "destroyed"
                                      ELSE IF x = g THEN s ELSE frame[x],
         s = "final" => ReturnGenerator(g) \/ ThrowGenerator(g),
         s = "yielded" => YieldValue(g)
  PROVE  Inv'
<1> DEFINE c == callerHandle[g]
<1>1. s = "final" \/ s = "yielded"
  OBVIOUS
<1>2. /\ TypeOK /\ GeneratorInv /\ g \in Awaitables /\ g \in Generators
      /\ g \notin Lazies /\ g \notin Anys /\ frame[g] = "running"
      /\ UNCHANGED <<holder, callerHandle>> /\ Generators' = Generators
  BY KindFacts, SameKinds
  DEF Inv, ReturnGenerator, ThrowGenerator, YieldValue, Awaitables
<1>3. /\ c \in Coroutines /\ frame[c] = "waiting" /\ c # g /\ c \notin W
      /\ f[c] = "waiting"
  <2>1. c \in Coroutines /\ frame[c] = "waiting" /\ c # g
    BY <1>2, TransferFacts
  <2> HIDE DEF c
  <2> QED  BY <1>1, <2>1 DEF Active
<1>4. AwaitResume(c, g, f) /\ fault' = fault
  BY <1>1, <1>2, <1>3, TransferFacts
<1>5. /\ callee' = [callee EXCEPT ![c] = None] /\ frame' = [f EXCEPT ![c] = "running"]
      /\ reported' = IF value'[g] = "none" THEN reported
                     ELSE [reported EXCEPT ![g] = @ + 1]
  BY <1>2, <1>4 DEF AwaitResume, NextAwaitResume
<1>6. /\ frame' \in [Coroutines -> Frames]
      /\ \A x \in Coroutines :
           frame'[x] = IF x \in W THEN "destroyed" ELSE IF x = c THEN "running"
                       ELSE IF x = g THEN s ELSE frame[x]
  <2> HIDE DEF c
  <2> QED  BY <1>1, <1>3, <1>5 DEF Frames
<1>7. \/ /\ s = "final" /\ value' = [value EXCEPT ![g] = "none"]
         /\ finished' = finished \cup {g} /\ yields' = yields
      \/ /\ s = "final" /\ value' = [value EXCEPT ![g] = "exception"]
         /\ UNCHANGED <<finished, yields>>
      \/ /\ s = "yielded" /\ value' = [value EXCEPT ![g] = "value"]
         /\ yields[g] < MaxYields
         /\ yields' = [yields EXCEPT ![g] = @ + 1] /\ finished' = finished
  BY <1>1 DEF ReturnGenerator, ThrowGenerator, YieldValue
<1>8. /\ value' \in [Coroutines -> {"none", "value", "moved", "exception"}]
      /\ \A x \in Coroutines \ {g} : value'[x] = value[x]
      /\ value'[g] \in {"none", "value", "exception"}
  BY <1>2, <1>7 DEF TypeOK
<1>9. g \notin finished /\ value[g] # "exception" /\ reported[g] = yields[g]
  <2>1. g \notin finished /\ value[g] # "exception"
    BY <1>2 DEF GeneratorInv
  <2>2. reported[g] = yields[g] + 0 /\ yields[g] \in Nat
    BY <1>2, <2>1, CallsAssumption DEF GeneratorInv, TypeOK
  <2> QED  BY <2>1, <2>2
<1>10. /\ yields[g] \in Nat /\ MaxYields \in Nat /\ yields[g] <= MaxYields
       /\ yields \in [Generators -> 0..MaxYields]
       /\ reported \in [Generators -> 0..(MaxYields + 1)]
  BY <1>2, CallsAssumption DEF TypeOK
<1> HIDE DEF c
<1>11. TreeInv' /\ KindInv' /\ ChainInv'
  <2>1. c = callerHandle[g]
    BY DEF c
  <2>2. \A x \in Coroutines \ {g} :
          frame'[x] = IF x \in W THEN "destroyed" ELSE IF x = c THEN "running"
                      ELSE frame[x]
    BY <1>6
  <2>3. frame'[g] \in {"yielded", "final"}
    BY <1>1, <1>3, <1>6
  <2> QED  BY <1>1, <1>2, <1>3, <1>5, <1>6, <1>8, <2>1, <2>2, <2>3, UpStep
<1>12. /\ \A h \in Generators \ {g} : reported'[h] = reported[h] /\ yields'[h] = yields[h]
       /\ reported'[g] = yields'[g] + (IF value'[g] = "exception" THEN 1 ELSE 0)
       /\ yields' \in [Generators -> 0..MaxYields]
       /\ reported' \in [Generators -> 0..(MaxYields + 1)]
  <2>1. CASE value' = [value EXCEPT ![g] = "none"] /\ yields' = yields
    <3>1. value'[g] = "none"
      BY <1>2, <2>1 DEF TypeOK
    <3>2. reported' = reported
      BY <1>5, <3>1
    <3> QED  BY <1>2, <1>9, <1>10, <2>1, <3>1, <3>2
  <2>2. CASE value' = [value EXCEPT ![g] = "exception"] /\ yields' = yields
    <3>1. value'[g] = "exception"
      BY <1>2, <2>2 DEF TypeOK
    <3>2. reported' = [reported EXCEPT ![g] = reported[g] + 1]
      BY <1>5, <3>1
    <3> QED  BY <1>2, <1>9, <1>10, <2>2, <3>1, <3>2
  <2>3. CASE /\ value' = [value EXCEPT ![g] = "value"] /\ yields[g] < MaxYields
             /\ yields' = [yields EXCEPT ![g] = @ + 1]
    <3>1. value'[g] = "value"
      BY <1>2, <2>3 DEF TypeOK
    <3>2. reported' = [reported EXCEPT ![g] = reported[g] + 1]
      BY <1>5, <3>1
    <3> QED  BY <1>2, <1>9, <1>10, <2>3, <3>1, <3>2
  <2> QED  BY <1>7, <2>1, <2>2, <2>3
<1>13. TypeOK'
  <2>1. callee' \in [Coroutines -> Coroutines \cup {None}]
    BY <1>2, <1>5 DEF TypeOK
  <2>2. finished' \subseteq Generators
    BY <1>2, <1>7 DEF TypeOK
  <2> QED  BY <1>2, <1>4, <1>6, <1>8, <1>12, <2>1, <2>2 DEF TypeOK, Frames
<1>14. GeneratorInv'
  <2> SUFFICES ASSUME NEW h \in Generators
      PROVE  /\ h \in finished' => value'[h] = "none"
             /\ h \in finished' \/ value'[h] = "exception"
                  => frame'[h] \in {"final", "destroyed"}
             /\ frame'[h] = "final" => h \in finished' \/ value'[h] = "exception"
             /\ reported'[h] = yields'[h] + (IF value'[h] = "exception" THEN 1 ELSE 0)
    BY <1>2 DEF GeneratorInv
  <2>1. CASE h = g
    <3>1. frame'[g] = s
      BY <1>1, <1>3, <1>6
    <3>2. value'[g] = "none" \/ value'[g] = "exception" \/ value'[g] = "value"
      BY <1>8
    <3>3. \/ s = "final" /\ value'[g] = "none" /\ g \in finished'
          \/ s = "final" /\ value'[g] = "exception" /\ finished' = finished
          \/ s = "yielded" /\ value'[g] = "value" /\ finished' = finished
      BY <1>2, <1>7 DEF TypeOK
    <3> QED  BY <1>9, <1>12, <2>1, <3>1, <3>3
  <2>2. CASE h # g
    <3>1. /\ h \in Coroutines /\ value'[h] = value[h]
          /\ h \in finished' <=> h \in finished
          /\ \/ frame'[h] = frame[h] \/ frame'[h] = "destroyed"
             \/ frame[h] = "waiting" /\ frame'[h] = "running"
      BY <1>3, <1>6, <1>7, <1>8, <2>2 DEF Generators
    <3> QED  BY <1>2, <1>12, <2>2, <3>1 DEF GeneratorInv
  <2> QED  BY <2>1, <2>2
<1> QED
  BY <1>4, <1>11, <1>13, <1>14, Calm

\* A Generator yields, ends or throws.
LEMMA GeneratorStep ==
  ASSUME Inv, fault = "none", kind' = kind, NEW g \in Coroutines,
         ReturnGenerator(g) \/ ThrowGenerator(g) \/ YieldValue(g)
  PROVE  Inv'
<1>1. frame[g] = "running" /\ "final" \in Frames
  BY DEF ReturnGenerator, ThrowGenerator, YieldValue, Frames
<1>2. CASE YieldValue(g)
  <2> DEFINE f == [frame EXCEPT ![g] = "yielded"]
             W == {}
  <2>1. /\ Transfer(g, f) /\ f \in [Coroutines -> Frames]
        /\ \A x \in Coroutines : f[x] = IF x = g THEN "yielded" ELSE frame[x]
    BY <1>2 DEF YieldValue, Inv, TypeOK, Frames
  <2>2. Closed(W) /\ W \in SUBSET Coroutines /\ \A x : x \notin W
    BY DEF Closed
  <2> HIDE DEF f, W
  <2> QED  BY <1>2, <2>1, <2>2, GeneratorStops
<1>3. CASE ReturnGenerator(g) \/ ThrowGenerator(g)
  <2> DEFINE f == Left(g, "final")
             W == Within(Held(g))
  <2>1. Transfer(g, f)
    BY <1>3 DEF ReturnGenerator, ThrowGenerator
  <2>2. /\ f \in [Coroutines -> Frames] /\ W \in SUBSET Coroutines /\ Closed(W)
        /\ g \notin W /\ \A x \in W : frame[x] # "uncreated" /\ frame[x] \notin Active
        /\ \A x \in Coroutines : f[x] = IF x \in W THEN "destroyed"
                                       ELSE IF x = g THEN "final" ELSE frame[x]
    BY <1>1, LeftFacts
  <2> HIDE DEF f, W
  <2> QED  BY <1>3, <2>1, <2>2, GeneratorStops
<1> QED
  BY <1>2, <1>3

\* A branch ends: nobody waits in its caller handle.
LEMMA BranchStep ==
  ASSUME Inv, fault = "none", kind' = kind, NEW b \in Branches,
         NEW r \in {"value", "exception"}, ReturnLazy(b, r)
  PROVE  Inv'
<1> DEFINE W == Within(Held(b))
<1>1. /\ TypeOK /\ ChainInv /\ b \in Coroutines /\ b \notin Awaitables
      /\ frame[b] = "running" /\ callerHandle[b] = None
      /\ value' = [value EXCEPT ![b] = r] /\ Transfer(b, Left(b, "final"))
      /\ UNCHANGED <<holder, callerHandle, finished, yields>>
  BY KindFacts DEF Inv, ChainInv, ReturnLazy, Branches
<1>2. frame' = Left(b, "final") /\ UNCHANGED <<callee, reported, fault>>
  BY <1>1 DEF Transfer
<1>3. "final" \in Frames /\ Awaitables \subseteq Coroutines
  BY DEF Frames, Awaitables, Lazies, Generators, Anys
<1>4. /\ W \in SUBSET Coroutines /\ Closed(W) /\ b \notin W
      /\ \A x \in W : frame[x] # "uncreated" /\ frame[x] \notin Active
      /\ frame' \in [Coroutines -> Frames]
      /\ \A x \in Coroutines : frame'[x] = IF x \in W THEN "destroyed"
                                           ELSE IF x = b THEN "final" ELSE frame[x]
  BY <1>1, <1>2, <1>3, LeftFacts
<1>5. /\ value' \in [Coroutines -> {"none", "value", "moved", "exception"}]
      /\ \A x \in Coroutines \ {b} : value'[x] = value[x]
      /\ callee' \in [Coroutines -> Coroutines \cup {None}]
  BY <1>1, <1>2 DEF TypeOK
<1> HIDE DEF W
<1> QED
  BY <1>1, <1>2, <1>4, <1>5, KillStep

\* co_await of what has finished: a Lazy is destroyed, a Generator says no.
LEMMA ReadyStep ==
  ASSUME Inv, fault = "none", kind' = kind, NEW c \in Coroutines,
         NEW d \in Coroutines, ~ByReference, AwaitReady(c, d)
  PROVE  Inv'
<1>1. /\ TypeOK /\ GeneratorInv /\ frame[c] = "running" /\ holder[d] = c
      /\ d \in Lazies \cup Generators /\ callee' = [callee EXCEPT ![c] = None]
      /\ UNCHANGED <<holder, callerHandle, value, finished, yields, fault>>
  BY DEF Inv, AwaitReady, CanAwait, AwaitResume
<1>2. /\ callee' \in [Coroutines -> Coroutines \cup {None}]
      /\ \A x \in Coroutines \ {c} : callee'[x] = callee[x]
      /\ value' \in [Coroutines -> {"none", "value", "moved", "exception"}]
      /\ frame \in [Coroutines -> Frames]
  BY <1>1 DEF TypeOK, Frames
<1>3. CASE d \in Lazies
  <2> DEFINE W == Within({d})
  <2>1. /\ frame' = [Destroyed(frame, {d}) EXCEPT ![c] = "running"]
        /\ reported' = reported
    BY <1>1, <1>3, KindFacts DEF AwaitReady, AwaitResume, LazyAwaitResume
  <2>2. /\ W \in SUBSET Coroutines /\ Closed(W) /\ c \notin W
        /\ \A x \in W : frame[x] # "uncreated" /\ frame[x] \notin Active
    BY <1>1, ObjectFacts
  <2>3. /\ Destroyed(frame, {d}) \in [Coroutines -> Frames]
        /\ \A x \in Coroutines :
             Destroyed(frame, {d})[x] = IF x \in W THEN "destroyed" ELSE frame[x]
    BY <1>2, DestroyedFacts
  <2> HIDE DEF W
  <2>4. /\ frame' \in [Coroutines -> Frames]
        /\ \A x \in Coroutines :
             frame'[x] = IF x \in W THEN "destroyed" ELSE frame[x]
    BY <1>1, <2>1, <2>2, <2>3 DEF Frames
  <2> QED  BY <1>1, <1>2, <2>1, <2>2, <2>4, KillStep
<1>4. CASE d \in Generators
  <2>1. d \in finished /\ value'[d] = "none"
    BY <1>1, <1>4, KindFacts DEF AwaitReady, IsFinished, GeneratorInv
  <2>2. frame' = [frame EXCEPT ![c] = "running"] /\ reported' = reported
    BY <1>1, <1>4, <2>1, KindFacts DEF AwaitReady, AwaitResume, NextAwaitResume
  <2>3. frame' = frame
    BY <1>1, <1>2, <2>2
  <2>4. Closed({})
    BY DEF Closed
  <2> QED  BY <1>1, <1>2, <2>2, <2>3, <2>4, KillStep
<1> QED
  BY <1>1, <1>3, <1>4

\* ~Lazy and ~Generator.
LEMMA DropStep ==
  ASSUME Inv, fault = "none", kind' = kind, NEW c \in Coroutines,
         NEW d \in Coroutines, Drop(c, d)
  PROVE  Inv'
<1> DEFINE W == Within({d})
<1>1. /\ TypeOK /\ frame[c] = "running" /\ holder[d] = c
      /\ frame' = Destroyed(frame, {d})
      /\ UNCHANGED <<holder, callee, callerHandle, value, finished, yields, reported,
                     fault>>
  BY DEF Inv, Drop, promise
<1>2. /\ callee' \in [Coroutines -> Coroutines \cup {None}]
      /\ value' \in [Coroutines -> {"none", "value", "moved", "exception"}]
      /\ frame \in [Coroutines -> Frames]
  BY <1>1 DEF TypeOK, Frames
<1>3. /\ W \in SUBSET Coroutines /\ Closed(W)
      /\ \A x \in W : frame[x] # "uncreated" /\ frame[x] \notin Active
  BY <1>1, ObjectFacts
<1>4. /\ frame' \in [Coroutines -> Frames]
      /\ \A x \in Coroutines : frame'[x] = IF x \in W THEN "destroyed" ELSE frame[x]
  BY <1>1, <1>2, DestroyedFacts
<1> HIDE DEF W
<1> QED
  BY <1>1, <1>2, <1>3, <1>4, KillStep

\* The entry coroutine ends.
LEMMA EntryStep ==
  ASSUME Inv, fault = "none", kind' = kind, NEW c \in Coroutines, ReturnEntry(c)
  PROVE  Inv'
<1> DEFINE V == Within(Held(c))
           W == V \cup {c}
<1>1. /\ TypeOK /\ c \notin Awaitables /\ frame[c] = "running"
      /\ frame' = Left(c, "destroyed") /\ "destroyed" \in Frames
      /\ UNCHANGED <<holder, callee, callerHandle, value, finished, yields, reported,
                     fault>>
  BY KindFacts DEF Inv, ReturnEntry, promise, Frames
<1>2. /\ callee' \in [Coroutines -> Coroutines \cup {None}]
      /\ value' \in [Coroutines -> {"none", "value", "moved", "exception"}]
  BY <1>1 DEF TypeOK
<1>3. /\ V \subseteq Coroutines /\ Closed(V)
      /\ \A x \in V : frame[x] # "uncreated" /\ frame[x] \notin Active
      /\ frame' \in [Coroutines -> Frames]
      /\ \A x \in Coroutines : frame'[x] = IF x \in V THEN "destroyed"
                                           ELSE IF x = c THEN "destroyed" ELSE frame[x]
  BY <1>1, LeftFacts
<1>4. Held(c) \subseteq V
  BY WithinFacts DEF Held
<1>5. W \in SUBSET Coroutines /\ Closed(W)
  BY <1>3, <1>4 DEF Closed, Held
<1> HIDE DEF V
<1>6. /\ \A x \in W : frame[x] # "uncreated"
      /\ \A x \in W : x \in Awaitables => frame[x] \notin Active
      /\ \A x \in Coroutines : frame'[x] = IF x \in W THEN "destroyed" ELSE frame[x]
  BY <1>1, <1>3
<1> HIDE DEF W
<1> QED
  BY <1>1, <1>2, <1>3, <1>5, <1>6, KillStep

\* A collective awaiter is destroyed with its branches, waiting ones too.
LEMMA CollectedStep ==
  ASSUME Inv, fault = "none", kind' = kind, NEW c \in Coroutines, Collected(c)
  PROVE  Inv'
<1> DEFINE S == Held(c) \cap Branches
           W == Within(S)
<1>1. /\ TypeOK /\ TreeInv /\ frame[c] = "collecting"
      /\ frame' = [Destroyed(frame, S) EXCEPT ![c] = "running"]
      /\ S \in SUBSET Coroutines /\ S \in SUBSET Held(c)
      /\ UNCHANGED <<holder, callee, callerHandle, value, finished, yields, reported,
                     fault>>
  BY DEF Inv, Collected, promise, Held
<1>2. /\ callee' \in [Coroutines -> Coroutines \cup {None}]
      /\ value' \in [Coroutines -> {"none", "value", "moved", "exception"}]
      /\ frame \in [Coroutines -> Frames]
  BY <1>1 DEF TypeOK, Frames
<1>3. /\ W \in SUBSET Coroutines /\ Closed(W) /\ S \subseteq W /\ c \notin W
      /\ \A x \in W \ S : holder[x] \in W
  BY <1>1, WithinFacts, AboveFact DEF TreeInv
<1>4. \A x \in W : frame[x] # "uncreated"
  <2>1. \A x \in S : frame[x] # "uncreated"
    BY <1>1, CallsAssumption DEF Held, TreeInv
  <2> QED  BY <1>1, <2>1, CreatedBelow
<1>5. \A x \in W : x \in Awaitables => holder[x] \in W
  BY <1>1, <1>3, KindFacts
<1>6. \A b \in Branches : holder[b] = c => b \in W
  BY <1>3 DEF Held, Branches
<1>7. /\ Destroyed(frame, S) \in [Coroutines -> Frames]
      /\ \A x \in Coroutines :
           Destroyed(frame, S)[x] = IF x \in W THEN "destroyed" ELSE frame[x]
  BY <1>1, <1>2, DestroyedFacts
<1> HIDE DEF S, W
<1>8. /\ frame' \in [Coroutines -> Frames]
      /\ \A x \in Coroutines : frame'[x] = IF x \in W THEN "destroyed"
                                           ELSE IF x = c THEN "running" ELSE frame[x]
  BY <1>1, <1>3, <1>7 DEF Frames
<1> QED
  BY <1>1, <1>2, <1>3, <1>4, <1>5, <1>6, <1>8, KillStep

\* The whole task is destroyed.
LEMMA AbortStep ==
  ASSUME Inv, fault = "none", kind' = kind, NEW c \in Coroutines, Abort(c)
  PROVE  Inv'
<1> DEFINE W == Within({c})
<1>1. /\ TypeOK /\ TreeInv /\ c \notin Awaitables /\ frame[c] # "uncreated"
      /\ frame' = Destroyed(frame, {c}) /\ {c} \in SUBSET Coroutines
      /\ UNCHANGED <<holder, callee, callerHandle, value, finished, yields, reported,
                     fault>>
  BY KindFacts DEF Inv, Abort, promise
<1>2. /\ callee' \in [Coroutines -> Coroutines \cup {None}]
      /\ value' \in [Coroutines -> {"none", "value", "moved", "exception"}]
      /\ frame \in [Coroutines -> Frames]
  BY <1>1 DEF TypeOK, Frames
<1>3. W \in SUBSET Coroutines /\ Closed(W) /\ \A x \in W \ {c} : holder[x] \in W
  BY <1>1, WithinFacts
<1>4. \A x \in W : frame[x] # "uncreated"
  BY <1>1, CreatedBelow
<1>5. /\ frame' \in [Coroutines -> Frames]
      /\ \A x \in Coroutines : frame'[x] = IF x \in W THEN "destroyed" ELSE frame[x]
  BY <1>1, <1>2, DestroyedFacts
<1> HIDE DEF W
<1>6. \A x \in W : x \in Awaitables => holder[x] \in W
  BY <1>1, <1>3
<1> QED
  BY <1>1, <1>2, <1>3, <1>4, <1>5, <1>6, KillStep

\* What an object is doing that is there to be awaited.
LEMMA AwaitedFacts ==
  ASSUME Inv, fault = "none", NEW d \in Lazies \cup Generators,
         Alive(d), frame[d] \notin Active, ~IsFinished(d), AwaitThrown \/ ~Thrown(d)
  PROVE  \/ frame[d] # "final" /\ Resumed(d) = "none"
         \/ Resumed(d) = "resumed_done" /\ AwaitThrown
<1>1. CASE d \in Lazies
  <2>1. frame[d] = "initial"
    BY <1>1 DEF Inv, KindInv, Lazies, Alive, Gone, IsFinished
  <2> QED  BY <2>1 DEF Resumed
<1>2. CASE d \in Generators
  <2>1. frame[d] \in {"initial", "yielded", "final"}
    BY <1>2 DEF Inv, KindInv, Generators, Alive, Gone
  <2>2. d \notin finished
    BY <1>2, KindFacts DEF IsFinished, Inv
  <2>3. frame[d] = "final" => AwaitThrown
    BY <1>2, <2>2 DEF Inv, GeneratorInv, Thrown
  <2> QED  BY <2>1, <2>3 DEF Resumed
<1> QED
  BY <1>1, <1>2

\* co_await of a Lazy or Generator that c holds.
LEMMA AwaitStep ==
  ASSUME Inv, fault = "none", kind' = kind, NEW c \in Coroutines,
         NEW d \in Coroutines, ~ByReference, AwaitSuspend(c, d)
  PROVE  Inv'
<1>1. /\ TypeOK /\ frame[c] = "running" /\ holder[d] = c /\ Alive(d)
      /\ d \in Lazies \cup Generators /\ ~IsFinished(d) /\ (AwaitThrown \/ ~Thrown(d))
      /\ callerHandle' = [callerHandle EXCEPT ![d] = c]
      /\ callee' = [callee EXCEPT ![c] = d]
      /\ frame' = [frame EXCEPT ![c] = "waiting", ![d] = "running"]
      /\ fault' = Resumed(d)
      /\ UNCHANGED <<holder, value, finished, yields, reported>>
  BY DEF Inv, AwaitSuspend, CanAwait, ChainCoroutine
<1>2. frame[d] \notin Active \cup Gone /\ d # c
  BY <1>1, ObjectFacts DEF Alive, Active
<1>3. /\ {d} \in SUBSET Awaitables
      /\ \/ fault' = "none" /\ frame[d] # "final"
         \/ fault' = "resumed_done" /\ AwaitThrown
  BY <1>1, <1>2, AwaitedFacts DEF Awaitables
<1>4. /\ frame' \in [Coroutines -> Frames]
      /\ callee' \in [Coroutines -> Coroutines \cup {None}]
      /\ callerHandle' \in [Coroutines -> Coroutines \cup {None}]
      /\ frame'[c] = "waiting" /\ frame'[d] = "running" /\ callee'[c] = d
      /\ callerHandle'[d] = c /\ callerHandle'[c] = callerHandle[c]
      /\ \A x \in Coroutines \ {c, d} :
           /\ frame'[x] = frame[x] /\ callee'[x] = callee[x]
           /\ callerHandle'[x] = callerHandle[x]
  BY <1>1, <1>2 DEF TypeOK, Frames
<1> DEFINE D == {d}
<1>5. /\ \A x \in D :
          /\ frame[x] \notin Active \cup Gone /\ frame'[x] \in {"running", "waiting"}
          /\ callerHandle'[x] = holder[x] /\ holder[x] \in D \cup {c}
          /\ frame'[holder[x]] = "waiting" /\ callee'[holder[x]] = x
      /\ \A x \in D \cup {c} : frame'[x] = "waiting" =>
           callee'[x] \in D /\ holder[callee'[x]] = x
      /\ \A x \in Coroutines \ (D \cup {c}) :
           /\ frame'[x] = frame[x] /\ callee'[x] = callee[x]
           /\ callerHandle'[x] = callerHandle[x]
      /\ \/ fault' = "none" /\ \A x \in D : frame[x] # "final"
         \/ fault' = "resumed_done" /\ AwaitThrown
      /\ D \in SUBSET Awaitables
  BY <1>1, <1>2, <1>3, <1>4
<1>6. frame[c] = "running" /\ UNCHANGED <<holder, value, finished, yields, reported>>
  BY <1>1
<1> HIDE DEF D
<1> QED
  BY <1>4, <1>5, <1>6, DownStep

\* co_await of an AnyAwaitable that c holds, and of the object d inside it.
LEMMA AwaitAnyStep ==
  ASSUME Inv, fault = "none", kind' = kind, NEW c \in Coroutines, NEW y \in Anys,
         NEW d \in Coroutines, ~ByReference, AwaitAny(c, y, d)
  PROVE  Inv'
<1>1. /\ TypeOK /\ TreeInv /\ KindInv /\ ChainInv /\ y \in Coroutines
      /\ frame[c] = "running" /\ holder[y] = c /\ Alive(y)
      /\ holder[d] = y /\ Alive(d) /\ d \in Lazies \cup Generators
      /\ AwaitThrown \/ ~Thrown(d)
      /\ UNCHANGED <<holder, value, finished, yields, reported>>
      /\ y \in Awaitables /\ d \in Awaitables /\ y # d
  BY KindFacts DEF Inv, TreeInv, AwaitAny, CanAwait, Anys, Awaitables
<1>2. frame[y] = "empty" /\ y # c
  <2>1. frame[y] \notin Active \cup Gone
    BY <1>1, ObjectFacts DEF Alive
  <2> QED  BY <1>1, <2>1 DEF KindInv, Active
<1>3. frame[d] \notin Active \cup Gone /\ d # c
  <2>1. frame[y] \notin {"waiting", "collecting"} /\ d \in Held(y)
    BY <1>1, <1>2 DEF Held
  <2> QED  BY <1>1, <2>1, HeldInactive DEF Alive, Active
<1>4. CASE IsFinished(d)
  <2>1. /\ callerHandle' = [callerHandle EXCEPT ![y] = c]
        /\ callee' = [callee EXCEPT ![c] = y]
        /\ frame' = [frame EXCEPT ![c] = "waiting", ![y] = "running"]
        /\ fault' = "none"
    BY <1>2, <1>4 DEF AwaitAny
  <2>2. /\ frame' \in [Coroutines -> Frames]
        /\ callee' \in [Coroutines -> Coroutines \cup {None}]
        /\ callerHandle' \in [Coroutines -> Coroutines \cup {None}]
        /\ frame'[c] = "waiting" /\ frame'[y] = "running" /\ callee'[c] = y
        /\ callerHandle'[y] = c /\ callerHandle'[c] = callerHandle[c]
        /\ \A x \in Coroutines \ {c, y} :
             /\ frame'[x] = frame[x] /\ callee'[x] = callee[x]
             /\ callerHandle'[x] = callerHandle[x]
    BY <1>1, <1>2, <2>1 DEF TypeOK, Frames
  <2> DEFINE D == {y}
  <2>3. /\ \A x \in D :
            /\ frame[x] \notin Active \cup Gone /\ frame'[x] \in {"running", "waiting"}
            /\ callerHandle'[x] = holder[x] /\ holder[x] \in D \cup {c}
            /\ frame'[holder[x]] = "waiting" /\ callee'[holder[x]] = x
        /\ \A x \in D \cup {c} : frame'[x] = "waiting" =>
             callee'[x] \in D /\ holder[callee'[x]] = x
        /\ \A x \in Coroutines \ (D \cup {c}) :
             /\ frame'[x] = frame[x] /\ callee'[x] = callee[x]
             /\ callerHandle'[x] = callerHandle[x]
        /\ fault' = "none" /\ \A x \in D : frame[x] # "final"
        /\ D \in SUBSET Awaitables
    BY <1>1, <1>2, <2>1, <2>2 DEF Active, Gone
  <2>4. /\ frame[c] = "running" /\ UNCHANGED <<holder, value, finished, yields, reported>>
        /\ frame'[c] = "waiting" /\ callerHandle'[c] = callerHandle[c]
        /\ frame' \in [Coroutines -> Frames]
        /\ callee' \in [Coroutines -> Coroutines \cup {None}]
        /\ callerHandle' \in [Coroutines -> Coroutines \cup {None}]
    BY <1>1, <2>2
  <2> HIDE DEF D
  <2> QED  BY SMTT(40), <2>3, <2>4, DownStep
<1>5. CASE ~IsFinished(d)
  <2>1. /\ callerHandle' = [callerHandle EXCEPT ![y] = c, ![d] = y]
        /\ callee' = [callee EXCEPT ![c] = y, ![y] = d]
        /\ frame' = [frame EXCEPT ![c] = "waiting", ![y] = "waiting", ![d] = "running"]
        /\ fault' = Resumed(d)
    BY <1>2, <1>5 DEF AwaitAny
  <2>2. /\ frame' \in [Coroutines -> Frames]
        /\ callee' \in [Coroutines -> Coroutines \cup {None}]
        /\ callerHandle' \in [Coroutines -> Coroutines \cup {None}]
        /\ frame'[c] = "waiting" /\ frame'[y] = "waiting" /\ frame'[d] = "running"
        /\ callee'[c] = y /\ callee'[y] = d
        /\ callerHandle'[y] = c /\ callerHandle'[d] = y
        /\ callerHandle'[c] = callerHandle[c]
        /\ \A x \in Coroutines \ {c, d, y} :
             /\ frame'[x] = frame[x] /\ callee'[x] = callee[x]
             /\ callerHandle'[x] = callerHandle[x]
    BY <1>1, <1>2, <1>3, <2>1 DEF TypeOK, Frames
  <2>3. {d, y} \in SUBSET Awaitables /\ frame[y] \notin Active \cup Gone
    BY <1>1, <1>2 DEF Active, Gone
  <2>4. \/ fault' = "none" /\ frame[d] # "final"
        \/ fault' = "resumed_done" /\ AwaitThrown
    BY <1>1, <1>3, <1>5, <2>1, AwaitedFacts
  <2> DEFINE D == {d, y}
  <2>5. /\ \A x \in D :
            /\ frame[x] \notin Active \cup Gone /\ frame'[x] \in {"running", "waiting"}
            /\ callerHandle'[x] = holder[x] /\ holder[x] \in D \cup {c}
            /\ frame'[holder[x]] = "waiting" /\ callee'[holder[x]] = x
        /\ \A x \in D \cup {c} : frame'[x] = "waiting" =>
             callee'[x] \in D /\ holder[callee'[x]] = x
        /\ \A x \in Coroutines \ (D \cup {c}) :
             /\ frame'[x] = frame[x] /\ callee'[x] = callee[x]
             /\ callerHandle'[x] = callerHandle[x]
        /\ \/ fault' = "none" /\ \A x \in D : frame[x] # "final"
           \/ fault' = "resumed_done" /\ AwaitThrown
        /\ D \in SUBSET Awaitables
    BY <1>1, <1>2, <1>3, <2>2, <2>3, <2>4
  <2>6. /\ frame[c] = "running" /\ UNCHANGED <<holder, value, finished, yields, reported>>
        /\ frame'[c] = "waiting" /\ callerHandle'[c] = callerHandle[c]
        /\ frame' \in [Coroutines -> Frames]
        /\ callee' \in [Coroutines -> Coroutines \cup {None}]
        /\ callerHandle' \in [Coroutines -> Coroutines \cup {None}]
    BY <1>1, <2>2
  <2> HIDE DEF D
  <2> QED  BY SMTT(40), <2>5, <2>6, DownStep
<1> QED
  BY <1>4, <1>5

-----------------------------------------------------------------------------
\* A coroutine function is called.
LEMMA CreateStep ==
  ASSUME Inv, fault = "none", kind' = kind, NEW c \in Coroutines \ Anys,
         NEW d \in Coroutines, Create(c, d)
  PROVE  Inv'
<1>1. /\ TypeOK /\ TreeInv /\ KindInv /\ frame[c] = "running" /\ c # d
      /\ frame[d] = "uncreated" /\ d \in Branches \cup Lazies \cup Generators
      /\ d \notin Entries /\ d \notin Anys /\ kind[d] # "none"
      /\ UNCHANGED <<callee, promise, yields, reported, fault>>
      /\ Entries' = Entries /\ Branches' = Branches /\ Lazies' = Lazies
      /\ Generators' = Generators /\ Anys' = Anys
  BY KindFacts, SameKinds
  DEF Inv, Create, Branches, Lazies, Generators, Awaitables
<1>2. /\ frame' \in [Coroutines -> Frames] /\ frame'[d] = "initial"
      /\ \A x \in Coroutines \ {d} : frame'[x] = frame[x]
      /\ holder' \in [Coroutines -> Coroutines \cup {None}] /\ holder'[d] = c
      /\ \A x \in Coroutines \ {d} : holder'[x] = holder[x]
  BY <1>1 DEF Create, TypeOK, Frames
<1>3. \A x \in Coroutines : holder[x] # d
  BY <1>1, CallsAssumption DEF TreeInv
<1>4. Forest'
  <2> SUFFICES ASSUME NEW S \in (SUBSET Coroutines) \ {{}},
                      \A x \in S : holder'[x] \in S
               PROVE  FALSE
    BY DEF Forest
  <2>1. CASE d \in S
    <3>1. S \ {d} \in (SUBSET Coroutines) \ {{}}
      BY <1>1, <1>2, <2>1
    <3>2. \A x \in S \ {d} : holder[x] \in S \ {d}
      BY <1>2, <1>3
    <3> QED  BY <1>1, <3>1, <3>2 DEF TreeInv, Forest
  <2>2. CASE d \notin S
    <3>1. \A x \in S : holder[x] \in S
      BY <1>2, <2>2
    <3> QED  BY <1>1, <3>1 DEF TreeInv, Forest
  <2> QED  BY <2>1, <2>2
<1>5. TreeInv'
  <2> SUFFICES ASSUME NEW x \in Coroutines
      PROVE  /\ frame'[x] = "uncreated" \/ x \in Entries => holder'[x] = None
             /\ holder'[x] # None => frame'[holder'[x]] # "uncreated"
             /\ holder'[x] \in Anys => x \in Lazies \cup Generators
             /\ frame'[x] \notin Gone /\ x \notin Entries =>
                  holder'[x] \in Coroutines /\ frame'[holder'[x]] \notin Gone
    BY <1>1, <1>4 DEF TreeInv, Alive
  <2>1. CASE x = d
    BY <1>1, <1>2, <2>1 DEF Gone
  <2>2. CASE x # d
    <3>1. holder[x] \in Coroutines \cup {None} /\ holder[x] # d
      BY <1>1, <1>3 DEF TypeOK
    <3> QED  BY <1>1, <1>2, <2>2, <3>1 DEF TreeInv, Alive
  <2> QED  BY <2>1, <2>2
<1>6. KindInv'
  <2> SUFFICES ASSUME NEW x \in Coroutines
      PROVE  /\ x \in Entries => frame'[x] \in Active \cup {"initial", "destroyed"}
             /\ x \in Branches => frame'[x] \in Active \cup {"initial", "final"} \cup Gone
             /\ x \in Lazies =>
                  /\ frame'[x] \in Active \cup {"initial", "final"} \cup Gone
                  /\ frame'[x] = "final" => value[x] # "none"
             /\ x \in Generators =>
                  frame'[x] \in Active \cup {"initial", "yielded", "final"} \cup Gone
             /\ x \in Anys => frame'[x] \in {"empty", "running", "waiting"} \cup Gone
             /\ kind[x] = "none" => frame'[x] = "uncreated"
    BY <1>1 DEF KindInv, promise
  <2>1. CASE x = d
    BY <1>1, <1>2, <2>1
  <2>2. CASE x # d
    BY <1>1, <1>2, <2>2 DEF KindInv
  <2> QED  BY <2>1, <2>2
<1>7. {d} \in SUBSET Coroutines /\ frame[d] \notin Active
  BY <1>1 DEF Active
<1> QED
  BY <1>1, <1>2, <1>5, <1>6, <1>7, HolderStep

\* An AnyAwaitable is made of an object.
LEMMA WrapStep ==
  ASSUME Inv, fault = "none", kind' = kind, NEW c \in Coroutines \ Anys,
         NEW y \in Anys, NEW d \in Coroutines, Wrap(c, y, d)
  PROVE  Inv'
<1>1. /\ TypeOK /\ TreeInv /\ KindInv /\ ChainInv /\ frame[c] = "running"
      /\ y \in Coroutines /\ y # c /\ frame[y] = "uncreated" /\ holder[d] = c
      /\ Alive(d) /\ d \in Lazies \cup Generators /\ d # y
      /\ d \notin Entries /\ y \notin Entries /\ kind[y] # "none"
      /\ y \notin Branches /\ y \notin Lazies /\ y \notin Generators
      /\ UNCHANGED <<callee, promise, yields, reported, fault>>
      /\ Entries' = Entries /\ Branches' = Branches /\ Lazies' = Lazies
      /\ Generators' = Generators /\ Anys' = Anys
  BY KindFacts, SameKinds DEF Inv, Wrap, Anys, Awaitables, Alive, Gone
<1>2. /\ frame' \in [Coroutines -> Frames] /\ frame'[y] = "empty"
      /\ \A x \in Coroutines \ {y} : frame'[x] = frame[x]
      /\ holder' \in [Coroutines -> Coroutines \cup {None}]
      /\ holder'[y] = c /\ holder'[d] = y
      /\ \A x \in Coroutines \ {d, y} : holder'[x] = holder[x]
  BY <1>1 DEF Wrap, TypeOK, Frames
<1>3. \A x \in Coroutines : holder[x] # y
  BY <1>1, CallsAssumption DEF TreeInv
<1>4. Forest'
  <2> SUFFICES ASSUME NEW S \in (SUBSET Coroutines) \ {{}},
                      \A x \in S : holder'[x] \in S
               PROVE  FALSE
    BY DEF Forest
  <2>1. CASE y \in S
    <3>1. S \ {y} \in (SUBSET Coroutines) \ {{}} /\ c \in S \ {y}
      BY <1>1, <1>2, <2>1
    <3>2. \A x \in S \ {y} : holder[x] \in S \ {y}
      BY <1>1, <1>2, <1>3, <3>1
    <3> QED  BY <1>1, <3>1, <3>2 DEF TreeInv, Forest
  <2>2. CASE y \notin S
    <3>1. d \notin S
      BY <1>2, <2>2
    <3>2. \A x \in S : holder[x] \in S
      BY <1>2, <2>2, <3>1
    <3> QED  BY <1>1, <3>2 DEF TreeInv, Forest
  <2> QED  BY <2>1, <2>2
<1>5. TreeInv'
  <2> SUFFICES ASSUME NEW x \in Coroutines
      PROVE  /\ frame'[x] = "uncreated" \/ x \in Entries => holder'[x] = None
             /\ holder'[x] # None => frame'[holder'[x]] # "uncreated"
             /\ holder'[x] \in Anys => x \in Lazies \cup Generators
             /\ frame'[x] \notin Gone /\ x \notin Entries =>
                  holder'[x] \in Coroutines /\ frame'[holder'[x]] \notin Gone
    BY <1>1, <1>4 DEF TreeInv, Alive
  <2>1. CASE x = d
    BY <1>1, <1>2, <2>1 DEF Gone, Alive
  <2>2. CASE x = y
    BY <1>1, <1>2, <2>2 DEF Gone
  <2>3. CASE x \notin {d, y}
    <3>1. holder[x] \in Coroutines \cup {None} /\ holder[x] # y
      BY <1>1, <1>3 DEF TypeOK
    <3> QED  BY <1>1, <1>2, <2>3, <3>1 DEF TreeInv, Alive
  <2> QED  BY <2>1, <2>2, <2>3
<1>6. KindInv'
  <2> SUFFICES ASSUME NEW x \in Coroutines
      PROVE  /\ x \in Entries => frame'[x] \in Active \cup {"initial", "destroyed"}
             /\ x \in Branches => frame'[x] \in Active \cup {"initial", "final"} \cup Gone
             /\ x \in Lazies =>
                  /\ frame'[x] \in Active \cup {"initial", "final"} \cup Gone
                  /\ frame'[x] = "final" => value[x] # "none"
             /\ x \in Generators =>
                  frame'[x] \in Active \cup {"initial", "yielded", "final"} \cup Gone
             /\ x \in Anys => frame'[x] \in {"empty", "running", "waiting"} \cup Gone
             /\ kind[x] = "none" => frame'[x] = "uncreated"
    BY <1>1 DEF KindInv, promise
  <2>1. CASE x = y
    BY <1>1, <1>2, <2>1
  <2>2. CASE x # y
    BY <1>1, <1>2, <2>2 DEF KindInv
  <2> QED  BY <2>1, <2>2
<1>7. frame[y] \notin Active /\ frame[d] \notin Active
  BY <1>1, HeldInactive DEF Active, Held
<1> DEFINE D == {d, y}
<1>8. /\ D \in SUBSET Coroutines
      /\ \A x \in D :
           /\ frame[x] \notin Active
           /\ \/ frame'[x] = frame[x]
              \/ frame[x] = "uncreated" /\ frame'[x] \in {"initial", "empty"}
      /\ \A x \in Coroutines \ D : frame'[x] = frame[x] /\ holder'[x] = holder[x]
  BY <1>1, <1>2, <1>7
<1>9. /\ UNCHANGED <<kind, callee, promise, yields, reported, fault>>
      /\ frame' \in [Coroutines -> Frames]
      /\ holder' \in [Coroutines -> Coroutines \cup {None}]
  BY <1>1, <1>2
<1> HIDE DEF D
<1> QED
  BY <1>5, <1>6, <1>8, <1>9, HolderStep

\* An object is moved into the argument of a coroutine that has not begun.
LEMMA MoveStep ==
  ASSUME Inv, fault = "none", kind' = kind, NEW c \in Coroutines,
         NEW d \in Held(c), NEW e \in Held(c), Move(c, d, e)
  PROVE  Inv'
<1>1. /\ TypeOK /\ TreeInv /\ KindInv /\ ChainInv /\ frame[c] = "running"
      /\ d \in Coroutines /\ e \in Coroutines /\ holder[d] = c /\ holder[e] = c
      /\ d # e /\ Alive(d) /\ frame[e] = "initial" /\ d \notin Entries
      /\ e \notin Anys
      /\ UNCHANGED <<frame, callee, promise, yields, reported, fault>>
      /\ Entries' = Entries /\ Branches' = Branches /\ Lazies' = Lazies
      /\ Generators' = Generators /\ Anys' = Anys
  BY SameKinds, CallsAssumption DEF Inv, Move, Held, TreeInv, KindInv, Gone
<1>2. /\ holder' \in [Coroutines -> Coroutines \cup {None}] /\ holder'[d] = e
      /\ \A x \in Coroutines \ {d} : holder'[x] = holder[x]
      /\ frame' \in [Coroutines -> Frames]
  BY <1>1 DEF Move, TypeOK, Frames
<1>3. Forest'
  <2> SUFFICES ASSUME NEW S \in (SUBSET Coroutines) \ {{}},
                      \A x \in S : holder'[x] \in S
               PROVE  FALSE
    BY DEF Forest
  <2>1. CASE d \in S
    <3>1. e \in S /\ c \in S
      BY <1>1, <1>2, <2>1
    <3>2. \A x \in S : holder[x] \in S
      BY <1>1, <1>2, <3>1
    <3> QED  BY <1>1, <3>2 DEF TreeInv, Forest
  <2>2. CASE d \notin S
    <3>1. \A x \in S : holder[x] \in S
      BY <1>2, <2>2
    <3> QED  BY <1>1, <3>1 DEF TreeInv, Forest
  <2> QED  BY <2>1, <2>2
<1>4. TreeInv'
  <2> SUFFICES ASSUME NEW x \in Coroutines
      PROVE  /\ frame[x] = "uncreated" \/ x \in Entries => holder'[x] = None
             /\ holder'[x] # None => frame[holder'[x]] # "uncreated"
             /\ holder'[x] \in Anys => x \in Lazies \cup Generators
             /\ Alive(x) /\ x \notin Entries =>
                  holder'[x] \in Coroutines /\ Alive(holder'[x])
    BY <1>1, <1>3 DEF TreeInv, Alive
  <2>1. CASE x = d
    BY <1>1, <1>2, <2>1 DEF Gone, Alive
  <2>2. CASE x # d
    BY <1>1, <1>2, <2>2 DEF TreeInv
  <2> QED  BY <2>1, <2>2
<1>5. KindInv'
  BY <1>1 DEF KindInv, promise
<1>6. frame[d] \notin Active /\ {d} \in SUBSET Coroutines
  BY <1>1, HeldInactive
<1> QED
  BY <1>1, <1>2, <1>4, <1>5, <1>6, HolderStep

-----------------------------------------------------------------------------
\* A coroutine suspends, is resumed, launches branches or is launched.
LEMMA ResumeStep ==
  ASSUME Inv, fault = "none", kind' = kind, NEW c \in Coroutines,
         \/ Begin(c) \/ Happen(c) \/ Launch(c)
         \/ c \notin Anys /\ (Suspend(c) \/ Collect(c))
  PROVE  Inv'
<1>1. UNCHANGED <<kind, holder, callee, promise, yields, reported, fault>>
  BY DEF Begin, Happen, Launch, Suspend, Collect
<1>2. Entries \cap Anys = {} /\ Branches \cap Anys = {} /\ ToLaunch \subseteq Branches
      /\ \A x \in Anys : frame[x] # "suspended"
  BY KindFacts DEF Inv, KindInv, Awaitables, ToLaunch, Anys, Gone
<1>3. CASE Begin(c)
  BY <1>1, <1>2, <1>3, LocalStep DEF Begin
<1>4. CASE Happen(c)
  BY <1>1, <1>2, <1>4, LocalStep DEF Happen
<1>5. CASE Launch(c)
  BY <1>1, <1>2, <1>5, LocalStep DEF Launch, ToLaunch
<1>6. CASE c \notin Anys /\ Suspend(c)
  BY <1>1, <1>6, LocalStep DEF Suspend
<1>7. CASE c \notin Anys /\ Collect(c)
  BY <1>1, <1>7, LocalStep DEF Collect
<1> QED
  BY <1>3, <1>4, <1>5, <1>6, <1>7

LEMMA InitInv == Init => Inv
<1> SUFFICES ASSUME Init PROVE Inv
  OBVIOUS
<1>1. /\ \A c \in Coroutines : frame[c] = IF c \in Entries THEN "initial" ELSE "uncreated"
      /\ \A c \in Coroutines : /\ holder[c] = None /\ callee[c] = None
                              /\ callerHandle[c] = None /\ value[c] = "none"
      /\ \A g \in Generators : yields[g] = 0 /\ reported[g] = 0
      /\ finished = {} /\ fault = "none" /\ None \notin Coroutines
      /\ frame \in [Coroutines -> Frames]
  BY CallsAssumption DEF Init, Frames
<1>2. TypeOK
  BY <1>1, CallsAssumption DEF Init, TypeOK, Frames
<1>3. TreeInv
  BY <1>1 DEF TreeInv, Forest, Alive, Gone, Anys
<1>4. KindInv
  BY <1>1, <1>2, KindFacts DEF KindInv, Gone, Awaitables, Active, Entries
<1>5. ChainInv
  BY <1>1, <1>2, KindFacts DEF ChainInv, Awaitables, Active
<1>6. GeneratorInv
  BY <1>1, <1>2, KindFacts DEF GeneratorInv, Generators, Awaitables
<1> QED
  BY <1>1, <1>2, <1>3, <1>4, <1>5, <1>6 DEF Inv

\* Every step keeps the invariant.
LEMMA InvStep ==
  ASSUME Inv, [Next]_vars, ~ByReference
  PROVE  Inv'
<1>1. CASE UNCHANGED vars
  BY <1>1, SameKinds
  DEF vars, promise, Inv, TypeOK, TreeInv, Forest, Alive, KindInv, ChainInv, GeneratorInv
<1>2. CASE Next
  <2>1. fault = "none" /\ kind' = kind
    BY <1>2 DEF Next
  <2>2. ASSUME NEW c \in Coroutines \ Anys, Body(c)
        PROVE  Inv'
    <3>1. ASSUME NEW d \in Coroutines, Create(c, d) \/ Drop(c, d) \/ Current(c, d)
          PROVE  Inv'
      BY <2>1, <3>1, CreateStep, DropStep, CurrentStep
    <3>2. ASSUME NEW d \in Held(c), NEW e \in Held(c), Move(c, d, e)
          PROVE  Inv'
      BY <2>1, <3>2, MoveStep
    <3>3. ASSUME NEW d \in Coroutines, AwaitReady(c, d) \/ AwaitSuspend(c, d)
          PROVE  Inv'
      BY <2>1, <3>3, ReadyStep, AwaitStep
    <3>4. ASSUME NEW y \in Anys, NEW d \in Coroutines, Wrap(c, y, d) \/ AwaitAny(c, y, d)
          PROVE  Inv'
      BY <2>1, <3>4, WrapStep, AwaitAnyStep
    <3>5. ASSUME NEW r \in {"value", "exception"}, ReturnLazy(c, r)
          PROVE  Inv'
      <4>1. c \in Lazies \/ c \in Branches
        BY <3>5 DEF ReturnLazy
      <4> QED  BY <2>1, <3>5, <4>1, LazyStep, BranchStep
    <3>6. CASE Suspend(c) \/ Collect(c)
      BY <2>1, <3>6, ResumeStep
    <3>7. CASE ReturnEntry(c)
      BY <2>1, <3>7, EntryStep
    <3>8. CASE ReturnGenerator(c) \/ ThrowGenerator(c) \/ YieldValue(c)
      BY <2>1, <3>8, GeneratorStep
    <3> QED  BY <2>2, <3>1, <3>2, <3>3, <3>4, <3>5, <3>6, <3>7, <3>8 DEF Body
  <2>3. ASSUME NEW c \in Coroutines, ReturnAny(c)
        PROVE  Inv'
    BY <2>1, <2>3, AnyStep
  <2>4. ASSUME NEW c \in Coroutines, Begin(c) \/ Happen(c) \/ Launch(c)
        PROVE  Inv'
    BY <2>1, <2>4, ResumeStep
  <2>5. ASSUME NEW c \in Coroutines, Collected(c) \/ Abort(c)
        PROVE  Inv'
    BY <2>1, <2>5, CollectedStep, AbortStep
  <2> QED  BY <1>2, <2>2, <2>3, <2>4, <2>5 DEF Next
<1> QED
  BY <1>1, <1>2

-----------------------------------------------------------------------------
\* The branches of gather and select await what is in their own frames: no
\* branch is left with the handle of a coroutine that is destroyed before it.
LEMMA InvHolds == ASSUME ~ByReference PROVE Spec => []Inv
<1>1. Init => Inv
  BY InitInv
<1>2. Inv /\ [Next]_vars => Inv'
  BY InvStep
<1> QED
  BY <1>1, <1>2, PTL DEF Spec

\* Every variable keeps its type, whatever the program awaits and moves.
THEOREM TypeCorrect == ASSUME ~ByReference PROVE Spec => []TypeOK
<1>1. Inv => TypeOK
  BY DEF Inv
<1> QED
  BY <1>1, InvHolds, PTL

\* FinalAwaiter and YieldAwaiter never resume a caller that was destroyed
\* while it waited, by a select that is over or with an aborted task.
THEOREM NoDeadCaller == ASSUME ~ByReference PROVE Spec => []NoDeadResume
<1>1. Inv => NoDeadResume
  BY DEF Inv, NoDeadResume
<1> QED
  BY <1>1, InvHolds, PTL

\* No coroutine is resumed while it waits for something else: an object that
\* is awaited is where nobody else can await it.
THEOREM OneAwaiter == ASSUME ~ByReference PROVE Spec => []NoEarlyResume
<1>1. Inv => NoEarlyResume
  BY DEF Inv, NoEarlyResume
<1> QED
  BY <1>1, InvHolds, PTL

\* Unless a program awaits a Generator again that threw, no coroutine is
\* resumed past its end: await_ready knows every other end.
THEOREM EndIsKnown == ASSUME ~ByReference, ~AwaitThrown PROVE Spec => []NoDoneResume
<1>1. Inv => NoDoneResume
  BY DEF Inv, NoDoneResume
<1> QED
  BY <1>1, InvHolds, PTL

\* The lazy_ of an AnyAwaitable is assigned a new Lazy only when it has no
\* frame to lose.
THEOREM AnyIsEmpty == ASSUME ~ByReference PROVE Spec => []NoLeak
<1>1. Inv => NoLeak
  BY DEF Inv, NoLeak
<1> QED
  BY <1>1, InvHolds, PTL

\* Whoever waits in a co_await waits for a live coroutine under way, which has
\* its handle: however deep the chain of callers, and wherever the objects of
\* finished awaits have been moved since.
THEOREM ChainUnbroken == ASSUME ~ByReference PROVE Spec => []Chained
<1>1. ASSUME Inv PROVE Chained
  <2> SUFFICES ASSUME fault = "none", NEW c \in Coroutines, frame[c] = "waiting"
               PROVE  /\ callerHandle[callee[c]] = c
                      /\ frame[callee[c]] \in Active
    BY DEF Chained, Active
  <2>1. /\ callee[c] \in Awaitables /\ frame[callee[c]] \in Active
        /\ holder[callee[c]] = c /\ callee[c] \in Coroutines
    BY <1>1 DEF Inv, ChainInv, Awaitables, Lazies, Generators, Anys
  <2>2. callerHandle[callee[c]] = holder[callee[c]]
    BY <1>1, <2>1 DEF Inv, ChainInv
  <2> QED  BY <2>1, <2>2
<1> QED
  BY <1>1, InvHolds, PTL

\* A coroutine goes with the frame its object is in, at every depth: nothing
\* that an aborted task or a cancelled branch held runs on.
THEOREM GoesWithHolder == ASSUME ~ByReference PROVE Spec => []NoOrphan
<1>1. Inv => NoOrphan
  BY DEF Inv, TreeInv, NoOrphan
<1> QED
  BY <1>1, InvHolds, PTL

\* co_await of a Generator said true as often as there was a co_yield, and
\* once more for an exception.
THEOREM AnswersTrue == ASSUME ~ByReference PROVE Spec => []TruthfulAnswers
<1>1. Inv => TruthfulAnswers
  BY DEF Inv, GeneratorInv, TruthfulAnswers
<1> QED
  BY <1>1, InvHolds, PTL
=============================================================================
