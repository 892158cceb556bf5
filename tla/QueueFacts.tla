----------------------------- MODULE QueueFacts -----------------------------
(***************************************************************************)
(* What posting a handler to a FIFO queue and running its first handler do *)
(* to the set of handlers in it, for the proofs about the modules whose    *)
(* executors are such queues (asio::post).                                 *)
(***************************************************************************)
EXTENDS Naturals, Sequences, TLAPS

\* The handlers in a queue, whatever their order.
Elements(s) == {s[i] : i \in DOMAIN s}

\* At most one of them is in S.
OneOf(s, S) == \A i, j \in DOMAIN s : s[i] \in S /\ s[j] \in S => i = j

-----------------------------------------------------------------------------
(***************************************************************************)
(* Appending a handler adds it, and keeps at most one of S if it does not  *)
(* add a second one (asio::post).                                          *)
(***************************************************************************)
LEMMA AppendFacts ==
  ASSUME NEW H, NEW s \in Seq(H), NEW h \in H
  PROVE  /\ Append(s, h) \in Seq(H)
         /\ Append(s, h) # <<>>
         /\ Elements(Append(s, h)) = Elements(s) \cup {h}
         /\ \A S : OneOf(s, S) /\ (h \in S => Elements(s) \cap S = {})
                     => OneOf(Append(s, h), S)
<1> DEFINE p == Append(s, h)
<1>1. /\ p \in Seq(H) /\ p # <<>>
      /\ DOMAIN s = 1..Len(s) /\ Len(s) \in Nat
      /\ DOMAIN p = 1..(Len(s) + 1)
      /\ p[Len(s) + 1] = h
      /\ \A i \in 1..Len(s) : p[i] = s[i]
  OBVIOUS
<1> HIDE DEF p
<1>2. Elements(p) = Elements(s) \cup {h}
  BY <1>1, SMT DEF Elements
<1>3. ASSUME NEW S, OneOf(s, S), h \in S => Elements(s) \cap S = {},
             NEW i \in DOMAIN p, NEW j \in DOMAIN p, p[i] \in S, p[j] \in S
      PROVE  i = j
  <2>1. \A k \in DOMAIN p :
          (k = Len(s) + 1 /\ p[k] = h) \/ (k \in DOMAIN s /\ p[k] = s[k])
    BY <1>1
  <2>2. CASE h \in S
    <3>1. \A k \in DOMAIN s : s[k] \notin S
      BY <1>3, <2>2 DEF Elements
    <3> QED  BY <1>3, <2>1, <3>1
  <2>3. CASE h \notin S
    <3>1. i \in DOMAIN s /\ s[i] \in S /\ j \in DOMAIN s /\ s[j] \in S
      BY <1>3, <2>1, <2>3
    <3> QED  BY <1>3, <3>1 DEF OneOf
  <2> QED  BY <2>2, <2>3
<1> QED
  BY <1>1, <1>2, <1>3 DEF OneOf, p

(***************************************************************************)
(* Running the first handler removes it and no other, and it was the one   *)
(* of S if there was at most one.                                          *)
(***************************************************************************)
LEMMA TailFacts ==
  ASSUME NEW H, NEW s \in Seq(H), s # <<>>
  PROVE  /\ Tail(s) \in Seq(H) /\ Head(s) \in H
         /\ Head(s) \in Elements(s)
         /\ Elements(Tail(s)) \subseteq Elements(s)
         /\ Elements(s) = Elements(Tail(s)) \cup {Head(s)}
         /\ \A S : OneOf(s, S) =>
              /\ OneOf(Tail(s), S)
              /\ Head(s) \in S => Elements(Tail(s)) \cap S = {}
<1> DEFINE t == Tail(s)
<1>1. /\ t \in Seq(H) /\ Head(s) = s[1] /\ Head(s) \in H
      /\ DOMAIN s = 1..Len(s) /\ Len(s) \in Nat /\ 1 \in DOMAIN s
      /\ DOMAIN t = 1..(Len(s) - 1)
      /\ \A i \in DOMAIN t : t[i] = s[i + 1]
  OBVIOUS
<1> HIDE DEF t
<1>2. \A i \in DOMAIN t : i + 1 \in DOMAIN s /\ i + 1 # 1 /\ t[i] = s[i + 1]
  BY <1>1
<1>3. \A i \in DOMAIN s :
        s[i] = Head(s) \/ (i - 1 \in DOMAIN t /\ t[i - 1] = s[i])
  <2> SUFFICES ASSUME NEW i \in DOMAIN s, i # 1
               PROVE  i - 1 \in DOMAIN t /\ t[i - 1] = s[i]
    BY <1>1
  <2>1. i - 1 \in DOMAIN t /\ (i - 1) + 1 = i
    BY <1>1
  <2> QED  BY <1>1, <2>1
<1>4. Elements(t) \subseteq Elements(s) /\ Head(s) \in Elements(s)
  BY <1>1, <1>2 DEF Elements
<1>5. Elements(s) \subseteq Elements(t) \cup {Head(s)}
  BY <1>3 DEF Elements
<1>6. ASSUME NEW S, OneOf(s, S) PROVE OneOf(t, S)
  <2>1. ASSUME NEW i \in DOMAIN t, NEW j \in DOMAIN t, t[i] \in S, t[j] \in S
        PROVE  i = j
    <3>1. i + 1 = j + 1
      BY <1>2, <1>6, <2>1 DEF OneOf
    <3> QED  BY <1>1, <3>1
  <2> QED  BY <2>1 DEF OneOf
<1>7. ASSUME NEW S, OneOf(s, S), Head(s) \in S, NEW i \in DOMAIN t, t[i] \in S
      PROVE  FALSE
  BY <1>1, <1>2, <1>7 DEF OneOf
<1> QED
  BY <1>1, <1>4, <1>5, <1>6, <1>7 DEF Elements, t
=============================================================================
