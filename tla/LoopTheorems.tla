----------------------------- MODULE LoopTheorems -----------------------------
(***************************************************************************)
(* What the proofs about loops share.  A loop is written in the            *)
(* specifications as a recursive function of the number of its turns.  Its *)
(* value after every turn follows by induction, and induction, with a set  *)
(* for the property, from the fact that < is well-founded on the naturals. *)
(***************************************************************************)
EXTENDS Integers, Sequences, WellFoundedInduction, TLAPS

(* Every set of numbers that is not empty has a least one. *)
LEMMA LeastNumber ==
    ASSUME NEW T, T \subseteq Nat, T # {}
    PROVE  \E n \in T : \A m \in T : n <= m
  <1> DEFINE R == OpToRel(<, Nat)
  <1>1. IsWellFoundedOn(R, Nat)
    BY NatLessThanWellFounded, Zenon
  <1>2. \E x \in T : \A y \in T : ~(<<y, x>> \in R)
    <2> HIDE DEF R
    <2> QED BY <1>1, WFMin, Zenon
  <1>3. \A x, y \in Nat : <<y, x>> \in R <=> y < x
    BY DEF OpToRel
  <1> HIDE DEF R
  <1>4. PICK x \in T : \A y \in T : ~(<<y, x>> \in R)
    BY <1>2
  <1>5. ASSUME NEW y \in T PROVE x <= y
    <2>1. x \in Nat /\ y \in Nat
      OBVIOUS
    <2>2. ~(y < x)
      BY <1>3, <1>4, <2>1, Zenon
    <2> QED BY <2>1, <2>2
  <1> QED BY <1>5

(* Induction, with a set of numbers for the property. *)
LEMMA Induction ==
    ASSUME NEW S, 0 \in S, \A n \in Nat : n \in S => n + 1 \in S
    PROVE  \A n \in Nat : n \in S
  <1> SUFFICES ASSUME NEW k \in Nat, k \notin S PROVE FALSE
    OBVIOUS
  <1> DEFINE T == Nat \ S
  <1>1. PICK n \in T : \A m \in T : n <= m
    BY LeastNumber, Zenon
  <1>2. n # 0 /\ n - 1 \in Nat
    BY <1>1
  <1>3. n - 1 \in S
    BY <1>1, <1>2
  <1> QED BY <1>1, <1>2, <1>3

(* The values g that a loop of n turns goes through. *)
LoopOf(g, n, V, first, turn) ==
    /\ g \in [0 .. n -> V]
    /\ g[0] = first /\ \A i \in 1 .. n : g[i] = turn[i][g[i - 1]]

(* A loop of n turns, each of which makes a value of V from the one before *)
(* it, has a value after every turn.                                       *)
LEMMA LoopValues ==
    ASSUME NEW n \in Nat, NEW V, NEW first \in V, NEW turn \in [1 .. n -> [V -> V]]
    PROVE  \E g : LoopOf(g, n, V, first, turn)
  <1> DEFINE Upto(m) == \E g \in [0 .. m -> V] :
                g[0] = first /\ \A i \in 1 .. m : g[i] = turn[i][g[i - 1]]
             S == {m \in Nat : m <= n => Upto(m)}
  <1>1. 0 \in S
    <2>1. [i \in 0 .. 0 |-> first] \in [0 .. 0 -> V] /\ [i \in 0 .. 0 |-> first][0] = first
      OBVIOUS
    <2>2. 1 .. 0 = {}
      OBVIOUS
    <2> QED BY <2>1, <2>2, Zenon
  <1>2. ASSUME NEW m \in Nat, m \in S PROVE m + 1 \in S
    <2> SUFFICES ASSUME m + 1 <= n PROVE Upto(m + 1)
      OBVIOUS
    <2>1. PICK g \in [0 .. m -> V] :
              g[0] = first /\ \A i \in 1 .. m : g[i] = turn[i][g[i - 1]]
      BY <1>2
    <2> DEFINE last == turn[m + 1][g[m]]
               h == [i \in 0 .. (m + 1) |-> IF i <= m THEN g[i] ELSE last]
    <2>2. last \in V
      <3>1. m + 1 \in 1 .. n /\ g[m] \in V
        OBVIOUS
      <3>2. turn[m + 1] \in [V -> V]
        BY <3>1, Zenon
      <3> QED BY <3>1, <3>2, Zenon
    <2> HIDE DEF last
    <2>3. h \in [0 .. (m + 1) -> V]
      BY <2>2
    <2>4. h[0] = first
      BY <2>1
    <2>5. ASSUME NEW i \in 1 .. (m + 1) PROVE h[i] = turn[i][h[i - 1]]
      <3>1. i - 1 \in 0 .. m /\ h[i - 1] = g[i - 1]
        OBVIOUS
      <3>2. CASE i <= m
        <4>1. i \in 1 .. m /\ h[i] = g[i]
          BY <3>2
        <4> QED BY <3>1, <4>1, <2>1
      <3>3. CASE i = m + 1
        <4>1. h[i] = last /\ i - 1 = m
          BY <3>3
        <4> QED BY <3>1, <3>3, <4>1 DEF last
      <3> QED BY <3>2, <3>3
    <2> HIDE DEF h
    <2> QED BY <2>3, <2>4, <2>5
  <1>3. \A m \in Nat : m \in S
    <2> HIDE DEF S
    <2> QED BY <1>1, <1>2, Induction
  <1> QED BY <1>3 DEF LoopOf

(* A value that such turns make of one in V stays in V. *)
LEMMA LoopStays ==
    ASSUME NEW n \in Nat, NEW V, NEW turn \in [1 .. n -> [V -> V]],
           NEW f, f[0] \in V,
           \A i \in 1 .. n : f[i - 1] \in V => f[i] = turn[i][f[i - 1]]
    PROVE  \A i \in 0 .. n : f[i] \in V
  <1> DEFINE S == {i \in Nat : i <= n => f[i] \in V}
  <1>1. 0 \in S
    OBVIOUS
  <1>2. ASSUME NEW i \in Nat, i \in S PROVE i + 1 \in S
    <2> SUFFICES ASSUME i + 1 <= n PROVE f[i + 1] \in V
      OBVIOUS
    <2>1. i + 1 \in 1 .. n /\ (i + 1) - 1 = i /\ f[i] \in V
      BY <1>2
    <2>2. f[i + 1] = turn[i + 1][f[i]]
      BY <2>1
    <2>3. turn[i + 1] \in [V -> V]
      BY <2>1, Zenon
    <2> QED BY <2>1, <2>2, <2>3, Zenon
  <1>3. \A i \in Nat : i \in S
    <2> HIDE DEF S
    <2> QED BY <1>1, <1>2, Induction
  <1> QED BY <1>3

(* A function on 1 .. n is a sequence of length n. *)
LEMMA SequenceOf ==
    ASSUME NEW S, NEW n \in Nat, NEW f \in [1 .. n -> S]
    PROVE  f \in Seq(S) /\ Len(f) = n
  OBVIOUS

(* A sequence over a set has its elements there. *)
LEMMA ElementsIn ==
    ASSUME NEW S, NEW s \in Seq(S), NEW i \in DOMAIN s
    PROVE  s[i] \in S
  OBVIOUS

(* One sequence after another. *)
LEMMA Joined ==
    ASSUME NEW S, NEW s \in Seq(S), NEW t \in Seq(S)
    PROVE  /\ s \o t \in Seq(S) /\ Len(s \o t) = Len(s) + Len(t)
           /\ \A i \in 1 .. Len(s) : (s \o t)[i] = s[i]
           /\ \A i \in 1 .. Len(t) : (s \o t)[Len(s) + i] = t[i]
  OBVIOUS
=============================================================================
