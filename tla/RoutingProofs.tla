---------------------------- MODULE RoutingProofs -----------------------------
(***************************************************************************)
(* Proofs about Broker and Router, for all sets of services, endpoints,    *)
(* message types, callers and batches.                                     *)
(*                                                                         *)
(* Broker: what a call sends to is fixed when it copies the subscribers    *)
(* under the lock, in the order of sortByPriority, an insertion sort that  *)
(* is proved to be one: a permutation, ordered, and stable.  The maps hold *)
(* exactly those who are subscribed, so a copy holds nobody who has left   *)
(* before it was made.                                                     *)
(*                                                                         *)
(* Router: the queue of DispatchBatch is container/heap's array.  Init     *)
(* makes it a heap, Pop takes a least item and leaves a heap of the rest;  *)
(* both come down to what "down" repairs.  The invariant then accounts for *)
(* every place of the batch: it is queued, in hand, or handled.            *)
(*                                                                         *)
(* The loops are reasoned about with LoopTheorems.                         *)
(***************************************************************************)
EXTENDS Broker, Router, LoopTheorems, FiniteSetTheorems

(* The results of one call's sends. *)
Outcomes == [sub : Subs, err : BOOLEAN]

(* All the subscribers of a call, in the order in which it sends to them. *)
OrderOf(done, rest) == [i \in DOMAIN done |-> done[i].sub] \o rest
Order(c) == OrderOf(results[c], todo[c])

(* The place of x in a sequence that holds it once. *)
Place(subs, x) == CHOOSE k \in DOMAIN subs : subs[k] = x

(* x is sent to before y: sortByPriority is stable. *)
Precedes(subs, x, y) ==
    \/ x.priority < y.priority
    \/ x.priority = y.priority /\ Place(subs, x) < Place(subs, y)

(* The maps: a subscriber is filed under its own name, and no route lists  *)
(* a service twice.                                                        *)
BMaps ==
    /\ subscribers \in [Services -> Subs \cup {NoSub}]
    /\ \A s \in Services : subscribers[s] # NoSub => subscribers[s].service = s
    /\ routes \in [Types -> Seq(Services)]
    /\ \A t \in Types : IsInjective(routes[t])

(* The caller is in Route. *)
InRoute(c) == call[c] # Idle /\ call[c].op = "route"

(* Route sends in the order of sortByPriority, to each subscriber once. *)
Sends(c) ==
    /\ call[c] = Idle => results[c] = <<>> /\ todo[c] = <<>>
    /\ call[c] # Idle => results[c] \in Seq(Outcomes) /\ todo[c] \in Seq(Subs)
    /\ InRoute(c) =>
        /\ call[c].targets \in Seq(Subs) /\ IsInjective(call[c].targets)
        /\ Order(c) = sortByPriority(call[c].targets)

(* What holds of all callers. *)
BCalls ==
    /\ DOMAIN todo = Callers /\ DOMAIN results = Callers /\ DOMAIN call = Callers
    /\ todo = [c \in Callers |-> todo[c]]
    /\ results = [c \in Callers |-> results[c]]
    /\ call = [c \in Callers |-> call[c]]
    /\ \A c \in Callers : Sends(c)

(* What a call sends to, against who is subscribed and who came or went    *)
(* since it began.                                                         *)
Follows(c) ==
    /\ call[c] = Idle => changed[c] = {}
    /\ call[c] # Idle =>
        /\ SendsTo(c) \ changed[c] \subseteq members
        /\ call[c].op = "fanout" => members \ changed[c] \subseteq SendsTo(c)

(* The map of subscribers is who is subscribed. *)
BHistory ==
    /\ members = Subscribed
    /\ DOMAIN changed = Callers /\ changed = [c \in Callers |-> changed[c]]
    /\ \A c \in Callers : Follows(c)

(* The inductive invariant of the broker. *)
BInv == BMaps /\ BCalls /\ BHistory
-----------------------------------------------------------------------------
(* What is inserted lands behind everything of its priority or a smaller   *)
(* number, and the rest keeps its order.                                   *)
LEMMA Inserted ==
    ASSUME NEW sub \in Subs, NEW sorted \in Seq(Subs)
    PROVE  \E n \in 0 .. Len(sorted) :
              LET out == InsertByPriority(sub, sorted) IN
              /\ out \in Seq(Subs) /\ Len(out) = Len(sorted) + 1
              /\ n = 0 \/ sorted[n].priority <= sub.priority
              /\ \A j \in n + 1 .. Len(sorted) : sorted[j].priority > sub.priority
              /\ \A j \in 1 .. n : out[j] = sorted[j]
              /\ out[n + 1] = sub
              /\ \A j \in n + 2 .. Len(out) : out[j] = sorted[j - 1]
  <1> DEFINE L == Len(sorted)
             Above(n) == \A j \in n + 1 .. L : sorted[j].priority > sub.priority
             Fits(n) == (n = 0 \/ sorted[n].priority <= sub.priority) /\ Above(n)
             T == {n \in 0 .. L : Above(n)}
  <1>1. L \in Nat /\ \A j \in 1 .. L : sorted[j] \in Subs /\ sorted[j].priority \in Nat
    BY BrokerAssumption
  <1>2. sub.priority \in Nat
    BY BrokerAssumption
  <1>3. \E n \in 0 .. L : Fits(n)
    <2> HIDE DEF L
    <2>1. L \in T
      BY <1>1
    <2>2. T \subseteq Nat /\ T # {}
      BY <2>1
    <2>3. PICK n \in T : \A m \in T : n <= m
      <3> HIDE DEF T
      <3> QED BY <2>2, LeastNumber, Zenon
    <2>4. CASE n = 0
      BY <2>4, <2>3
    <2>5. CASE n # 0
      <3>1. n - 1 \in 0 .. L /\ n - 1 \notin T
        <4>1. n \in 0 .. L
          BY <2>3
        <4>2. n - 1 \in 0 .. L /\ ~(n <= n - 1)
          BY <4>1, <2>5, <1>1
        <4> HIDE DEF T
        <4> QED BY <2>3, <4>2
      <3>2. PICK j \in n .. L : ~(sorted[j].priority > sub.priority)
        <4>1. ~Above(n - 1) /\ (n - 1) + 1 = n
          BY <3>1
        <4> QED BY <4>1
      <3>3. j = n
        BY <3>2, <2>3
      <3>4. sorted[n].priority \in Nat
        BY <2>5, <1>1
      <3> QED BY <3>2, <3>3, <3>4, <1>2
    <2> QED BY <2>4, <2>5
  <1> DEFINE n == CHOOSE n \in 0 .. L : Fits(n)
             left_ == SubSeq(sorted, 1, n)
             right_ == SubSeq(sorted, n + 1, L)
             out == left_ \o <<sub>> \o right_
  <1>4. n \in 0 .. L /\ Fits(n)
    <2> HIDE DEF Fits, L
    <2> QED BY <1>3, Zenon
  <1>5. InsertByPriority(sub, sorted) = out
    BY DEF InsertByPriority
  <1> HIDE DEF n
  <1>6. left_ \in Seq(Subs) /\ Len(left_) = n /\ \A j \in 1 .. n : left_[j] = sorted[j]
    BY <1>4, <1>1
  <1>7. right_ \in Seq(Subs) /\ Len(right_) = L - n /\ \A j \in 1 .. (L - n) : right_[j] = sorted[n + j]
    BY <1>4, <1>1
  <1> HIDE DEF left_, right_, L, Fits
  <1> DEFINE mid == left_ \o <<sub>>
  <1>8. mid \in Seq(Subs) /\ Len(mid) = n + 1 /\ mid[n + 1] = sub /\ \A j \in 1 .. n : mid[j] = sorted[j]
    BY <1>4, <1>6
  <1>9. out = mid \o right_
    OBVIOUS
  <1> HIDE DEF mid, out
  <1>10. out \in Seq(Subs) /\ Len(out) = L + 1
    BY <1>1, <1>4, <1>7, <1>8, <1>9
  <1>11. \A j \in 1 .. n : out[j] = sorted[j]
    BY <1>1, <1>4, <1>7, <1>8, <1>9
  <1>12. out[n + 1] = sub
    BY <1>1, <1>4, <1>7, <1>8, <1>9
  <1>13. ASSUME NEW j \in n + 2 .. L + 1 PROVE out[j] = sorted[j - 1]
    <2>1. j - (n + 1) \in 1 .. (L - n) /\ n + (j - (n + 1)) = j - 1
      BY <1>1, <1>4
    <2>2. out[j] = right_[j - (n + 1)]
      BY <1>1, <1>4, <1>7, <1>8, <1>9
    <2> QED BY <2>1, <2>2, <1>7
  <1> QED BY <1>4, <1>5, <1>10, <1>11, <1>12, <1>13, Zenon DEF L, Fits

(* The loop of sortByPriority: what is sorted after each of its turns. *)
LEMMA SortTurns ==
    ASSUME NEW subs \in Seq(Subs)
    PROVE  \E g \in [0 .. Len(subs) -> Seq(Subs)] :
              /\ g[0] = <<>>
              /\ \A i \in 1 .. Len(subs) : g[i] = InsertByPriority(subs[i], g[i - 1])
              /\ sortByPriority(subs) = g[Len(subs)]
  <1> DEFINE N == Len(subs)
             V == Seq(Subs)
             turn == [i \in 1 .. N |-> [v \in V |-> InsertByPriority(subs[i], v)]]
             Is(f) == f = [i \in 0 .. N |-> IF i = 0 THEN <<>> ELSE InsertByPriority(subs[i], f[i - 1])]
             f == CHOOSE f : Is(f)
  <1>1. N \in Nat /\ \A i \in 1 .. N : subs[i] \in Subs
    OBVIOUS
  <1>2. \A i \in 1 .. N, v \in V : InsertByPriority(subs[i], v) \in V
    BY <1>1, Inserted
  <1> HIDE DEF N
  <1>3. turn \in [1 .. N -> [V -> V]]
    BY <1>2
  <1>4. <<>> \in V
    OBVIOUS
  <1> HIDE DEF V
  <1>5. PICK g \in [0 .. N -> V] :
            g[0] = <<>> /\ \A i \in 1 .. N : g[i] = turn[i][g[i - 1]]
    <2> HIDE DEF turn
    <2>1. N \in Nat
      BY <1>1
    <2>2. \E g : LoopOf(g, N, V, <<>>, turn)
      BY <2>1, <1>3, <1>4, LoopValues, Zenon
    <2> QED BY <2>2, Zenon DEF LoopOf
  <1>6. ASSUME NEW i \in 1 .. N PROVE g[i] = InsertByPriority(subs[i], g[i - 1])
    <2>1. i - 1 \in 0 .. N
      BY <1>1
    <2>2. g[i - 1] \in V
      BY <2>1, Zenon
    <2>3. turn[i][g[i - 1]] = InsertByPriority(subs[i], g[i - 1])
      BY <2>2
    <2> QED BY <2>3, <1>5
  <1>7. Is(g)
    <2>1. ASSUME NEW i \in 0 .. N
          PROVE  g[i] = IF i = 0 THEN <<>> ELSE InsertByPriority(subs[i], g[i - 1])
      BY <1>1, <1>5, <1>6
    <2> QED BY <2>1, Zenon
  <1>8. Is(f)
    <2> HIDE DEF Is
    <2> QED BY <1>7, Zenon
  <1> HIDE DEF f
  <1>9. f[0] = <<>> /\ \A i \in 1 .. N : f[i] = InsertByPriority(subs[i], f[i - 1])
    <2>1. 0 \in 0 .. N /\ \A i \in 1 .. N : i \in 0 .. N /\ i # 0
      BY <1>1
    <2> QED BY <2>1, <1>8, Zenon
  <1>10. DOMAIN f = 0 .. N
    BY <1>8, Zenon
  <1>11. \A i \in 0 .. N : f[i] \in V
    <2> DEFINE S == {i \in Nat : i <= N => f[i] \in V}
    <2>1. 0 \in S
      BY <1>4, <1>9
    <2>2. ASSUME NEW i \in Nat, i \in S PROVE i + 1 \in S
      <3> SUFFICES ASSUME i + 1 <= N PROVE f[i + 1] \in V
        OBVIOUS
      <3>1. i + 1 \in 1 .. N /\ (i + 1) - 1 = i /\ f[i] \in V
        BY <2>2, <1>1
      <3> QED BY <3>1, <1>2, <1>9
    <2>3. \A i \in Nat : i \in S
      <3> HIDE DEF S
      <3> QED BY <2>1, <2>2, Induction
    <2> QED BY <2>3, <1>1
  <1>12. f \in [0 .. N -> V]
    BY <1>8, <1>11
  <1>13. sortByPriority(subs) = f[N]
    BY DEF sortByPriority, f, N
  <1> QED BY <1>9, <1>12, <1>13 DEF N, V

(* sortByPriority is a stable sort. *)
LEMMA Sorts ==
    ASSUME NEW subs \in Seq(Subs), IsInjective(subs)
    PROVE  LET out == sortByPriority(subs) IN
           /\ out \in Seq(Subs)
           /\ Range(out) = Range(subs)
           /\ \A i, j \in DOMAIN out : i < j => Precedes(subs, out[i], out[j])
  <1> DEFINE N == Len(subs)
             Done(out, k) ==
                /\ out \in Seq(Subs) /\ Len(out) = k
                /\ \A i \in 1 .. k : \E m \in 1 .. k : out[i] = subs[m]
                /\ \A m \in 1 .. k : \E i \in 1 .. k : out[i] = subs[m]
                /\ \A i, j \in 1 .. k : i < j => Precedes(subs, out[i], out[j])
  <1>1. N \in Nat /\ DOMAIN subs = 1 .. N /\ \A i \in 1 .. N : subs[i] \in Subs /\ subs[i].priority \in Nat
    BY BrokerAssumption
  <1>2. PICK g \in [0 .. N -> Seq(Subs)] :
              /\ g[0] = <<>>
              /\ \A i \in 1 .. N : g[i] = InsertByPriority(subs[i], g[i - 1])
              /\ sortByPriority(subs) = g[N]
    BY SortTurns
  <1> HIDE DEF N
  <1>3. \A m \in 1 .. N : Place(subs, subs[m]) = m
    BY <1>1 DEF Place, IsInjective
  <1> DEFINE S == {k \in Nat : k <= N => Done(g[k], k)}
  <1>4. 0 \in S
    BY <1>2
  <1>5. ASSUME NEW k \in Nat, k \in S PROVE k + 1 \in S
    <2> SUFFICES ASSUME k + 1 <= N PROVE Done(g[k + 1], k + 1)
      <3> HIDE DEF Done
      <3> QED OBVIOUS
    <2> DEFINE old == g[k]
               sub == subs[k + 1]
               out == g[k + 1]
    <2>1. Done(old, k)
      <3> HIDE DEF Done
      <3> QED BY <1>5, <1>1
    <2>2. k + 1 \in 1 .. N /\ (k + 1) - 1 = k /\ sub \in Subs /\ sub.priority \in Nat
      BY <1>1
    <2>3. out = InsertByPriority(sub, old)
      BY <2>2, <1>2
    <2>4. old \in Seq(Subs) /\ Len(old) = k
      BY <2>1
    <2> HIDE DEF old, sub, out, Done
    <2>5. PICK n \in 0 .. k :
              /\ out \in Seq(Subs) /\ Len(out) = k + 1
              /\ n = 0 \/ old[n].priority <= sub.priority
              /\ \A j \in n + 1 .. k : old[j].priority > sub.priority
              /\ \A j \in 1 .. n : out[j] = old[j]
              /\ out[n + 1] = sub
              /\ \A j \in n + 2 .. k + 1 : out[j] = old[j - 1]
      <3>1. \E n \in 0 .. Len(old) :
              /\ out \in Seq(Subs) /\ Len(out) = Len(old) + 1
              /\ n = 0 \/ old[n].priority <= sub.priority
              /\ \A j \in n + 1 .. Len(old) : old[j].priority > sub.priority
              /\ \A j \in 1 .. n : out[j] = old[j]
              /\ out[n + 1] = sub
              /\ \A j \in n + 2 .. Len(out) : out[j] = old[j - 1]
        <4> DEFINE made == InsertByPriority(sub, old)
        <4>1. sub \in Subs /\ old \in Seq(Subs)
          BY <2>2, <2>4
        <4>2. \E n \in 0 .. Len(old) :
              /\ made \in Seq(Subs) /\ Len(made) = Len(old) + 1
              /\ n = 0 \/ old[n].priority <= sub.priority
              /\ \A j \in n + 1 .. Len(old) : old[j].priority > sub.priority
              /\ \A j \in 1 .. n : made[j] = old[j]
              /\ made[n + 1] = sub
              /\ \A j \in n + 2 .. Len(made) : made[j] = old[j - 1]
          BY <4>1, Inserted, Zenon
        <4>3. made = out
          BY <2>3
        <4> HIDE DEF made
        <4> QED BY <4>2, <4>3, Zenon
      <3>2. Len(out) = k + 1
        BY <3>1, <2>4
      <3> QED BY <3>1, <3>2, <2>4, Zenon
    <2>6. \A i \in 1 .. k : old[i] \in Subs /\ old[i].priority \in Nat
      BY <2>4, BrokerAssumption
    <2>7. \A i \in 1 .. k : \E m \in 1 .. k : old[i] = subs[m]
      BY <2>1, Zenon DEF Done
    <2>8. \A m \in 1 .. k : \E i \in 1 .. k : old[i] = subs[m]
      BY <2>1 DEF Done
    <2>9. \A i, j \in 1 .. k : i < j => Precedes(subs, old[i], old[j])
      BY <2>1 DEF Done
    <2>10. Place(subs, sub) = k + 1
      BY <1>3, <2>2 DEF sub
    <2>11. \A i \in 1 .. k : Place(subs, old[i]) \in 1 .. k
      <3> TAKE i \in 1 .. k
      <3>1. PICK m \in 1 .. k : old[i] = subs[m]
        BY <2>7
      <3>2. m \in 1 .. N
        BY <2>2, <1>1
      <3> QED BY <3>1, <3>2, <1>3
    <2>12. ASSUME NEW i \in 1 .. k + 1 PROVE \E m \in 1 .. k + 1 : out[i] = subs[m]
      <3>1. CASE i <= n
        <4>1. i \in 1 .. k /\ out[i] = old[i]
          BY <3>1, <2>5
        <4> QED BY <4>1, <2>7
      <3>2. CASE i = n + 1
        BY <3>2, <2>5 DEF sub
      <3>3. CASE i > n + 1
        <4>1. i - 1 \in 1 .. k /\ out[i] = old[i - 1]
          BY <3>3, <2>5
        <4> QED BY <4>1, <2>7
      <3> QED BY <3>1, <3>2, <3>3
    <2>13. ASSUME NEW m \in 1 .. k + 1 PROVE \E i \in 1 .. k + 1 : out[i] = subs[m]
      <3>1. CASE m = k + 1
        BY <3>1, <2>5 DEF sub
      <3>2. CASE m \in 1 .. k
        <4>1. PICK i \in 1 .. k : old[i] = subs[m]
          BY <3>2, <2>8
        <4>2. CASE i <= n
          BY <4>1, <4>2, <2>5
        <4>3. CASE i > n
          <5>1. i + 1 \in n + 2 .. k + 1 /\ (i + 1) - 1 = i
            BY <4>3
          <5>2. i + 1 \in 1 .. k + 1
            OBVIOUS
          <5>3. out[i + 1] = old[i]
            BY <5>1, <2>5
          <5> QED BY <5>2, <5>3, <4>1
        <4> QED BY <4>2, <4>3
      <3> QED BY <3>1, <3>2
    <2>14. ASSUME NEW i \in 1 .. k + 1, NEW j \in 1 .. k + 1, i < j
           PROVE  Precedes(subs, out[i], out[j])
      <3>1. CASE j <= n
        <4>1. i \in 1 .. k /\ j \in 1 .. k /\ out[i] = old[i] /\ out[j] = old[j]
          <5>1. i \in 1 .. n /\ j \in 1 .. n /\ i \in 1 .. k /\ j \in 1 .. k
            BY <2>14, <3>1
          <5> QED BY <5>1, <2>5
        <4> QED BY <4>1, <2>9, <2>14
      <3>2. CASE i <= n /\ j = n + 1
        <4>1. i \in 1 .. k /\ n \in 1 .. k /\ out[i] = old[i] /\ out[j] = sub /\ old[n].priority <= sub.priority
          <5>1. i \in 1 .. n /\ n # 0 /\ i \in 1 .. k /\ n \in 1 .. k
            BY <2>5, <3>2
          <5>2. out[i] = old[i] /\ out[n + 1] = sub /\ old[n].priority <= sub.priority
            BY <2>5, <5>1, Zenon
          <5> QED BY <3>2, <5>1, <5>2, Zenon
        <4>2. old[i].priority <= old[n].priority
          <5>1. CASE i = n
            BY <5>1, <4>1, <2>6
          <5>2. CASE i < n
            BY <5>2, <4>1, <2>6, <2>9 DEF Precedes
          <5> QED BY <5>1, <5>2, <3>2
        <4>3. old[i].priority <= sub.priority
          BY <4>1, <4>2, <2>2, <2>6, SMTT(30)
        <4>4. Place(subs, old[i]) < Place(subs, sub)
          BY <4>1, <2>10, <2>11
        <4> QED BY <4>1, <4>3, <4>4, <2>2, <2>6 DEF Precedes
      <3>3. CASE i <= n /\ j > n + 1
        <4>1. i \in 1 .. k /\ j - 1 \in 1 .. k /\ i < j - 1 /\ out[i] = old[i] /\ out[j] = old[j - 1]
          <5>1. /\ i \in 1 .. n /\ i \in 1 .. k /\ j - 1 \in 1 .. k /\ i < j - 1
                /\ j \in n + 2 .. k + 1
            BY <2>5, <3>3
          <5> QED BY <2>5, <5>1, Zenon
        <4> QED BY <4>1, <2>9
      <3>4. CASE i = n + 1
        <4>1. j - 1 \in n + 1 .. k /\ out[i] = sub /\ out[j] = old[j - 1]
          <5>1. j - 1 \in n + 1 .. k /\ j \in n + 2 .. k + 1
            BY <2>5, <2>14, <3>4
          <5> QED BY <2>5, <3>4, <5>1, Zenon
        <4>2. j - 1 \in 1 .. k /\ old[j - 1].priority > sub.priority
          BY <4>1, <2>5
        <4> QED BY <4>1, <4>2, <2>2, <2>6 DEF Precedes
      <3>5. CASE i > n + 1
        <4>1. i - 1 \in 1 .. k /\ j - 1 \in 1 .. k /\ i - 1 < j - 1 /\ out[i] = old[i - 1] /\ out[j] = old[j - 1]
          <5>1. /\ i - 1 \in 1 .. k /\ j - 1 \in 1 .. k /\ i - 1 < j - 1
                /\ i \in n + 2 .. k + 1 /\ j \in n + 2 .. k + 1
            BY <2>5, <2>14, <3>5
          <5> QED BY <2>5, <5>1, Zenon
        <4> QED BY <4>1, <2>9
      <3> QED BY <2>14, <3>1, <3>2, <3>3, <3>4, <3>5
    <2>15. Done(out, k + 1)
      BY <2>5, <2>12, <2>13, <2>14 DEF Done
    <2> QED BY <2>15 DEF out
  <1>6. \A k \in Nat : k \in S
    <2> HIDE DEF S
    <2> QED BY <1>4, <1>5, Induction
  <1> DEFINE out == sortByPriority(subs)
  <1>7. Done(out, N)
    <2> HIDE DEF Done
    <2>1. N \in S /\ N <= N
      BY <1>1, <1>6
    <2> QED BY <2>1, <1>2
  <1> HIDE DEF out
  <1>8. DOMAIN out = 1 .. N /\ out \in Seq(Subs)
    BY <1>7
  <1>9. Range(out) = Range(subs)
    <2>1. \A i \in 1 .. N : \E m \in 1 .. N : out[i] = subs[m]
      BY <1>7
    <2>2. \A m \in 1 .. N : \E i \in 1 .. N : out[i] = subs[m]
      BY <1>7
    <2>3. Range(out) = {out[i] : i \in 1 .. N} /\ Range(subs) = {subs[m] : m \in 1 .. N}
      BY <1>1, <1>8, Zenon DEF Range
    <2>4. ASSUME NEW x PROVE x \in Range(out) <=> x \in Range(subs)
      BY <2>1, <2>2, <2>3, Zenon
    <2> QED BY <2>4, Zenon
  <1>10. \A i, j \in DOMAIN out : i < j => Precedes(subs, out[i], out[j])
    BY <1>7, <1>8
  <1> QED BY <1>8, <1>9, <1>10 DEF out

(* AddRoute never enters a target twice. *)
LEMMA AddedOnce ==
    ASSUME NEW existing \in Seq(Services), IsInjective(existing), NEW target \in Services
    PROVE  Added(existing, target) \in Seq(Services) /\ IsInjective(Added(existing, target))
  <1> DEFINE n == Len(existing)
             out == Append(existing, target)
  <1>1. CASE target \in Range(existing)
    BY <1>1, Zenon DEF Added
  <1>2. CASE target \notin Range(existing)
    <2>1. n \in Nat /\ DOMAIN existing = 1 .. n
      OBVIOUS
    <2>2. out \in Seq(Services) /\ DOMAIN out = 1 .. (n + 1) /\ out[n + 1] = target
      OBVIOUS
    <2>3. \A i \in 1 .. n : out[i] = existing[i]
      OBVIOUS
    <2>4. \A i \in 1 .. n : existing[i] # target
      BY <1>2, <2>1, Zenon DEF Range
    <2> HIDE DEF n, out
    <2>5. ASSUME NEW i \in DOMAIN out, NEW j \in DOMAIN out, out[i] = out[j] PROVE i = j
      <3>1. CASE i \in 1 .. n /\ j \in 1 .. n
        BY <2>1, <2>3, <2>5, <3>1, Zenon DEF IsInjective
      <3>2. CASE ~(i \in 1 .. n) \/ ~(j \in 1 .. n)
        BY <2>1, <2>2, <2>3, <2>4, <2>5, <3>2
      <3> QED BY <3>1, <3>2
    <2>6. IsInjective(out)
      BY <2>5, Zenon DEF IsInjective
    <2> QED BY <1>2, <2>2, <2>6, Zenon DEF Added, out
  <1> QED BY <1>1, <1>2

(* RemoveRoute leaves the other targets as they are. *)
LEMMA RemovedOnce ==
    ASSUME NEW targets \in Seq(Services), IsInjective(targets), NEW target
    PROVE  Removed(targets, target) \in Seq(Services) /\ IsInjective(Removed(targets, target))
  <1> DEFINE n == Len(targets)
             IsFirst(i) == targets[i] = target /\ \A k \in 1 .. i - 1 : targets[k] # target
             T == {i \in 1 .. n : targets[i] = target}
             f == CHOOSE i \in DOMAIN targets : IsFirst(i)
             before == SubSeq(targets, 1, f - 1)
             after == SubSeq(targets, f + 1, n)
             out == before \o after
  <1>1. CASE target \notin Range(targets)
    BY <1>1, Zenon DEF Removed
  <1>2. CASE target \in Range(targets)
    <2>1. n \in Nat /\ DOMAIN targets = 1 .. n /\ \A i \in 1 .. n : targets[i] \in Services
      OBVIOUS
    <2>2. \E i \in DOMAIN targets : IsFirst(i)
      <3> HIDE DEF n
      <3>1. T \subseteq Nat /\ T # {}
        BY <1>2, <2>1 DEF Range
      <3>2. PICK i \in T : \A m \in T : i <= m
        <4> HIDE DEF T
        <4> QED BY <3>1, LeastNumber, Zenon
      <3>3. i \in 1 .. n /\ targets[i] = target
        BY <3>2
      <3>4. ASSUME NEW k \in 1 .. i - 1 PROVE targets[k] # target
        <4>1. k \in 1 .. n /\ ~(i <= k)
          BY <3>3, <2>1
        <4> QED BY <3>2, <4>1
      <3> QED BY <3>3, <3>4, <2>1
    <2>3. f \in DOMAIN targets
      <3> HIDE DEF IsFirst
      <3> QED BY <2>2, Zenon
    <2>4. Removed(targets, target) = out
      BY <1>2, Zenon DEF Removed
    <2> HIDE DEF f
    <2>5. f \in 1 .. n
      BY <2>1, <2>3
    <2>6. before \in Seq(Services) /\ Len(before) = f - 1 /\ \A j \in 1 .. f - 1 : before[j] = targets[j]
      BY <2>1, <2>5
    <2>7. after \in Seq(Services) /\ Len(after) = n - f /\ \A j \in 1 .. n - f : after[j] = targets[f + j]
      <3>1. f + 1 \in 1 .. n + 1 /\ n - (f + 1) + 1 = n - f /\ n - f \in Nat
        BY <2>1, <2>5
      <3>2. after = [j \in 1 .. (n - (f + 1) + 1) |-> targets[f + 1 + j - 1]]
        BY <2>1, <2>5
      <3>3. ASSUME NEW j \in 1 .. n - f PROVE f + 1 + j - 1 = f + j /\ f + j \in 1 .. n
        BY <2>1, <2>5
      <3> HIDE DEF after
      <3>4. after = [j \in 1 .. n - f |-> targets[f + j]]
        BY <3>1, <3>2, <3>3
      <3>5. after \in [1 .. n - f -> Services]
        BY <3>3, <3>4, <2>1
      <3>6. after \in Seq(Services) /\ Len(after) = n - f
        BY <3>1, <3>5, SequenceOf, Zenon
      <3> QED BY <3>4, <3>6, Zenon
    <2> HIDE DEF before, after, n
    <2>8. out \in Seq(Services) /\ DOMAIN out = 1 .. n - 1
      BY <2>1, <2>5, <2>6, <2>7
    <2>9. \A j \in 1 .. n - 1 : j < f => out[j] = targets[j]
      BY <2>1, <2>5, <2>6, <2>7
    <2>10. ASSUME NEW j \in 1 .. n - 1, ~(j < f) PROVE out[j] = targets[j + 1]
      <3>1. j - (f - 1) \in 1 .. n - f /\ f + (j - (f - 1)) = j + 1
        BY <2>1, <2>5, <2>10
      <3>2. out[j] = after[j - (f - 1)]
        BY <2>1, <2>5, <2>6, <2>7, <2>10
      <3> QED BY <3>1, <3>2, <2>7
    <2> HIDE DEF out
    <2>11. ASSUME NEW i \in DOMAIN out, NEW j \in DOMAIN out, out[i] = out[j] PROVE i = j
      <3> DEFINE at(k) == IF k < f THEN k ELSE k + 1
      <3>1. i \in 1 .. n - 1 /\ j \in 1 .. n - 1
        BY <2>8
      <3>2. at(i) \in 1 .. n /\ at(j) \in 1 .. n
        BY <3>1, <2>1, <2>5
      <3>3. out[i] = targets[at(i)] /\ out[j] = targets[at(j)]
        BY <3>1, <2>9, <2>10
      <3>4. at(i) = at(j)
        <4> HIDE DEF at
        <4> QED BY <3>2, <3>3, <2>1, <2>11, Zenon DEF IsInjective
      <3> QED BY <3>1, <3>4, <2>5
    <2>12. IsInjective(out)
      BY <2>11, Zenon DEF IsInjective
    <2> QED BY <2>4, <2>8, <2>12
  <1> QED BY <1>1, <1>2

(* Route sends to no subscriber twice: a type has no target twice, and the *)
(* subscriber of a target has the target's name.                           *)
LEMMA RoutedOnce ==
    ASSUME BMaps, NEW type \in Types
    PROVE  Routed(type) \in Seq(Subscribed) /\ IsInjective(Routed(type))
  <1> DEFINE targets == routes[type]
             N == Len(targets)
             V == Seq(Subscribed)
             of(i) == subscribers[targets[i]]
             add(i, v) == IF of(i) = NoSub THEN v ELSE Append(v, of(i))
             turn == [i \in 1 .. N |-> [v \in V |-> add(i, v)]]
             Is(f) == f = [i \in 0 .. N |-> IF i = 0 THEN <<>>
                              ELSE IF of(i) = NoSub THEN f[i - 1]
                              ELSE Append(f[i - 1], of(i))]
             f == CHOOSE f : Is(f)
  <1>1. targets \in Seq(Services) /\ IsInjective(targets)
    BY DEF BMaps
  <1>2. N \in Nat /\ DOMAIN targets = 1 .. N /\ \A i \in 1 .. N : targets[i] \in Services
    BY <1>1
  <1>3. Routed(type) = f[N]
    BY DEF Routed
  <1> HIDE DEF N, targets
  <1>4. \A i \in 1 .. N : of(i) # NoSub => of(i) \in Subscribed /\ of(i).service = targets[i]
    BY <1>2, Zenon DEF BMaps, Subscribed
  <1> HIDE DEF of
  <1>5. \A i \in 1 .. N, v \in V : add(i, v) \in V
    BY <1>4
  <1>6. turn \in [1 .. N -> [V -> V]]
    <2> HIDE DEF V, add
    <2> QED BY <1>5
  <1>7. <<>> \in V
    OBVIOUS
  <1> HIDE DEF V
  <1>8. PICK g \in [0 .. N -> V] : g[0] = <<>> /\ \A i \in 1 .. N : g[i] = turn[i][g[i - 1]]
    <2> HIDE DEF turn
    <2>1. N \in Nat
      BY <1>2
    <2>2. \E g : LoopOf(g, N, V, <<>>, turn)
      BY <2>1, <1>6, <1>7, LoopValues, Zenon
    <2> QED BY <2>2, Zenon DEF LoopOf
  <1>9. ASSUME NEW i \in 1 .. N PROVE g[i] = add(i, g[i - 1])
    <2>1. i - 1 \in 0 .. N
      BY <1>2
    <2>2. g[i - 1] \in V
      BY <2>1, Zenon
    <2> HIDE DEF add
    <2>3. turn[i][g[i - 1]] = add(i, g[i - 1])
      BY <2>2
    <2> QED BY <2>3, <1>8
  <1>10. Is(g)
    <2>1. ASSUME NEW i \in 0 .. N
          PROVE  g[i] = IF i = 0 THEN <<>> ELSE IF of(i) = NoSub THEN g[i - 1] ELSE Append(g[i - 1], of(i))
      <3>1. i = 0 \/ i \in 1 .. N
        BY <1>2
      <3>2. 0 \notin 1 .. N
        OBVIOUS
      <3> QED BY <3>1, <3>2, <1>8, <1>9, Zenon
    <2> QED BY <2>1, Zenon
  <1>11. Is(f)
    <2> HIDE DEF Is
    <2> QED BY <1>10, Zenon
  <1> HIDE DEF f
  <1>12. f[0] = <<>> /\ \A i \in 1 .. N : f[i] = add(i, f[i - 1])
    <2>1. 0 \in 0 .. N /\ \A i \in 1 .. N : i \in 0 .. N /\ i # 0
      BY <1>2
    <2> QED BY <2>1, <1>11, Zenon
  <1> DEFINE Of(v, i) == \A m \in DOMAIN v : \E k \in 1 .. i : v[m].service = targets[k]
             Good(v, i) == v \in V /\ IsInjective(v) /\ Of(v, i)
             S == {i \in Nat : i <= N => Good(f[i], i)}
  <1>13. 0 \in S
    BY <1>7, <1>12 DEF IsInjective
  <1>14. ASSUME NEW i \in Nat, i \in S PROVE i + 1 \in S
    <2> SUFFICES ASSUME i + 1 <= N PROVE Good(f[i + 1], i + 1)
      <3> HIDE DEF Good
      <3> QED OBVIOUS
    <2> DEFINE v == f[i]
               x == of(i + 1)
               L == Len(v)
               w == Append(v, x)
    <2>1. Good(v, i)
      <3> HIDE DEF Good
      <3> QED BY <1>14, <1>2
    <2>2. i + 1 \in 1 .. N /\ (i + 1) - 1 = i
      BY <1>2
    <2>3. f[i + 1] = add(i + 1, v)
      BY <2>2, <1>12
    <2> HIDE DEF v
    <2>4. CASE x = NoSub
      <3>1. f[i + 1] = v
        BY <2>3, <2>4
      <3> QED BY <2>1, <3>1
    <2>5. CASE x # NoSub
      <3>1. f[i + 1] = w
        BY <2>3, <2>5
      <3>2. x \in Subscribed /\ x.service = targets[i + 1]
        BY <1>4, <2>2, <2>5
      <3>3. v \in Seq(Subscribed)
        BY <2>1 DEF V
      <3>4. Of(v, i) /\ IsInjective(v)
        BY <2>1
      <3> HIDE DEF x
      <3>5. L \in Nat /\ DOMAIN v = 1 .. L
        BY <3>3
      <3>6. w \in Seq(Subscribed) /\ DOMAIN w = 1 .. (L + 1) /\ w[L + 1] = x
        BY <3>2, <3>3
      <3>7. \A m \in 1 .. L : w[m] = v[m]
        BY <3>2, <3>3
      <3> HIDE DEF L, w
      <3>8. ASSUME NEW m \in 1 .. L PROVE v[m] # x
        <4>1. PICK k \in 1 .. i : v[m].service = targets[k]
          BY <3>4, <3>5
        <4>2. k \in 1 .. N /\ k # i + 1
          BY <2>2, <1>2
        <4>3. targets[k] # targets[i + 1]
          BY <4>2, <2>2, <1>1, <1>2, Zenon DEF IsInjective
        <4> QED BY <4>1, <4>3, <3>2
      <3>9. ASSUME NEW a \in DOMAIN w, NEW b \in DOMAIN w, w[a] = w[b] PROVE a = b
        <4>1. CASE a \in 1 .. L /\ b \in 1 .. L
          BY <3>4, <3>5, <3>7, <3>9, <4>1, Zenon DEF IsInjective
        <4>2. CASE ~(a \in 1 .. L) \/ ~(b \in 1 .. L)
          BY <3>5, <3>6, <3>7, <3>8, <3>9, <4>2
        <4> QED BY <4>1, <4>2
      <3>10. IsInjective(w)
        BY <3>9, Zenon DEF IsInjective
      <3>11. ASSUME NEW m \in DOMAIN w PROVE \E k \in 1 .. i + 1 : w[m].service = targets[k]
        <4>1. CASE m \in 1 .. L
          <5>1. PICK k \in 1 .. i : v[m].service = targets[k]
            BY <3>4, <3>5, <4>1
          <5> QED BY <5>1, <3>7, <4>1
        <4>2. CASE m = L + 1
          BY <4>2, <3>2, <3>6
        <4> QED BY <4>1, <4>2, <3>5, <3>6
      <3> QED BY <3>1, <3>6, <3>10, <3>11 DEF V
    <2> QED BY <2>4, <2>5
  <1>15. \A i \in Nat : i \in S
    <2> HIDE DEF S
    <2> QED BY <1>13, <1>14, Induction
  <1>16. Good(f[N], N)
    <2> HIDE DEF Good
    <2>1. N \in S /\ N <= N
      BY <1>2, <1>15
    <2> QED BY <2>1
  <1> QED BY <1>3, <1>16 DEF V
-----------------------------------------------------------------------------
(* A Send moves the order of a call on by one, and does not change it. *)
LEMMA SendKeepsOrder ==
    ASSUME NEW done \in Seq(Outcomes), NEW rest \in Seq(Subs), rest # <<>>, NEW err \in BOOLEAN
    PROVE  LET more == Append(done, [sub |-> Head(rest), err |-> err]) IN
           /\ more \in Seq(Outcomes) /\ Tail(rest) \in Seq(Subs)
           /\ OrderOf(more, Tail(rest)) = OrderOf(done, rest)
  <1> DEFINE new == [sub |-> Head(rest), err |-> err]
             more == Append(done, new)
             n == Len(done)
             a == [i \in DOMAIN done |-> done[i].sub]
             b == [i \in DOMAIN more |-> more[i].sub]
             m == Len(rest)
             t == Tail(rest)
  <1>1. n \in Nat /\ DOMAIN done = 1 .. n /\ \A i \in 1 .. n : done[i] \in Outcomes
    OBVIOUS
  <1>2. m \in Nat /\ m # 0 /\ Len(rest) = m /\ Head(rest) = rest[1] /\ rest[1] \in Subs
    OBVIOUS
  <1>3. t \in Seq(Subs) /\ Len(t) = m - 1 /\ \A i \in 1 .. (m - 1) : t[i] = rest[i + 1]
    OBVIOUS
  <1>4. new \in Outcomes /\ new.sub = rest[1]
    BY <1>2 DEF Outcomes
  <1> HIDE DEF new
  <1>5. more \in Seq(Outcomes) /\ DOMAIN more = 1 .. (n + 1) /\ more[n + 1] = new
    BY <1>4
  <1>6. \A i \in 1 .. n : more[i] = done[i]
    BY <1>4
  <1> HIDE DEF more, n, m, t
  <1>7. a \in Seq(Subs) /\ Len(a) = n /\ \A i \in 1 .. n : a[i] = done[i].sub
    <2>1. \A i \in 1 .. n : done[i].sub \in Subs
      BY <1>1 DEF Outcomes
    <2> QED BY <2>1, <1>1
  <1>8. b \in Seq(Subs) /\ Len(b) = n + 1 /\ b[n + 1] = rest[1] /\ \A i \in 1 .. n : b[i] = done[i].sub
    <2>1. \A i \in 1 .. (n + 1) : more[i] \in Outcomes
      BY <1>5, ElementsIn, Zenon
    <2>2. \A i \in 1 .. (n + 1) : more[i].sub \in Subs
      BY <2>1, Zenon DEF Outcomes
    <2>3. b = [i \in 1 .. (n + 1) |-> more[i].sub]
      BY <1>5, Zenon
    <2> HIDE DEF b
    <2>4. b \in Seq(Subs) /\ Len(b) = n + 1
      BY <2>2, <2>3, <1>1
    <2> QED BY <2>3, <2>4, <1>1, <1>4, <1>5, <1>6
  <1> HIDE DEF a, b
  <1> DEFINE x == b \o t
             y == a \o rest
  <1>9. x \in Seq(Subs) /\ Len(x) = n + m /\ y \in Seq(Subs) /\ Len(y) = n + m
    <2>1. x \in Seq(Subs) /\ Len(x) = Len(b) + Len(t)
      BY <1>3, <1>8, Joined, Zenon
    <2>2. y \in Seq(Subs) /\ Len(y) = Len(a) + Len(rest)
      BY <1>7, Joined, Zenon
    <2> HIDE DEF x, y
    <2> QED BY <2>1, <2>2, <1>1, <1>2, <1>3, <1>7, <1>8, SMTT(30)
  <1>10. ASSUME NEW i \in 1 .. (n + m) PROVE x[i] = y[i]
    <2>1. /\ \A k \in 1 .. Len(b) : x[k] = b[k]
          /\ \A k \in 1 .. Len(t) : x[Len(b) + k] = t[k]
      <3>1. b \in Seq(Subs) /\ t \in Seq(Subs)
        BY <1>3, <1>8
      <3> QED BY <3>1, Joined
    <2>2. /\ \A k \in 1 .. Len(a) : y[k] = a[k]
          /\ \A k \in 1 .. Len(rest) : y[Len(a) + k] = rest[k]
      <3>1. a \in Seq(Subs)
        BY <1>7
      <3> QED BY <3>1, Joined
    <2> HIDE DEF x, y
    <2>3. CASE i \in 1 .. n
      <3>1. i \in 1 .. Len(b) /\ i \in 1 .. Len(a)
        BY <2>3, <1>1, <1>7, <1>8
      <3>2. x[i] = b[i] /\ y[i] = a[i]
        BY <3>1, <2>1, <2>2, Zenon
      <3>3. b[i] = done[i].sub /\ a[i] = done[i].sub
        BY <2>3, <1>7, <1>8, Zenon
      <3> QED BY <3>2, <3>3, Zenon
    <2>4. CASE i = n + 1
      <3>1. i \in 1 .. Len(b) /\ 1 \in 1 .. Len(rest) /\ i = Len(a) + 1
        BY <2>4, <1>1, <1>2, <1>7, <1>8
      <3>2. x[i] = b[n + 1] /\ y[i] = rest[1]
        BY <3>1, <2>1, <2>2, <2>4
      <3> QED BY <3>2, <1>8
    <2>5. CASE i > n + 1
      <3> DEFINE k == i - (n + 1)
      <3>1. k \in 1 .. Len(t) /\ i = Len(b) + k
        BY <2>5, <1>1, <1>2, <1>3, <1>8
      <3>2. k + 1 \in 1 .. Len(rest) /\ i = Len(a) + (k + 1) /\ k \in 1 .. (m - 1)
        BY <2>5, <1>1, <1>2, <1>7
      <3> HIDE DEF k
      <3>3. x[i] = t[k]
        BY <3>1, <2>1
      <3>4. y[i] = rest[k + 1]
        BY <3>2, <2>2
      <3> QED BY <3>2, <3>3, <3>4, <1>3
    <2> QED BY <2>3, <2>4, <2>5, <1>1, <1>2
  <1>11. x = y
    <2> HIDE DEF x, y
    <2> QED BY <1>9, <1>10
  <1> QED BY <1>5, <1>3, <1>11, Zenon DEF a, b, more, t, new, OrderOf

(* Nor does it change whom the call sends to. *)
LEMMA SendKeepsSubs ==
    ASSUME NEW done \in Seq(Outcomes), NEW rest \in Seq(Subs), rest # <<>>, NEW err \in BOOLEAN,
           NEW more, more = Append(done, [sub |-> Head(rest), err |-> err])
    PROVE  Receivers(more, Tail(rest)) = Receivers(done, rest)
  <1> DEFINE new == [sub |-> Head(rest), err |-> err]
             n == Len(done)
             m == Len(rest)
             t == Tail(rest)
  <1>1. n \in Nat /\ DOMAIN done = 1 .. n
    OBVIOUS
  <1>2. m \in Nat /\ m # 0 /\ DOMAIN rest = 1 .. m /\ Head(rest) = rest[1] /\ rest[1] \in Subs
    OBVIOUS
  <1>3. DOMAIN t = 1 .. (m - 1) /\ \A i \in 1 .. (m - 1) : t[i] = rest[i + 1]
    OBVIOUS
  <1>4. new \in Outcomes /\ new.sub = rest[1] /\ more = Append(done, new)
    BY <1>2 DEF Outcomes
  <1> HIDE DEF new
  <1>5. DOMAIN more = 1 .. (n + 1) /\ more[n + 1] = new /\ \A i \in 1 .. n : more[i] = done[i]
    BY <1>4
  <1> HIDE DEF n, m, t
  <1> DEFINE before == {done[i].sub : i \in DOMAIN done}
             after == {more[i].sub : i \in DOMAIN more}
  <1>6. after = before \cup {rest[1]}
    <2>1. \A i \in 1 .. (n + 1) : i \in 1 .. n \/ i = n + 1
      BY <1>1
    <2>2. \A i \in 1 .. n : i \in 1 .. (n + 1)
      BY <1>1
    <2>3. n + 1 \in 1 .. (n + 1)
      BY <1>1
    <2>4. ASSUME NEW x \in after PROVE x \in before \cup {rest[1]}
      <3>1. PICK i \in 1 .. (n + 1) : x = more[i].sub
        BY <1>5, <2>4, Zenon
      <3>2. CASE i \in 1 .. n
        BY <1>1, <1>5, <3>1, <3>2, Zenon
      <3>3. CASE i = n + 1
        BY <1>4, <1>5, <3>1, <3>3, Zenon
      <3> QED BY <2>1, <3>2, <3>3, Zenon
    <2>5. ASSUME NEW x \in before PROVE x \in after
      <3>1. PICK i \in 1 .. n : x = done[i].sub
        BY <1>1, <2>5, Zenon
      <3>2. i \in DOMAIN more /\ x = more[i].sub
        BY <1>5, <2>2, <3>1, Zenon
      <3> QED BY <3>2, Zenon
    <2>6. rest[1] \in after
      BY <1>4, <1>5, <2>3, Zenon
    <2> QED BY <2>4, <2>5, <2>6, Zenon
  <1>7. Range(rest) = {rest[1]} \cup Range(t)
    <2>1. \A i \in 1 .. m : i = 1 \/ (i - 1 \in 1 .. (m - 1) /\ (i - 1) + 1 = i)
      BY <1>2
    <2>2. 1 \in 1 .. m /\ \A i \in 1 .. (m - 1) : i + 1 \in 1 .. m
      BY <1>2
    <2>3. ASSUME NEW x \in Range(rest) PROVE x = rest[1] \/ x \in Range(t)
      <3>1. PICK i \in 1 .. m : x = rest[i]
        BY <1>2, <2>3, Zenon DEF Range
      <3>2. CASE i # 1
        <4>1. i - 1 \in 1 .. (m - 1) /\ (i - 1) + 1 = i
          BY <2>1, <3>2
        <4>2. t[i - 1] = rest[i]
          BY <1>3, <4>1
        <4> QED BY <1>3, <3>1, <4>1, <4>2, Zenon DEF Range
      <3> QED BY <3>1, <3>2
    <2>4. ASSUME NEW x \in Range(t) PROVE x \in Range(rest)
      <3>1. PICK i \in 1 .. (m - 1) : x = t[i]
        BY <1>3, <2>4, Zenon DEF Range
      <3>2. x = rest[i + 1] /\ i + 1 \in DOMAIN rest
        BY <1>2, <1>3, <2>2, <3>1, Zenon
      <3> QED BY <3>2, Zenon DEF Range
    <2>5. rest[1] \in Range(rest)
      BY <1>2, <2>2, Zenon DEF Range
    <2> QED BY <2>3, <2>4, <2>5, Zenon
  <1>8. after \cup Range(t) = before \cup Range(rest)
    BY <1>6, <1>7, Zenon
  <1> QED BY <1>8, Zenon DEF t, Receivers

(* Those in the map are subscribers, and finitely many. *)
LEMMA SubscribedAre ==
    ASSUME BMaps
    PROVE  Subscribed \subseteq Subs /\ IsFiniteSet(Subscribed)
  <1>1. Subscribed \subseteq Subs
    BY Zenon DEF BMaps, Subscribed
  <1> DEFINE T == Range(subscribers)
  <1>2. DOMAIN subscribers = Services /\ subscribers = [s \in Services |-> subscribers[s]]
    BY Zenon DEF BMaps
  <1>3. T = {subscribers[s] : s \in Services}
    BY <1>2, Zenon DEF Range
  <1>4. subscribers \in Surjection(Services, T)
    <2>1. \A x \in T : \E s \in Services : subscribers[s] = x
      BY <1>3, Zenon
    <2>2. subscribers \in [Services -> T]
      BY <1>2, <1>3, Zenon
    <2> HIDE DEF T
    <2> QED BY <2>1, <2>2, Zenon DEF Surjection
  <1> HIDE DEF T
  <1>5. IsFiniteSet(T)
    BY <1>4, FS_Surjection, BrokerAssumption, Zenon
  <1>6. Subscribed \in SUBSET T
    BY <1>3, Zenon DEF Subscribed
  <1> QED BY <1>1, <1>5, <1>6, FS_Subset, Zenon

(* A call that has begun has everything still to send. *)
LEMMA NothingSentYet ==
    ASSUME NEW done, done = <<>>, NEW rest \in Seq(Subs)
    PROVE  done \in Seq(Outcomes) /\ OrderOf(done, rest) = rest
  <1> DEFINE a == [i \in DOMAIN done |-> done[i].sub]
  <1>1. done \in Seq(Outcomes) /\ DOMAIN done = 1 .. 0 /\ 1 .. 0 = {}
    OBVIOUS
  <1>2. a = [i \in 1 .. 0 |-> done[i].sub]
    BY <1>1, Zenon
  <1> HIDE DEF a
  <1>3. a \in Seq(Subs) /\ Len(a) = 0
    BY <1>2
  <1>4. a \o rest = rest
    BY <1>3
  <1> QED BY <1>1, <1>4 DEF a, OrderOf

(* A new broker satisfies the invariant. *)
LEMMA BInitInv == Init => BInv
  <1> SUFFICES ASSUME Init PROVE BInv
    OBVIOUS
  <1>1. BMaps
    <2>1. subscribers \in [Services -> Subs \cup {NoSub}] /\ \A s \in Services : subscribers[s] = NoSub
      BY Zenon DEF Init, NewBroker
    <2>2. <<>> \in Seq(Services) /\ IsInjective(<<>>)
      BY DEF IsInjective
    <2>3. routes \in [Types -> Seq(Services)] /\ \A t \in Types : routes[t] = <<>>
      BY <2>2, Zenon DEF Init, NewBroker
    <2>4. \A t \in Types : IsInjective(routes[t])
      BY <2>2, <2>3, Zenon
    <2> QED BY <2>1, <2>3, <2>4, Zenon DEF BMaps
  <1>2. BCalls
    <2>1. \A c \in Callers : call[c] = Idle /\ results[c] = <<>> /\ todo[c] = <<>>
      BY Zenon DEF Init
    <2>2. \A c \in Callers : Sends(c)
      BY <2>1, Zenon DEF Sends, InRoute
    <2> QED BY <2>2, Zenon DEF BCalls, Init
  <1>3. BHistory
    <2>1. members = {} /\ changed = [c \in Callers |-> {}] /\ \A c \in Callers : call[c] = Idle
      BY Zenon DEF Init
    <2>2. Subscribed = {}
      BY Zenon DEF Init, NewBroker, Subscribed
    <2>3. changed = [c \in Callers |-> changed[c]] /\ \A c \in Callers : changed[c] = {}
      BY <2>1, Zenon
    <2> QED BY <2>1, <2>2, <2>3, Zenon DEF BHistory, Follows
  <1> QED BY <1>1, <1>2, <1>3, Zenon DEF BInv

(* The maps change under the lock, and no call looks at them again. *)
LEMMA CallsKeep ==
    ASSUME BCalls, UNCHANGED callVars
    PROVE  BCalls'
  <1>1. todo' = todo /\ results' = results /\ call' = call
    BY Zenon DEF callVars
  <1> QED BY <1>1, Zenon DEF BCalls, Sends, InRoute, Order

(* The steps of a call leave the maps alone. *)
LEMMA MapsKeep ==
    ASSUME BMaps, UNCHANGED mapVars
    PROVE  BMaps'
  BY Zenon DEF BMaps, mapVars

(* A step that changes neither calls nor subscribers. *)
LEMMA HistoryKeeps ==
    ASSUME BHistory, UNCHANGED callVars, UNCHANGED historyVars, subscribers' = subscribers
    PROVE  BHistory'
  <1>1. todo' = todo /\ results' = results /\ call' = call /\ members' = members /\ changed' = changed
    BY Zenon DEF callVars, historyVars
  <1>2. Subscribed' = Subscribed
    BY Zenon DEF Subscribed
  <1>3. ASSUME NEW c \in Callers PROVE Follows(c)'
    <2>1. SendsTo(c)' = SendsTo(c)
      BY <1>1, Zenon DEF SendsTo
    <2>2. Follows(c)
      BY Zenon DEF BHistory
    <2>3. changed'[c] = changed[c] /\ call'[c] = call[c] /\ members' = members
      BY <1>1, Zenon
    <2> QED BY <2>1, <2>2, <2>3, Zenon DEF Follows
  <1> QED BY <1>1, <1>2, <1>3, Zenon DEF BHistory

(* A step of one call, with the subscribers as they were. *)
LEMMA HistoryOfCall ==
    ASSUME BHistory, NEW c \in Callers, subscribers' = subscribers, members' = members,
           DOMAIN changed' = Callers, changed' = [d \in Callers |-> changed'[d]],
           \A d \in Callers : d # c =>
               /\ call'[d] = call[d] /\ todo'[d] = todo[d]
               /\ results'[d] = results[d] /\ changed'[d] = changed[d],
           Follows(c)'
    PROVE  BHistory'
  <1>1. Subscribed' = Subscribed
    BY Zenon DEF Subscribed
  <1>2. ASSUME NEW d \in Callers, d # c PROVE Follows(d)'
    <2>1. SendsTo(d)' = SendsTo(d)
      BY <1>2, Zenon DEF SendsTo
    <2> QED BY <1>2, <2>1, ZenonT(30) DEF BHistory, Follows
  <1> QED BY <1>1, <1>2, Zenon DEF BHistory

(* Whoever joins or leaves does so for every call under way. *)
LEMMA HistoryOfMembers ==
    ASSUME BHistory, UNCHANGED callVars, NEW J, NEW L, Membership(J, L)
    PROVE  /\ DOMAIN changed' = Callers /\ changed' = [c \in Callers |-> changed'[c]]
           /\ \A c \in Callers : Follows(c)'
  <1>1. todo' = todo /\ results' = results /\ call' = call
    BY Zenon DEF callVars
  <1>2. /\ members' = (members \ L) \cup J
        /\ changed' = [c \in Callers |-> IF call[c] = Idle THEN {} ELSE changed[c] \cup J \cup L]
    BY Zenon DEF Membership
  <1>3. DOMAIN changed' = Callers /\ changed' = [c \in Callers |-> changed'[c]]
    BY <1>2, Zenon
  <1>4. ASSUME NEW c \in Callers PROVE Follows(c)'
    <2>1. SendsTo(c)' = SendsTo(c)
      BY <1>1, Zenon DEF SendsTo
    <2>2. Follows(c)
      BY Zenon DEF BHistory
    <2>3. CASE call[c] = Idle
      <3>1. changed'[c] = {}
        BY <1>2, <2>3, Zenon
      <3> QED BY <1>1, <2>3, <3>1, Zenon DEF Follows
    <2>4. CASE call[c] # Idle
      <3>1. changed'[c] = changed[c] \cup J \cup L
        BY <1>2, <2>4, Zenon
      <3>2. SendsTo(c) \ changed'[c] \subseteq members'
        BY <1>2, <2>2, <2>4, <3>1, Zenon DEF Follows
      <3>3. call[c].op = "fanout" => members' \ changed'[c] \subseteq SendsTo(c)
        BY <1>2, <2>2, <2>4, <3>1, Zenon DEF Follows
      <3> QED BY <1>1, <2>1, <2>4, <3>2, <3>3, Zenon DEF Follows
    <2> QED BY <2>3, <2>4, Zenon
  <1> QED BY <1>3, <1>4, Zenon

(* A call that has just begun is to send to subscribers, Fanout to all. *)
LEMMA HistoryOfBegin ==
    ASSUME BInv, NEW c \in Callers, NEW op, NEW subs, Begin(c, op, subs), op # Idle,
           Range(subs) \subseteq Subscribed,
           op.op = "fanout" => Subscribed \subseteq Range(subs)
    PROVE  BHistory'
  <1>1. /\ call[c] = Idle
        /\ todo' = [todo EXCEPT ![c] = subs]
        /\ call' = [call EXCEPT ![c] = op]
        /\ results' = results /\ members' = members /\ changed' = changed
        /\ subscribers' = subscribers
    BY Zenon DEF Begin, historyVars, mapVars
  <1>2. /\ todo'[c] = subs /\ call'[c] = op
        /\ \A d \in Callers : d # c => todo'[d] = todo[d] /\ call'[d] = call[d]
    BY <1>1, Zenon DEF BInv, BCalls
  <1>3. results'[c] = <<>> /\ changed'[c] = {}
    BY <1>1, Zenon DEF BInv, BCalls, Sends, BHistory, Follows
  <1>4. SendsTo(c)' = Range(subs)
    <2>1. PICK done : done = <<>>
      BY Zenon
    <2>2. DOMAIN done = {}
      BY <2>1
    <2>3. Receivers(done, subs) = Range(subs)
      BY <2>2, Zenon DEF Receivers
    <2> QED BY <1>2, <1>3, <2>1, <2>3, Zenon DEF SendsTo
  <1>5. members = Subscribed
    BY Zenon DEF BInv, BHistory
  <1>6. Follows(c)'
    BY <1>1, <1>2, <1>3, <1>4, <1>5, Zenon DEF Follows
  <1>7. DOMAIN changed' = Callers /\ changed' = [d \in Callers |-> changed'[d]]
    BY <1>1, Zenon DEF BInv, BHistory
  <1> QED BY <1>1, <1>2, <1>6, <1>7, HistoryOfCall, Zenon DEF BInv

(* A step of one call does not touch the others. *)
LEMMA OthersKeep ==
    ASSUME BCalls, NEW d \in Callers,
           todo'[d] = todo[d], results'[d] = results[d], call'[d] = call[d]
    PROVE  Sends(d)'
  <1>1. Sends(d)
    BY Zenon DEF BCalls
  <1>2. Order(d)' = Order(d)
    BY Zenon DEF Order
  <1>3. InRoute(d)' = InRoute(d)
    BY Zenon DEF InRoute
  <1> QED BY <1>1, <1>2, <1>3, Zenon DEF Sends

(* What the three steps of a call change. *)
LEMMA CallSteps ==
    ASSUME BCalls, NEW c \in Callers, NEW t, NEW r, NEW k,
           todo' = [todo EXCEPT ![c] = t],
           results' = [results EXCEPT ![c] = r],
           call' = [call EXCEPT ![c] = k],
           Sends(c)'
    PROVE  BCalls'
  <1>1. /\ todo' = [d \in Callers |-> IF d = c THEN t ELSE todo[d]]
        /\ results' = [d \in Callers |-> IF d = c THEN r ELSE results[d]]
        /\ call' = [d \in Callers |-> IF d = c THEN k ELSE call[d]]
    BY Zenon DEF BCalls
  <1>2. ASSUME NEW d \in Callers PROVE Sends(d)'
    <2>1. CASE d = c
      BY <2>1, Zenon
    <2>2. CASE d # c
      <3>1. todo'[d] = todo[d] /\ results'[d] = results[d] /\ call'[d] = call[d]
        BY <1>1, <2>2, Zenon
      <3> QED BY <3>1, OthersKeep, Zenon
    <2> QED BY <2>1, <2>2, Zenon
  <1>3. /\ todo' = [d \in Callers |-> todo'[d]]
        /\ results' = [d \in Callers |-> results'[d]]
        /\ call' = [d \in Callers |-> call'[d]]
    BY <1>1, Zenon
  <1>4. DOMAIN todo' = Callers /\ DOMAIN results' = Callers /\ DOMAIN call' = Callers
    BY <1>1, Zenon
  <1> QED BY <1>2, <1>3, <1>4, Zenon DEF BCalls

(* The call that Route begins has the subscribers of its type to send to,  *)
(* sorted.                                                                 *)
LEMMA RouteInv ==
    ASSUME BInv, NEW c \in Callers, NEW type \in Types, Route(c, type)
    PROVE  BInv'
  <1> DEFINE targets == Routed(type)
             subs == sortByPriority(targets)
             op == [op |-> "route", targets |-> targets]
  <1>1. targets \in Seq(Subs) /\ IsInjective(targets) /\ Range(targets) \subseteq Subscribed
    <2>1. targets \in Seq(Subscribed) /\ IsInjective(targets)
      BY RoutedOnce, Zenon DEF BInv
    <2>2. Subscribed \subseteq Subs
      BY SubscribedAre, Zenon DEF BInv
    <2> HIDE DEF targets
    <2>3. targets \in Seq(Subs) /\ \A i \in DOMAIN targets : targets[i] \in Subscribed
      BY <2>1, <2>2
    <2> QED BY <2>1, <2>3, Zenon DEF Range
  <1>2. subs \in Seq(Subs) /\ Range(subs) \subseteq Subscribed
    BY <1>1, Sorts, Zenon
  <1>3. Begin(c, op, subs)
    BY Zenon DEF Route
  <1>4. PICK k : k = op
    BY Zenon
  <1>5. k # Idle /\ k.op = "route" /\ k.targets = targets
    BY <1>4 DEF Idle
  <1>6. PICK t \in Seq(Subs) : t = subs
    BY <1>2, Zenon
  <1>7. /\ call[c] = Idle
        /\ todo' = [todo EXCEPT ![c] = t]
        /\ call' = [call EXCEPT ![c] = k]
        /\ results' = results
        /\ UNCHANGED mapVars
    BY <1>3, <1>4, <1>6, Zenon DEF Begin
  <1> HIDE DEF op
  <1>8. results[c] = <<>> /\ results' = [results EXCEPT ![c] = <<>>]
    <2>1. results[c] = <<>>
      BY <1>7, Zenon DEF BInv, BCalls, Sends
    <2>2. results = [results EXCEPT ![c] = results[c]]
      BY Zenon DEF BInv, BCalls
    <2> QED BY <1>7, <2>1, <2>2, Zenon
  <1>9. todo'[c] = t /\ call'[c] = k /\ results'[c] = <<>>
    BY <1>7, <1>8, Zenon DEF BInv, BCalls
  <1>10. k.targets \in Seq(Subs) /\ IsInjective(k.targets) /\ sortByPriority(k.targets) = t
    BY <1>1, <1>5, <1>6, Zenon
  <1>11. <<>> \in Seq(Outcomes) /\ OrderOf(<<>>, t) = t
    BY NothingSentYet, Zenon
  <1>12. Order(c)' = t
    BY <1>9, <1>11, Zenon DEF Order
  <1>13. Sends(c)'
    BY <1>5, <1>9, <1>10, <1>11, <1>12, Zenon DEF Sends, InRoute
  <1>14. BCalls'
    BY <1>7, <1>8, <1>13, CallSteps, Zenon DEF BInv
  <1>15. BMaps'
    BY <1>7, MapsKeep, Zenon DEF BInv
  <1>16. BHistory'
    <2>1. Begin(c, k, t) /\ k.op # "fanout" /\ Range(t) \subseteq Subscribed
      BY <1>2, <1>3, <1>4, <1>5, <1>6
    <2> QED BY <1>5, <2>1, HistoryOfBegin, Zenon
  <1> QED BY <1>14, <1>15, <1>16, Zenon DEF BInv

(* Fanout is to send to all the subscribers there are, in any order. *)
LEMMA FanoutInv ==
    ASSUME BInv, NEW c \in Callers, Fanout(c)
    PROVE  BInv'
  <1> DEFINE op == [op |-> "fanout"]
             n == Cardinality(Subscribed)
  <1>1. PICK t \in Bijection(1 .. n, Subscribed) : Begin(c, op, t)
    BY Zenon DEF Fanout
  <1>2. n \in Nat
    BY SubscribedAre, FS_CardinalityType, Zenon DEF BInv
  <1>3. t \in Seq(Subs) /\ Range(t) = Subscribed
    <2>1. t \in [1 .. n -> Subscribed] /\ \A x \in Subscribed : \E i \in 1 .. n : t[i] = x
      BY Zenon DEF Bijection, Injection, Surjection
    <2>2. Subscribed \subseteq Subs
      BY SubscribedAre, Zenon DEF BInv
    <2> HIDE DEF n
    <2>3. t \in [1 .. n -> Subs]
      BY <2>1, <2>2, Zenon
    <2>4. t \in Seq(Subs)
      BY <1>2, <2>3
    <2> QED BY <2>1, <2>4, Zenon DEF Range
  <1>4. PICK k : k = op
    BY Zenon
  <1>5. k # Idle /\ k.op = "fanout" /\ k.op # "route"
    BY <1>4 DEF Idle
  <1>6. Begin(c, k, t)
    BY <1>1, <1>4, Zenon
  <1>7. /\ call[c] = Idle
        /\ todo' = [todo EXCEPT ![c] = t]
        /\ call' = [call EXCEPT ![c] = k]
        /\ results' = results
        /\ UNCHANGED mapVars
    BY <1>6, Zenon DEF Begin
  <1>8. results' = [results EXCEPT ![c] = results[c]]
    BY <1>7, Zenon DEF BInv, BCalls
  <1>9. results'[c] \in Seq(Outcomes)
    <2>1. results[c] = <<>>
      BY <1>7, Zenon DEF BInv, BCalls, Sends
    <2> QED BY <1>7, <2>1, <1>3, NothingSentYet, Zenon
  <1>10. call'[c] = k /\ todo'[c] = t
    BY <1>7, Zenon DEF BInv, BCalls
  <1>11. Sends(c)'
    BY <1>3, <1>5, <1>9, <1>10, Zenon DEF Sends, InRoute
  <1>12. BCalls'
    BY <1>7, <1>8, <1>11, CallSteps, Zenon DEF BInv
  <1>13. BMaps'
    BY <1>7, MapsKeep, Zenon DEF BInv
  <1>14. BHistory'
    BY <1>3, <1>5, <1>6, HistoryOfBegin, Zenon
  <1> QED BY <1>12, <1>13, <1>14, Zenon DEF BInv

(* A Send moves a subscriber from what is to be sent to what was. *)
LEMMA SendNextInv ==
    ASSUME BInv, NEW c \in Callers, SendNext(c)
    PROVE  BInv'
  <1>1. PICK err \in BOOLEAN :
            results' = [results EXCEPT ![c] = Append(results[c], [sub |-> Head(todo[c]), err |-> err])]
    BY Zenon DEF SendNext, BInv, BCalls
  <1>2. PICK more : more = Append(results[c], [sub |-> Head(todo[c]), err |-> err])
    BY Zenon
  <1>3. /\ todo[c] # <<>>
        /\ results' = [results EXCEPT ![c] = more]
        /\ todo' = [todo EXCEPT ![c] = Tail(todo[c])]
        /\ call' = call /\ UNCHANGED mapVars /\ UNCHANGED historyVars
    BY <1>1, <1>2, Zenon DEF SendNext, BInv, BCalls
  <1>4. call' = [call EXCEPT ![c] = call[c]]
    BY <1>3, Zenon DEF BInv, BCalls
  <1>5. /\ todo'[c] = Tail(todo[c]) /\ results'[c] = more /\ call'[c] = call[c]
        /\ \A d \in Callers : d # c => todo'[d] = todo[d] /\ results'[d] = results[d]
    BY <1>3, Zenon DEF BInv, BCalls
  <1>6. Sends(c) /\ Follows(c)
    BY Zenon DEF BInv, BCalls, BHistory
  <1>7. call[c] # Idle /\ results[c] \in Seq(Outcomes) /\ todo[c] \in Seq(Subs)
    BY <1>3, <1>6, Zenon DEF Sends
  <1>8. /\ more \in Seq(Outcomes) /\ Tail(todo[c]) \in Seq(Subs)
        /\ OrderOf(more, Tail(todo[c])) = OrderOf(results[c], todo[c])
    BY <1>2, <1>3, <1>7, SendKeepsOrder, Zenon
  <1>9. Order(c)' = Order(c) /\ SendsTo(c)' = SendsTo(c)
    <2>1. Order(c)' = Order(c)
      BY <1>5, <1>8, Zenon DEF Order
    <2>2. Receivers(more, Tail(todo[c])) = Receivers(results[c], todo[c])
      BY <1>2, <1>3, <1>7, SendKeepsSubs, Zenon
    <2> QED BY <1>5, <2>1, <2>2, Zenon DEF SendsTo
  <1>10. InRoute(c)' = InRoute(c)
    BY <1>5, Zenon DEF InRoute
  <1>11. Sends(c)'
    BY <1>5, <1>6, <1>7, <1>8, <1>9, <1>10, Zenon DEF Sends
  <1>12. BCalls'
    BY <1>3, <1>4, <1>11, CallSteps, Zenon DEF BInv
  <1>13. BMaps'
    BY <1>3, MapsKeep, Zenon DEF BInv
  <1>14. BHistory'
    <2>1. members' = members /\ changed' = changed /\ subscribers' = subscribers
      BY <1>3, Zenon DEF historyVars, mapVars
    <2>2. Follows(c)'
      BY <1>5, <1>6, <1>9, <2>1, Zenon DEF Follows
    <2>3. DOMAIN changed' = Callers /\ changed' = [d \in Callers |-> changed'[d]]
      BY <2>1, Zenon DEF BInv, BHistory
    <2> QED BY <1>3, <1>5, <2>1, <2>2, <2>3, HistoryOfCall, Zenon DEF BInv
  <1> QED BY <1>12, <1>13, <1>14, Zenon DEF BInv

(* A call that returns leaves nothing behind. *)
LEMMA ReturnInv ==
    ASSUME BInv, NEW c \in Callers, Return(c)
    PROVE  BInv'
  <1>1. /\ todo[c] = <<>>
        /\ call' = [call EXCEPT ![c] = Idle]
        /\ results' = [results EXCEPT ![c] = <<>>]
        /\ todo' = [todo EXCEPT ![c] = todo[c]]
        /\ changed' = [changed EXCEPT ![c] = {}]
        /\ todo' = todo /\ members' = members /\ UNCHANGED mapVars
    BY Zenon DEF Return, BInv, BCalls
  <1>2. call'[c] = Idle /\ results'[c] = <<>> /\ todo'[c] = <<>>
    BY <1>1, Zenon DEF BInv, BCalls
  <1>3. Sends(c)'
    BY <1>2, Zenon DEF Sends, InRoute
  <1>4. BCalls'
    BY <1>1, <1>3, CallSteps, Zenon DEF BInv
  <1>5. BMaps'
    BY <1>1, MapsKeep, Zenon DEF BInv
  <1>6. BHistory'
    <2>1. /\ changed'[c] = {} /\ DOMAIN changed' = Callers
          /\ changed' = [d \in Callers |-> changed'[d]]
          /\ \A d \in Callers : d # c => changed'[d] = changed[d]
      BY <1>1, Zenon DEF BInv, BHistory
    <2>2. \A d \in Callers : d # c =>
              call'[d] = call[d] /\ todo'[d] = todo[d] /\ results'[d] = results[d]
      BY <1>1, Zenon DEF BInv, BCalls
    <2>3. Follows(c)'
      BY <1>2, <2>1, Zenon DEF Follows
    <2>4. subscribers' = subscribers
      BY <1>1, Zenon DEF mapVars
    <2> QED BY <1>1, <2>1, <2>2, <2>3, <2>4, HistoryOfCall, Zenon DEF BInv
  <1> QED BY <1>4, <1>5, <1>6, Zenon DEF BInv

(* A subscriber is entered under its own name. *)
LEMMA SubscribeInv ==
    ASSUME BInv, NEW sub \in Subs, Subscribe(sub)
    PROVE  BInv'
  <1>1. sub.service \in Services
    BY BrokerAssumption
  <1>2. /\ subscribers' = [subscribers EXCEPT ![sub.service] = sub]
        /\ routes' = routes
        /\ Membership({sub}, Named(sub.service))
        /\ UNCHANGED callVars
    BY Zenon DEF Subscribe
  <1>3. subscribers' = [s \in Services |-> IF s = sub.service THEN sub ELSE subscribers[s]]
    BY <1>1, <1>2, Zenon DEF BInv, BMaps
  <1>4. subscribers' \in [Services -> Subs \cup {NoSub}]
    BY <1>3, Zenon DEF BInv, BMaps
  <1>5. \A s \in Services : subscribers'[s] # NoSub => subscribers'[s].service = s
    BY <1>3, Zenon DEF BInv, BMaps
  <1>6. BMaps'
    BY <1>2, <1>4, <1>5, Zenon DEF BInv, BMaps
  <1>7. BCalls'
    BY <1>2, CallsKeep, Zenon DEF BInv
  <1>8. members' = Subscribed'
    <2>1. sub # NoSub
      BY BrokerAssumption, Zenon
    <2>2. members' = (Subscribed \ {x \in Subscribed : x.service = sub.service}) \cup {sub}
      BY <1>2, Zenon DEF Membership, Named, BInv, BHistory
    <2>3. ASSUME NEW x \in members' PROVE x \in Subscribed'
      <3>1. CASE x = sub
        BY <1>1, <1>3, <2>1, <3>1, Zenon DEF Subscribed
      <3>2. CASE x # sub
        <4>1. PICK s \in Services : subscribers[s] = x /\ x # NoSub /\ x.service # sub.service
          BY <2>2, <2>3, <3>2, Zenon DEF Subscribed
        <4>2. s # sub.service
          BY <4>1, Zenon DEF BInv, BMaps
        <4> QED BY <1>3, <4>1, <4>2, Zenon DEF Subscribed
      <3> QED BY <3>1, <3>2, Zenon
    <2>4. ASSUME NEW x \in Subscribed' PROVE x \in members'
      <3>1. PICK s \in Services : subscribers'[s] = x /\ x # NoSub
        BY <2>4, Zenon DEF Subscribed
      <3>2. CASE s = sub.service
        BY <1>3, <2>2, <3>1, <3>2, Zenon
      <3>3. CASE s # sub.service
        <4>1. subscribers[s] = x /\ x.service = s
          BY <1>3, <3>1, <3>3, Zenon DEF BInv, BMaps
        <4> QED BY <2>2, <3>1, <3>3, <4>1, Zenon DEF Subscribed
      <3> QED BY <3>2, <3>3, Zenon
    <2> QED BY <2>3, <2>4, Zenon
  <1>9. BHistory'
    BY <1>2, <1>8, HistoryOfMembers, Zenon DEF BInv, BHistory
  <1> QED BY <1>6, <1>7, <1>9, Zenon DEF BInv

(* Whom Unsubscribe removes is no longer in the map. *)
LEMMA UnsubscribeInv ==
    ASSUME BInv, NEW s \in Services, Unsubscribe(s)
    PROVE  BInv'
  <1>1. /\ subscribers' = [subscribers EXCEPT ![s] = NoSub]
        /\ Membership({}, Named(s))
        /\ routes' = routes
        /\ UNCHANGED callVars
    BY Zenon DEF Unsubscribe
  <1>2. subscribers' = [u \in Services |-> IF u = s THEN NoSub ELSE subscribers[u]]
    BY <1>1, Zenon DEF BInv, BMaps
  <1>3. subscribers' \in [Services -> Subs \cup {NoSub}]
    BY <1>2, Zenon DEF BInv, BMaps
  <1>4. \A u \in Services : subscribers'[u] # NoSub => subscribers'[u].service = u
    BY <1>2, Zenon DEF BInv, BMaps
  <1>5. BMaps'
    BY <1>1, <1>3, <1>4, Zenon DEF BInv, BMaps
  <1>6. BCalls'
    BY <1>1, CallsKeep, Zenon DEF BInv
  <1>7. members' = Subscribed'
    <2>1. members' = Subscribed \ {x \in Subscribed : x.service = s}
      BY <1>1, Zenon DEF Membership, Named, BInv, BHistory
    <2>2. ASSUME NEW x \in members' PROVE x \in Subscribed'
      <3>1. PICK u \in Services : subscribers[u] = x /\ x # NoSub /\ x.service # s
        BY <2>1, <2>2, Zenon DEF Subscribed
      <3>2. u # s
        BY <3>1, Zenon DEF BInv, BMaps
      <3> QED BY <1>2, <3>1, <3>2, Zenon DEF Subscribed
    <2>3. ASSUME NEW x \in Subscribed' PROVE x \in members'
      <3>1. PICK u \in Services : subscribers'[u] = x /\ x # NoSub
        BY <2>3, Zenon DEF Subscribed
      <3>2. u # s /\ subscribers[u] = x /\ x.service = u
        BY <1>2, <3>1, Zenon DEF BInv, BMaps
      <3> QED BY <2>1, <3>1, <3>2, Zenon DEF Subscribed
    <2> QED BY <2>2, <2>3, Zenon
  <1>8. BHistory'
    BY <1>1, <1>7, HistoryOfMembers, Zenon DEF BInv, BHistory
  <1> QED BY <1>5, <1>6, <1>8, Zenon DEF BInv

(* The targets of a type stay without duplicates. *)
LEMMA RoutesInv ==
    ASSUME BInv, NEW type \in Types, NEW target \in Services,
           AddRoute(type, target) \/ RemoveRoute(type, target)
    PROVE  BInv'
  <1>1. routes[type] \in Seq(Services) /\ IsInjective(routes[type]) /\ routes \in [Types -> Seq(Services)]
    BY Zenon DEF BInv, BMaps
  <1>2. PICK new : new \in Seq(Services) /\ IsInjective(new) /\ routes' = [routes EXCEPT ![type] = new]
    <2>1. CASE AddRoute(type, target)
      BY <1>1, <2>1, AddedOnce, Zenon DEF AddRoute
    <2>2. CASE RemoveRoute(type, target)
      BY <1>1, <2>2, RemovedOnce, Zenon DEF RemoveRoute
    <2> QED BY <2>1, <2>2
  <1>3. subscribers' = subscribers /\ UNCHANGED callVars /\ UNCHANGED historyVars
    BY Zenon DEF AddRoute, RemoveRoute
  <1>4. routes' = [t \in Types |-> IF t = type THEN new ELSE routes[t]]
    BY <1>1, <1>2, Zenon
  <1>5. routes' \in [Types -> Seq(Services)]
    BY <1>1, <1>2, <1>4, Zenon
  <1>6. \A t \in Types : IsInjective(routes'[t])
    BY <1>2, <1>4, Zenon DEF BInv, BMaps
  <1>7. BMaps'
    BY <1>3, <1>5, <1>6, Zenon DEF BInv, BMaps
  <1>8. BCalls'
    BY <1>3, CallsKeep, Zenon DEF BInv
  <1>9. BHistory'
    BY <1>3, HistoryKeeps, Zenon DEF BInv
  <1> QED BY <1>7, <1>8, <1>9, Zenon DEF BInv

(* BInv is inductive. *)
THEOREM BrokerInductive == Spec => []BInv
  <1>1. ASSUME BInv, [Next]_vars PROVE BInv'
    <2>1. CASE UNCHANGED vars
      <3>1. UNCHANGED mapVars /\ UNCHANGED callVars /\ UNCHANGED historyVars
        BY <2>1, Zenon DEF vars
      <3>2. subscribers' = subscribers
        BY <3>1, Zenon DEF mapVars
      <3> QED BY <1>1, <3>1, <3>2, MapsKeep, CallsKeep, HistoryKeeps, Zenon DEF BInv
    <2>2. CASE Next
      <3>1. ASSUME NEW sub \in Subs, Subscribe(sub) PROVE BInv'
        BY <1>1, <3>1, SubscribeInv, Zenon
      <3>2. ASSUME NEW s \in Services, Unsubscribe(s) PROVE BInv'
        BY <1>1, <3>2, UnsubscribeInv, Zenon
      <3>3. ASSUME NEW type \in Types, NEW s \in Services, AddRoute(type, s) \/ RemoveRoute(type, s)
            PROVE  BInv'
        BY <1>1, <3>3, RoutesInv, Zenon
      <3>4. ASSUME NEW c \in Callers, SendNext(c) PROVE BInv'
        BY <1>1, <3>4, SendNextInv, Zenon
      <3>5. ASSUME NEW c \in Callers, Return(c) PROVE BInv'
        BY <1>1, <3>5, ReturnInv, Zenon
      <3>6. ASSUME NEW c \in Callers, Fanout(c) PROVE BInv'
        BY <1>1, <3>6, FanoutInv, Zenon
      <3>7. ASSUME NEW c \in Callers, NEW type \in Types, Route(c, type) PROVE BInv'
        BY <1>1, <3>7, RouteInv, Zenon
      <3> QED BY <2>2, <3>1, <3>2, <3>3, <3>4, <3>5, <3>6, <3>7, Zenon DEF Next
    <2> QED BY <1>1, <2>1, <2>2, Zenon
  <1> QED BY <1>1, BInitInv, PTL DEF Spec

(* Whatever calls are under way while subscribers come and go, one who has *)
(* left or was replaced is sent to by no call of Route or Fanout that      *)
(* began later, and Fanout misses nobody who was subscribed throughout.    *)
THEOREM CallsReachTheSubscribed == Spec => []CallsFollowMembership
  <1>1. BInv => CallsFollowMembership
    BY Zenon DEF BInv, BHistory, Follows, CallsFollowMembership
  <1> QED BY <1>1, BrokerInductive, PTL

(* Every call of Route sends to all of its targets, by priority and, among *)
(* equals, in the order of the routes, for any number of them.             *)
THEOREM RouteKeepsOrder == Spec => []RoutedInPriorityOrder
  <1>1. ASSUME BInv PROVE RoutedInPriorityOrder
    <2> SUFFICES ASSUME NEW c \in Callers, InRoute(c)
                 PROVE  /\ Range(Order(c)) = Range(call[c].targets)
                        /\ \A i, j \in DOMAIN Order(c) : i < j =>
                              Precedes(call[c].targets, Order(c)[i], Order(c)[j])
      BY Zenon DEF RoutedInPriorityOrder, InRoute, Order, OrderOf, Precedes, Place
    <2>1. call[c].targets \in Seq(Subs) /\ IsInjective(call[c].targets)
          /\ Order(c) = sortByPriority(call[c].targets)
      BY <1>1, Zenon DEF BInv, BCalls, Sends
    <2> QED BY <2>1, Sorts, Zenon
  <1> QED BY <1>1, BrokerInductive, PTL
-----------------------------------------------------------------------------
(* The items of the heap, their priority, and the children of a node. *)
Items == [msg : Messages, index : Nat]
Rank(x) == x.msg.priority
Child(p, c) == c = 2 * p \/ c = 2 * p + 1

(* From the a-th on, none of the first n items is Less than its parent. *)
HeapFrom(h, a, n) == \A p, c \in a .. n : Child(p, c) => Rank(h[p]) <= Rank(h[c])

(* The same items, perhaps in another order. *)
SameItems(h, g) ==
    /\ g \in Seq(Items) /\ Len(g) = Len(h) /\ Range(g) = Range(h)
    /\ IsInjective(h) => IsInjective(g)

(* The states of down on a heap of L items. *)
States(L) == {st \in [heap : Seq(Items), at : Nat \ {0}] : Len(st.heap) = L}

(* Ranks are numbers. *)
LEMMA RankType ==
    ASSUME NEW x \in Items
    PROVE  Rank(x) \in Nat
  <1>1. x.msg \in Messages
    BY DEF Items
  <1>2. x.msg.priority \in Priorities
    BY <1>1 DEF Messages
  <1> QED BY <1>2, RouterAssumption, Zenon DEF Rank

(* What Swap changes. *)
LEMMA Swapped ==
    ASSUME NEW h \in Seq(Items), NEW i \in 1 .. Len(h), NEW j \in 1 .. Len(h)
    PROVE  /\ Swap(h, i, j) \in Seq(Items) /\ Len(Swap(h, i, j)) = Len(h)
           /\ Swap(h, i, j)[i] = h[j] /\ Swap(h, i, j)[j] = h[i]
           /\ \A k \in 1 .. Len(h) : k # i /\ k # j => Swap(h, i, j)[k] = h[k]
           /\ SameItems(h, Swap(h, i, j))
  <1> DEFINE L == Len(h)
             g == Swap(h, i, j)
             to(k) == IF k = i THEN j ELSE IF k = j THEN i ELSE k
  <1>1. L \in Nat /\ DOMAIN h = 1 .. L /\ \A k \in 1 .. L : h[k] \in Items
    OBVIOUS
  <1> HIDE DEF L
  <1>2. g = [k \in 1 .. L |-> h[to(k)]]
    <2>1. i \in 1 .. L /\ j \in 1 .. L
      BY DEF L
    <2> QED BY <1>1, <2>1, Zenon DEF Swap
  <1>3. \A k \in 1 .. L : to(k) \in 1 .. L /\ to(to(k)) = k
    BY DEF L
  <1>4. g \in [1 .. L -> Items]
    BY <1>1, <1>2, <1>3
  <1>5. \A k \in 1 .. L : g[k] = h[to(k)]
    BY <1>2
  <1> HIDE DEF g
  <1>6. g \in Seq(Items) /\ Len(g) = L
    BY <1>1, <1>4, SequenceOf, Zenon
  <1>7. DOMAIN g = 1 .. L
    BY <1>4, Zenon
  <1>8. Range(g) = Range(h)
    <2>1. ASSUME NEW k \in 1 .. L PROVE \E m \in 1 .. L : g[k] = h[m]
      BY <1>3, <1>5
    <2>2. ASSUME NEW k \in 1 .. L PROVE \E m \in 1 .. L : g[m] = h[k]
      BY <1>3, <1>5
    <2>3. Range(g) = {g[k] : k \in 1 .. L} /\ Range(h) = {h[k] : k \in 1 .. L}
      BY <1>1, <1>7, Zenon DEF Range
    <2>4. ASSUME NEW x PROVE x \in Range(g) <=> x \in Range(h)
      BY <2>1, <2>2, <2>3, Zenon
    <2> QED BY <2>4, Zenon
  <1>9. ASSUME IsInjective(h) PROVE IsInjective(g)
    <2>1. ASSUME NEW a \in 1 .. L, NEW b \in 1 .. L, g[a] = g[b] PROVE a = b
      <3>1. h[to(a)] = h[to(b)] /\ to(a) \in 1 .. L /\ to(b) \in 1 .. L
        BY <2>1, <1>3, <1>5
      <3> HIDE DEF to
      <3>2. to(a) = to(b)
        BY <3>1, <1>1, <1>9, Zenon DEF IsInjective
      <3> QED BY <3>2, <1>3
    <2> QED BY <2>1, <1>7, Zenon DEF IsInjective
  <1>10. g[i] = h[j] /\ g[j] = h[i] /\ \A k \in 1 .. L : k # i /\ k # j => g[k] = h[k]
    BY <1>5 DEF L
  <1> QED BY <1>6, <1>8, <1>9, <1>10, Zenon DEF SameItems, g, L

(* SameItems is an order. *)
LEMMA SameTransitive ==
    ASSUME NEW f, NEW g, NEW h, SameItems(f, g), SameItems(g, h)
    PROVE  SameItems(f, h)
  BY Zenon DEF SameItems

(* A turn of down stops at an item none of whose children is Less, or      *)
(* swaps it with the least of them.                                        *)
LEMMA Turned ==
    ASSUME NEW L \in Nat, NEW n \in 0 .. L, NEW st \in States(L)
    PROVE  LET h == st.heap
               at == st.at
           IN  \/ /\ DownTurn(st, n) = st
                  /\ \A c \in 1 .. n : Child(at, c) => Rank(h[at]) <= Rank(h[c]) 
               \/ \E least \in 1 .. n :
                    /\ Child(at, least) /\ at \in 1 .. n
                    /\ Rank(h[least]) < Rank(h[at])
                    /\ \A c \in 1 .. n : Child(at, c) => Rank(h[least]) <= Rank(h[c])
                    /\ DownTurn(st, n) = [heap |-> Swap(h, at, least), at |-> least]
  <1> DEFINE h == st.heap
             at == st.at
             child == 2 * at
             least == IF child + 1 <= n /\ Less(h[child + 1], h[child]) THEN child + 1 ELSE child
  <1>1. h \in Seq(Items) /\ Len(h) = L /\ at \in Nat /\ at # 0
    BY DEF States
  <1>2. \A k \in 1 .. n : h[k] \in Items
    BY <1>1
  <1>3. \A k \in 1 .. n : Rank(h[k]) \in Nat
    BY <1>2, RankType, Zenon
  <1>4. DownTurn(st, n) = IF child > n \/ ~Less(h[least], h[at]) THEN st
                          ELSE [heap |-> Swap(h, at, least), at |-> least]
    BY SMTT(30) DEF DownTurn
  <1> HIDE DEF h, at
  <1>5. CASE child > n
    <2>1. \A c \in 1 .. n : ~Child(at, c)
      BY <1>1, <1>5 DEF Child
    <2> QED BY <1>4, <1>5, <2>1 DEF h, at
  <1>6. CASE child <= n
    <2>1. at \in 1 .. n /\ child \in 1 .. n
      BY <1>1, <1>6
    <2>2. Child(at, least) /\ least \in 1 .. n
      BY <1>1, <1>6 DEF Child
    <2>3. ASSUME NEW c \in 1 .. n, Child(at, c) PROVE Rank(h[least]) <= Rank(h[c])
      <3>1. CASE child + 1 <= n
        <4>1. child + 1 \in 1 .. n
          BY <3>1, <2>1
        <4>2. Rank(h[child]) \in Nat /\ Rank(h[child + 1]) \in Nat
          BY <4>1, <2>1, <1>3
        <4> QED BY <2>3, <3>1, <4>2 DEF Child, Less, Rank
      <3>2. CASE ~(child + 1 <= n)
        <4>1. c = child
          BY <2>3, <3>2, <1>1 DEF Child
        <4> QED BY <4>1, <3>2, <2>1, <1>3
      <3> QED BY <3>1, <3>2
    <2> HIDE DEF least
    <2>4. CASE Less(h[least], h[at])
      <3>1. DownTurn(st, n) = [heap |-> Swap(h, at, least), at |-> least]
        BY <1>1, <1>4, <1>6, <2>4
      <3>2. Rank(h[least]) < Rank(h[at])
        BY <2>4 DEF Less, Rank
      <3> QED BY <2>1, <2>2, <2>3, <3>1, <3>2, SMTT(30) DEF h, at
    <2>5. CASE ~Less(h[least], h[at])
      <3>1. DownTurn(st, n) = st
        BY <1>4, <2>5
      <3>2. Rank(h[at]) <= Rank(h[least])
        BY <2>1, <2>2, <2>5, <1>3 DEF Less, Rank
      <3>3. ASSUME NEW c \in 1 .. n, Child(at, c) PROVE Rank(h[at]) <= Rank(h[c])
        <4>1. Rank(h[at]) \in Nat /\ Rank(h[c]) \in Nat /\ Rank(h[least]) \in Nat
          BY <2>1, <2>2, <1>3
        <4>2. Rank(h[least]) <= Rank(h[c])
          BY <2>3, <3>3
        <4> QED BY <3>2, <4>1, <4>2
      <3> QED BY <3>1, <3>3 DEF h, at
    <2> QED BY <2>4, <2>5
  <1>7. child > n \/ child <= n
    BY <1>1
  <1> QED BY <1>5, <1>6, <1>7

(* A turn keeps the number of items. *)
LEMMA TurnType ==
    ASSUME NEW L \in Nat, NEW n \in 0 .. L, NEW st \in States(L)
    PROVE  DownTurn(st, n) \in States(L)
  <1>1. st.heap \in Seq(Items) /\ Len(st.heap) = L
    BY DEF States
  <1>2. CASE DownTurn(st, n) = st
    BY <1>2, Zenon
  <1>3. CASE \E least \in 1 .. n :
                st.at \in 1 .. n /\ DownTurn(st, n) = [heap |-> Swap(st.heap, st.at, least), at |-> least]
    <2>1. PICK least \in 1 .. n :
                st.at \in 1 .. n /\ DownTurn(st, n) = [heap |-> Swap(st.heap, st.at, least), at |-> least]
      BY <1>3
    <2>2. least \in 1 .. Len(st.heap) /\ st.at \in 1 .. Len(st.heap) /\ least \in Nat \ {0}
      BY <1>1, <2>1
    <2>3. Swap(st.heap, st.at, least) \in Seq(Items) /\ Len(Swap(st.heap, st.at, least)) = L
      BY <1>1, <2>2, Swapped
    <2> QED BY <2>1, <2>2, <2>3 DEF States
  <1> QED BY <1>2, <1>3, Turned

(* The turns of down. *)
LEMMA DownTurns ==
    ASSUME NEW h \in Seq(Items), NEW i \in Nat \ {0}, NEW n \in 0 .. Len(h)
    PROVE  \E t : /\ \A k \in 0 .. n : t[k] \in States(Len(h))
                  /\ t[0] = [heap |-> h, at |-> i]
                  /\ \A k \in 1 .. n : t[k] = DownTurn(t[k - 1], n)
                  /\ Down(h, i, n) = t[n].heap
  <1> DEFINE L == Len(h)
             V == States(L)
             first == [heap |-> h, at |-> i]
             turn == [k \in 1 .. n |-> [v \in V |-> DownTurn(v, n)]]
             Is(f) == f = [k \in 0 .. n |-> IF k = 0 THEN first ELSE DownTurn(f[k - 1], n)]
             f == CHOOSE f : Is(f)
  <1>1. L \in Nat /\ n \in 0 .. L /\ n \in Nat
    OBVIOUS
  <1>2. first \in V
    BY DEF States
  <1>3. Down(h, i, n) = f[n].heap
    BY DEF Down
  <1> HIDE DEF L, first
  <1>4. \A v \in V : DownTurn(v, n) \in V
    BY <1>1, TurnType, Zenon
  <1> HIDE DEF V
  <1>5. turn \in [1 .. n -> [V -> V]]
    BY <1>4
  <1>6. PICK g : LoopOf(g, n, V, first, turn)
    <2> HIDE DEF turn
    <2> QED BY <1>1, <1>2, <1>5, LoopValues, Zenon
  <1>7. Is(g)
    <2>1. ASSUME NEW k \in 0 .. n PROVE g[k] = IF k = 0 THEN first ELSE DownTurn(g[k - 1], n)
      <3>1. g[0] = first /\ g \in [0 .. n -> V]
        BY <1>6, Zenon DEF LoopOf
      <3>2. CASE k # 0
        <4>1. k \in 1 .. n /\ k - 1 \in 0 .. n
          BY <3>2, <1>1
        <4>2. g[k] = turn[k][g[k - 1]] /\ g[k - 1] \in V
          BY <1>6, <3>1, <4>1, Zenon DEF LoopOf
        <4>3. turn[k][g[k - 1]] = DownTurn(g[k - 1], n)
          BY <4>1, <4>2, Zenon
        <4> QED BY <3>2, <4>2, <4>3, Zenon
      <3> QED BY <3>1, <3>2, Zenon
    <2>2. g = [k \in 0 .. n |-> g[k]]
      BY <1>6, Zenon DEF LoopOf
    <2> QED BY <2>1, <2>2, Zenon
  <1>8. Is(f)
    <2> HIDE DEF Is
    <2> QED BY <1>7, Zenon
  <1> HIDE DEF f
  <1>9. f[0] = first /\ \A k \in 1 .. n : f[k] = DownTurn(f[k - 1], n)
    <2>1. 0 \in 0 .. n /\ \A k \in 1 .. n : k \in 0 .. n /\ k # 0
      BY <1>1
    <2> QED BY <2>1, <1>8, Zenon
  <1>10. \A k \in 0 .. n : f[k] \in V
    <2>1. \A k \in 1 .. n : f[k - 1] \in V => f[k] = turn[k][f[k - 1]]
      BY <1>9, Zenon
    <2>2. f[0] \in V
      BY <1>2, <1>9, Zenon
    <2> HIDE DEF turn
    <2> QED BY <1>1, <1>5, <2>1, <2>2, LoopStays, Zenon
  <1> QED BY <1>3, <1>9, <1>10, Zenon DEF V, L, first

(* The loop of down on the i-th item of h: only the item in hand may be    *)
(* greater than a child, and its parent is not greater than its children.  *)
Repairing(h, i, n, st) ==
    /\ st \in States(Len(h)) /\ SameItems(h, st.heap) /\ st.at >= i
    /\ \A k \in 1 .. Len(h) : k < i \/ k > n => st.heap[k] = h[k]
    /\ \A p, c \in i .. n : p # st.at /\ Child(p, c) => Rank(st.heap[p]) <= Rank(st.heap[c])
    /\ \A p, c \in i .. n : Child(p, st.at) /\ Child(st.at, c) => Rank(st.heap[p]) <= Rank(st.heap[c])

(* A turn that swaps goes on repairing, further down. *)
LEMMA Repairs ==
    ASSUME NEW h \in Seq(Items), NEW i \in Nat \ {0}, NEW n \in 0 .. Len(h),
           NEW st, Repairing(h, i, n, st),
           NEW least \in 1 .. n, Child(st.at, least), st.at \in 1 .. n,
           Rank(st.heap[least]) < Rank(st.heap[st.at]),
           \A c \in 1 .. n : Child(st.at, c) => Rank(st.heap[least]) <= Rank(st.heap[c])
    PROVE  Repairing(h, i, n, [heap |-> Swap(st.heap, st.at, least), at |-> least])
  <1> DEFINE f == st.heap
             a == st.at
             L == Len(h)
             g == Swap(f, a, least)
             new == [heap |-> g, at |-> least]
  <1>1. L \in Nat /\ n \in 0 .. L
    OBVIOUS
  <1>2. f \in Seq(Items) /\ Len(f) = L /\ a \in Nat \ {0}
    BY DEF Repairing, States
  <1>3. a \in 1 .. n /\ a >= i /\ least > a /\ least >= i /\ least \in 1 .. n
    BY <1>2 DEF Repairing, Child
  <1>4. a \in 1 .. L /\ least \in 1 .. L
    BY <1>1, <1>3
  <1>5. SameItems(h, f) /\ \A k \in 1 .. L : k < i \/ k > n => f[k] = h[k]
    BY Zenon DEF Repairing
  <1>6. \A p, c \in i .. n : p # a /\ Child(p, c) => Rank(f[p]) <= Rank(f[c])
    BY Zenon DEF Repairing
  <1>7. \A p, c \in i .. n : Child(p, a) /\ Child(a, c) => Rank(f[p]) <= Rank(f[c])
    BY Zenon DEF Repairing
  <1>8. Rank(f[least]) < Rank(f[a]) /\ \A c \in 1 .. n : Child(a, c) => Rank(f[least]) <= Rank(f[c])
    OBVIOUS
  <1>9. Child(a, least)
    BY Zenon
  <1> HIDE DEF f, a, L
  <1>10. /\ g \in Seq(Items) /\ Len(g) = L /\ SameItems(f, g)
         /\ g[a] = f[least] /\ g[least] = f[a]
         /\ \A k \in 1 .. L : k # a /\ k # least => g[k] = f[k]
    BY <1>2, <1>4, Swapped, ZenonT(30)
  <1> HIDE DEF g
  <1>11. \A k \in i .. n : k \in 1 .. L /\ k \in 1 .. n
    BY <1>1
  <1>12. \A k \in 1 .. L : Rank(f[k]) \in Nat
    <2>1. \A k \in 1 .. L : f[k] \in Items
      BY <1>2
    <2> QED BY <2>1, RankType, Zenon
  <1>13. new.heap = g /\ new.at = least /\ new \in States(L)
    BY <1>3, <1>10 DEF States
  <1> HIDE DEF new
  <1>14. SameItems(h, g)
    BY <1>5, <1>10, SameTransitive, Zenon
  <1>15. ASSUME NEW k \in 1 .. L, k < i \/ k > n PROVE g[k] = h[k]
    <2>1. k # a /\ k # least
      BY <1>3, <1>15
    <2> QED BY <2>1, <1>5, <1>10, <1>15, Zenon
  <1>16. ASSUME NEW p \in i .. n, NEW c \in i .. n, p # least, Child(p, c)
         PROVE  Rank(g[p]) <= Rank(g[c])
    <2>1. c # p /\ c > p /\ p \in 1 .. L /\ c \in 1 .. L /\ p \in 1 .. n /\ c \in 1 .. n
      BY <1>11, <1>16 DEF Child
    <2>2. Rank(f[p]) \in Nat /\ Rank(f[c]) \in Nat /\ Rank(f[a]) \in Nat /\ Rank(f[least]) \in Nat
      BY <2>1, <1>4, <1>12
    <2>3. CASE p = a /\ c = least
      <3>1. Rank(f[least]) <= Rank(f[a])
        BY <2>2, <1>8
      <3> QED BY <2>3, <3>1, <1>10, Zenon
    <2>4. CASE p = a /\ c # least
      <3>1. g[c] = f[c]
        BY <2>1, <2>4, <1>10
      <3>2. Rank(f[least]) <= Rank(f[c])
        BY <2>1, <2>4, <1>8, <1>16, Zenon
      <3> QED BY <2>4, <3>1, <3>2, <1>10, Zenon
    <2>5. CASE p # a /\ c = a
      <3>1. g[p] = f[p]
        BY <2>1, <2>5, <1>10, <1>16
      <3>2. least \in i .. n
        BY <1>3
      <3>3. Rank(f[p]) <= Rank(f[least])
        BY <2>5, <3>2, <1>7, <1>9, <1>16, Zenon
      <3> QED BY <2>5, <3>1, <3>3, <1>10, Zenon
    <2>6. CASE p # a /\ c # a
      <3>1. c # least
        BY <2>6, <1>2, <1>9, <1>16, SMTT(30) DEF Child
      <3>2. g[p] = f[p] /\ g[c] = f[c]
        BY <2>1, <2>6, <3>1, <1>10, <1>16
      <3> QED BY <2>6, <3>2, <1>6, <1>16, Zenon
    <2> QED BY <2>3, <2>4, <2>5, <2>6
  <1>17. ASSUME NEW p \in i .. n, NEW c \in i .. n, Child(p, least), Child(least, c)
         PROVE  Rank(g[p]) <= Rank(g[c])
    <2> p \in Nat \ {0} /\ c \in Nat /\ a \in Nat \ {0} /\ least \in Nat
      BY <1>2, <1>3
    <2>0. p = a
      <3>1. least = 2 * p \/ least = 2 * p + 1
        BY <1>17 DEF Child
      <3>2. least = 2 * a \/ least = 2 * a + 1
        BY <1>9 DEF Child
      <3> QED BY <3>1, <3>2
    <2>1. p = a /\ c # a /\ c # least
      <3>1. least > a
        BY <1>9 DEF Child
      <3>2. c > least
        BY <1>17, <3>1 DEF Child
      <3> QED BY <2>0, <3>1, <3>2
    <2>2. c \in 1 .. L /\ least \in i .. n /\ least # a
      BY <1>3, <1>11
    <2>3. g[p] = f[least] /\ g[c] = f[c]
      BY <2>1, <2>2, <1>10
    <2>4. Rank(f[least]) <= Rank(f[c])
      BY <2>2, <1>6, <1>17, Zenon
    <2> QED BY <2>3, <2>4, Zenon
  <1>18. Repairing(h, i, n, new)
    BY <1>3, <1>13, <1>14, <1>15, <1>16, <1>17, Zenon DEF Repairing, L
  <1> QED BY <1>18 DEF new, g, f, a

(* down makes a heap from the i-th item on, if there was one below it, and *)
(* moves no other items.                                                   *)
LEMMA DownHeap ==
    ASSUME NEW h \in Seq(Items), NEW i \in Nat \ {0}, NEW n \in 0 .. Len(h), HeapFrom(h, i + 1, n)
    PROVE  /\ SameItems(h, Down(h, i, n))
           /\ \A k \in 1 .. Len(h) : k < i \/ k > n => Down(h, i, n)[k] = h[k]
           /\ HeapFrom(Down(h, i, n), i, n)
  <1>1. PICK t : /\ \A k \in 0 .. n : t[k] \in States(Len(h))
                 /\ t[0] = [heap |-> h, at |-> i]
                 /\ \A k \in 1 .. n : t[k] = DownTurn(t[k - 1], n)
                 /\ Down(h, i, n) = t[n].heap
    BY DownTurns, Zenon
  <1> DEFINE L == Len(h)
             Ended(st) == /\ DownTurn(st, n) = st
                          /\ \A c \in 1 .. n : Child(st.at, c) => Rank(st.heap[st.at]) <= Rank(st.heap[c])
             Good(k) == Repairing(h, i, n, t[k]) /\ (Ended(t[k]) \/ t[k].at > k)
             S == {k \in Nat : k <= n => Good(k)}
  <1>2. L \in Nat /\ n \in 0 .. L /\ n \in Nat
    OBVIOUS
  <1>3. 0 \in S
    <2>1. t[0] \in States(Len(h)) /\ t[0].heap = h /\ t[0].at = i
      BY <1>1, <1>2
    <2>2. SameItems(h, h)
      BY DEF SameItems
    <2>3. ASSUME NEW p \in i .. n, NEW c \in i .. n, p # i, Child(p, c) PROVE Rank(h[p]) <= Rank(h[c])
      <3>1. p \in i + 1 .. n /\ c \in i + 1 .. n
        BY <1>2, <2>3 DEF Child
      <3> QED BY <2>3, <3>1, Zenon DEF HeapFrom
    <2>4. \A p \in i .. n : ~Child(p, i)
      BY DEF Child
    <2>5. i >= i /\ i > 0
      OBVIOUS
    <2>6. Repairing(h, i, n, t[0])
      BY <2>1, <2>2, <2>3, <2>4, <2>5, Zenon DEF Repairing
    <2> QED BY <2>1, <2>5, <2>6
  <1>4. ASSUME NEW k \in Nat, k \in S PROVE k + 1 \in S
    <2> HIDE DEF Good
    <2> SUFFICES ASSUME k + 1 <= n PROVE Good(k + 1)
      OBVIOUS
    <2>1. Good(k) /\ k + 1 \in 1 .. n /\ (k + 1) - 1 = k /\ k \in 0 .. n
      BY <1>2, <1>4
    <2>2. t[k + 1] = DownTurn(t[k], n) /\ t[k] \in States(L)
      BY <1>1, <2>1, SMTT(30)
    <2>3. Repairing(h, i, n, t[k])
      BY <2>1 DEF Good
    <2> HIDE DEF Ended
    <2>4. CASE Ended(t[k])
      <3>1. t[k + 1] = t[k]
        BY <2>2, <2>4 DEF Ended
      <3> QED BY <2>3, <2>4, <3>1, Zenon DEF Good
    <2>5. CASE ~Ended(t[k])
      <3>1. t[k].at > k /\ t[k].at \in Nat
        BY <2>1, <2>2, <2>5 DEF Good, States
      <3>2. PICK least \in 1 .. n :
                    /\ Child(t[k].at, least) /\ t[k].at \in 1 .. n
                    /\ Rank(t[k].heap[least]) < Rank(t[k].heap[t[k].at])
                    /\ \A c \in 1 .. n : Child(t[k].at, c) => Rank(t[k].heap[least]) <= Rank(t[k].heap[c])
                    /\ DownTurn(t[k], n) = [heap |-> Swap(t[k].heap, t[k].at, least), at |-> least]
        BY <1>2, <2>2, <2>5, Turned, Zenon DEF Ended
      <3>3. Repairing(h, i, n, t[k + 1])
        BY <2>2, <2>3, <3>2, Repairs, Zenon
      <3>4. t[k + 1].at > k + 1
        BY <2>2, <3>1, <3>2, SMTT(30) DEF Child
      <3> QED BY <3>3, <3>4, Zenon DEF Good
    <2> QED BY <2>4, <2>5
  <1>5. \A k \in Nat : k \in S
    <2> HIDE DEF S
    <2> QED BY <1>3, <1>4, Induction
  <1>6. Good(n)
    <2> HIDE DEF Good
    <2>1. n \in S /\ n <= n
      BY <1>2, <1>5, SMTT(30)
    <2> QED BY <2>1
  <1> DEFINE st == t[n]
  <1>7. Repairing(h, i, n, st) /\ st.at \in Nat
    BY <1>6, <1>1, <1>2, SMTT(30) DEF States
  <1>8. \A c \in 1 .. n : Child(st.at, c) => Rank(st.heap[st.at]) <= Rank(st.heap[c])
    <2>1. CASE Ended(st)
      BY <2>1
    <2>2. CASE st.at > n
      BY <1>2, <1>7, <2>2 DEF Child
    <2> QED BY <1>6, <2>1, <2>2
  <1> HIDE DEF st
  <1>9. ASSUME NEW p \in i .. n, NEW c \in i .. n, Child(p, c) PROVE Rank(st.heap[p]) <= Rank(st.heap[c])
    <2>1. c \in 1 .. n
      OBVIOUS
    <2>2. CASE p = st.at
      BY <1>8, <1>9, <2>1, <2>2, Zenon
    <2>3. CASE p # st.at
      BY <1>7, <1>9, <2>3, Zenon DEF Repairing
    <2> QED BY <2>2, <2>3
  <1>10. Down(h, i, n) = st.heap
    BY <1>1 DEF st
  <1>11. SameItems(h, st.heap) /\ \A k \in 1 .. Len(h) : k < i \/ k > n => st.heap[k] = h[k]
    BY <1>7, Zenon DEF Repairing
  <1> QED BY <1>9, <1>10, <1>11, Zenon DEF HeapFrom

(* down keeps the length of the heap. *)
LEMMA DownType ==
    ASSUME NEW h \in Seq(Items), NEW i \in Nat \ {0}, NEW n \in 0 .. Len(h)
    PROVE  Down(h, i, n) \in Seq(Items) /\ Len(Down(h, i, n)) = Len(h)
  <1>1. PICK t : /\ \A k \in 0 .. n : t[k] \in States(Len(h))
                 /\ t[0] = [heap |-> h, at |-> i]
                 /\ \A k \in 1 .. n : t[k] = DownTurn(t[k - 1], n)
                 /\ Down(h, i, n) = t[n].heap
    BY DownTurns, Zenon
  <1>2. t[n] \in States(Len(h))
    BY <1>1
  <1> QED BY <1>1, <1>2 DEF States

(* The turns of Init. *)
LEMMA InitTurns ==
    ASSUME NEW h \in Seq(Items), NEW m \in Nat, m <= Len(h)
    PROVE  \E t : /\ \A k \in 0 .. m : t[k] \in Seq(Items) /\ Len(t[k]) = Len(h)
                  /\ t[0] = h
                  /\ \A k \in 1 .. m : t[k] = Down(t[k - 1], m + 1 - k, Len(h))
                  /\ HeapInit(h, m) = t[m]
  <1> DEFINE L == Len(h)
             V == {g \in Seq(Items) : Len(g) = L}
             turn == [k \in 1 .. m |-> [g \in V |-> Down(g, m + 1 - k, L)]]
             Is(f) == f = [k \in 0 .. m |-> IF k = 0 THEN h ELSE Down(f[k - 1], m + 1 - k, L)]
             f == CHOOSE f : Is(f)
  <1>1. L \in Nat /\ L \in 0 .. L /\ h \in V
    OBVIOUS
  <1>2. HeapInit(h, m) = f[m]
    BY DEF HeapInit
  <1> HIDE DEF L
  <1>3. ASSUME NEW k \in 1 .. m, NEW g \in V PROVE Down(g, m + 1 - k, L) \in V
    <2>1. m + 1 - k \in Nat \ {0} /\ g \in Seq(Items) /\ Len(g) = L
      OBVIOUS
    <2>2. m + 1 - k \in Nat \ {0} /\ L \in 0 .. Len(g)
      BY <1>1, <2>1
    <2>3. Down(g, m + 1 - k, L) \in Seq(Items) /\ Len(Down(g, m + 1 - k, L)) = Len(g)
      BY <2>1, <2>2, DownType, Zenon
    <2> QED BY <2>1, <2>3, Zenon
  <1> HIDE DEF V
  <1>4. turn \in [1 .. m -> [V -> V]]
    BY <1>3
  <1>5. PICK g : LoopOf(g, m, V, h, turn)
    <2> HIDE DEF turn
    <2> QED BY <1>1, <1>4, LoopValues, Zenon
  <1>6. Is(g)
    <2>1. ASSUME NEW k \in 0 .. m PROVE g[k] = IF k = 0 THEN h ELSE Down(g[k - 1], m + 1 - k, L)
      <3>1. g[0] = h /\ g \in [0 .. m -> V]
        BY <1>5, Zenon DEF LoopOf
      <3>2. CASE k # 0
        <4>1. k \in 1 .. m /\ k - 1 \in 0 .. m
          BY <3>2
        <4>2. g[k] = turn[k][g[k - 1]] /\ g[k - 1] \in V
          BY <1>5, <3>1, <4>1, Zenon DEF LoopOf
        <4>3. turn[k][g[k - 1]] = Down(g[k - 1], m + 1 - k, L)
          BY <4>1, <4>2, Zenon
        <4> QED BY <3>2, <4>2, <4>3, Zenon
      <3> QED BY <3>1, <3>2, Zenon
    <2>2. g = [k \in 0 .. m |-> g[k]]
      BY <1>5, Zenon DEF LoopOf
    <2> QED BY <2>1, <2>2, Zenon
  <1>7. Is(f)
    <2> HIDE DEF Is
    <2> QED BY <1>6, Zenon
  <1> HIDE DEF f
  <1>8. f[0] = h /\ \A k \in 1 .. m : f[k] = Down(f[k - 1], m + 1 - k, L)
    <2>1. 0 \in 0 .. m /\ \A k \in 1 .. m : k \in 0 .. m /\ k # 0
      OBVIOUS
    <2> QED BY <2>1, <1>7, Zenon
  <1>9. \A k \in 0 .. m : f[k] \in V
    <2>1. \A k \in 1 .. m : f[k - 1] \in V => f[k] = turn[k][f[k - 1]]
      BY <1>8, Zenon
    <2>2. f[0] \in V
      BY <1>1, <1>8, Zenon
    <2> HIDE DEF turn
    <2> QED BY <1>4, <2>1, <2>2, LoopStays, Zenon
  <1>10. \A k \in 0 .. m : f[k] \in Seq(Items) /\ Len(f[k]) = L
    BY <1>9 DEF V
  <1> QED BY <1>2, <1>8, <1>10, Zenon DEF L

(* Init makes a heap of any sequence. *)
LEMMA InitHeap ==
    ASSUME NEW h \in Seq(Items)
    PROVE  LET g == HeapInit(h, Len(h) \div 2) IN SameItems(h, g) /\ HeapFrom(g, 1, Len(h))
  <1> DEFINE L == Len(h)
             m == L \div 2
  <1>1. L \in Nat
    OBVIOUS
  <1> HIDE DEF L
  <1>2. m \in Nat /\ m <= L /\ 2 * (m + 1) > L
    BY <1>1
  <1> HIDE DEF m
  <1>3. PICK t : /\ \A k \in 0 .. m : t[k] \in Seq(Items) /\ Len(t[k]) = L
                 /\ t[0] = h
                 /\ \A k \in 1 .. m : t[k] = Down(t[k - 1], m + 1 - k, L)
                 /\ HeapInit(h, m) = t[m]
    BY <1>2, InitTurns, Zenon DEF L
  <1> DEFINE Good(k) == SameItems(h, t[k]) /\ HeapFrom(t[k], m + 1 - k, L)
             S == {k \in Nat : k <= m => Good(k)}
  <1>4. 0 \in S
    <2>1. \A p \in m + 1 .. L, c \in m + 1 .. L : ~Child(p, c)
      BY <1>1, <1>2 DEF Child
    <2>2. HeapFrom(h, m + 1, L) /\ m + 1 - 0 = m + 1
      BY <1>2, <2>1 DEF HeapFrom
    <2>3. SameItems(h, h)
      BY DEF SameItems
    <2> QED BY <1>3, <2>2, <2>3
  <1>5. ASSUME NEW k \in Nat, k \in S PROVE k + 1 \in S
    <2> HIDE DEF Good
    <2> SUFFICES ASSUME k + 1 <= m PROVE Good(k + 1)
      OBVIOUS
    <2> DEFINE i == m + 1 - (k + 1)
    <2>1. Good(k) /\ k + 1 \in 1 .. m /\ (k + 1) - 1 = k /\ k \in 0 .. m
      BY <1>2, <1>5
    <2>2. i \in Nat \ {0} /\ i + 1 = m + 1 - k
      BY <1>2
    <2>3. t[k + 1] = Down(t[k], i, L) /\ t[k] \in Seq(Items) /\ Len(t[k]) = L
      BY <1>3, <2>1
    <2> HIDE DEF i
    <2>4. HeapFrom(t[k], i + 1, L) /\ SameItems(h, t[k])
      BY <2>1, <2>2 DEF Good
    <2>5. L \in 0 .. Len(t[k])
      BY <1>1, <2>3
    <2>6. SameItems(t[k], t[k + 1]) /\ HeapFrom(t[k + 1], i, L)
      BY <2>2, <2>3, <2>4, <2>5, DownHeap, Zenon
    <2>7. SameItems(h, t[k + 1])
      BY <2>4, <2>6, SameTransitive, Zenon
    <2> QED BY <2>6, <2>7 DEF Good, i
  <1>6. \A k \in Nat : k \in S
    <2> HIDE DEF S
    <2> QED BY <1>4, <1>5, Induction
  <1>7. Good(m)
    <2> HIDE DEF Good
    <2>1. m \in S /\ m <= m
      BY <1>2, <1>6
    <2> QED BY <2>1
  <1>8. m + 1 - m = 1
    BY <1>2
  <1> QED BY <1>3, <1>7, <1>8, Zenon DEF m, L

(* The first item of a heap is not greater than any other. *)
LEMMA RootLeast ==
    ASSUME NEW h \in Seq(Items), HeapFrom(h, 1, Len(h)), NEW k \in 1 .. Len(h)
    PROVE  Rank(h[1]) <= Rank(h[k])
  <1> DEFINE L == Len(h)
             T == {j \in 1 .. L : ~(Rank(h[1]) <= Rank(h[j]))}
  <1>1. L \in Nat /\ \A j \in 1 .. L : h[j] \in Items
    OBVIOUS
  <1>2. \A j \in 1 .. L : Rank(h[j]) \in Nat
    BY <1>1, RankType, Zenon
  <1> SUFFICES ASSUME T # {} PROVE FALSE
    OBVIOUS
  <1>3. PICK j \in T : \A m \in T : j <= m
    <2>1. T \subseteq Nat
      BY <1>1
    <2> HIDE DEF T
    <2> QED BY <2>1, LeastNumber, Zenon
  <1> HIDE DEF L
  <1>4. j \in 1 .. L /\ ~(Rank(h[1]) <= Rank(h[j]))
    BY <1>3
  <1>5. 1 \in 1 .. L /\ j # 1
    BY <1>1, <1>2, <1>4
  <1>6. PICK p \in 1 .. L : Child(p, j)
    <2>1. j \div 2 \in 1 .. L /\ (j = 2 * (j \div 2) \/ j = 2 * (j \div 2) + 1)
      BY <1>1, <1>4, <1>5
    <2> QED BY <2>1 DEF Child
  <1>7. p < j /\ p \notin T
    <2>1. p < j
      BY <1>4, <1>6 DEF Child
    <2>2. ~(j <= p)
      BY <2>1, <1>4
    <2> QED BY <1>3, <2>1, <2>2
  <1>8. Rank(h[1]) <= Rank(h[p])
    BY <1>6, <1>7
  <1>9. Rank(h[p]) <= Rank(h[j])
    BY <1>4, <1>6, Zenon DEF HeapFrom, L
  <1>10. Rank(h[1]) \in Nat /\ Rank(h[p]) \in Nat /\ Rank(h[j]) \in Nat
    BY <1>2, <1>4, <1>5, <1>6
  <1> QED BY <1>4, <1>8, <1>9, <1>10

(* Pop takes the first item of a heap and leaves a heap of the others. *)
LEMMA Popped ==
    ASSUME NEW h \in Seq(Items), h # <<>>, HeapFrom(h, 1, Len(h)), IsInjective(h)
    PROVE  LET rest == HeapPop(h).rest IN
           /\ HeapPop(h).item = h[1] /\ rest \in Seq(Items) /\ Len(rest) = Len(h) - 1
           /\ HeapFrom(rest, 1, Len(rest)) /\ IsInjective(rest)
           /\ \A k \in 1 .. Len(rest) : rest[k] # h[1] /\ \E j \in 1 .. Len(h) : rest[k] = h[j]
           /\ \A j \in 1 .. Len(h) : h[j] = h[1] \/ \E k \in 1 .. Len(rest) : rest[k] = h[j]
  <1> DEFINE L == Len(h)
             s == Swap(h, 1, L)
             d == Down(s, 1, L - 1)
             rest == [k \in 1 .. L - 1 |-> d[k]]
  <1>1. L \in Nat \ {0} /\ 1 \in 1 .. L /\ L \in 1 .. L
    OBVIOUS
  <1>2. /\ s \in Seq(Items) /\ Len(s) = L /\ s[1] = h[L] /\ s[L] = h[1]
        /\ \A k \in 1 .. L : k # 1 /\ k # L => s[k] = h[k]
        /\ SameItems(h, s)
    BY <1>1, Swapped, SMTT(30)
  <1>3. HeapPop(h) = PopLast(d)
    BY DEF HeapPop
  <1>4. \A p, c \in 1 .. L : Child(p, c) => Rank(h[p]) <= Rank(h[c])
    BY Zenon DEF HeapFrom
  <1> HIDE DEF s, L
  <1>5. HeapFrom(s, 1 + 1, L - 1)
    <2> SUFFICES ASSUME NEW p \in 2 .. L - 1, NEW c \in 2 .. L - 1, Child(p, c)
                 PROVE  Rank(s[p]) <= Rank(s[c])
      BY DEF HeapFrom
    <2>1. p \in 1 .. L /\ c \in 1 .. L /\ p # 1 /\ p # L /\ c # 1 /\ c # L
      BY <1>1
    <2>2. s[p] = h[p] /\ s[c] = h[c]
      BY <1>2, <2>1, Zenon
    <2> QED BY <1>4, <2>1, <2>2, Zenon
  <1>6. L - 1 \in 0 .. Len(s) /\ 1 \in Nat \ {0}
    BY <1>1, <1>2
  <1>7. /\ SameItems(s, d)
        /\ \A k \in 1 .. Len(s) : k < 1 \/ k > L - 1 => d[k] = s[k]
        /\ HeapFrom(d, 1, L - 1)
    BY <1>2, <1>5, <1>6, DownHeap, Zenon
  <1>8. d[L] = h[1]
    <2>1. L \in 1 .. Len(s) /\ L > L - 1
      BY <1>1, <1>2
    <2> QED BY <1>2, <1>7, <2>1, Zenon
  <1> HIDE DEF d
  <1>9. SameItems(h, d)
    BY <1>2, <1>7, SameTransitive, Zenon
  <1>10. d \in Seq(Items) /\ Len(d) = L /\ Range(d) = Range(h) /\ IsInjective(d)
    BY <1>9, Zenon DEF SameItems, L
  <1>11. DOMAIN d = 1 .. L /\ DOMAIN h = 1 .. L
    BY <1>10 DEF L
  <1>12. HeapPop(h).item = h[1]
    BY <1>3, <1>8, <1>10 DEF PopLast
  <1>13. HeapPop(h).rest = rest
    <2>1. HeapPop(h).rest = SubSeq(d, 1, L - 1)
      BY <1>3, <1>10 DEF PopLast
    <2>2. SubSeq(d, 1, L - 1) = rest
      BY <1>1, <1>10
    <2> QED BY <2>1, <2>2
  <1>14. \A k \in 1 .. L - 1 : k \in 1 .. L /\ k # L
    BY <1>1
  <1>15. rest \in [1 .. L - 1 -> Items]
    BY <1>10, <1>11, <1>14
  <1>16. rest \in Seq(Items) /\ Len(rest) = L - 1
    <2>1. L - 1 \in Nat
      BY <1>1
    <2> HIDE DEF rest
    <2> QED BY <1>15, <2>1, SequenceOf
  <1>17. \A k \in 1 .. L - 1 : rest[k] = d[k]
    OBVIOUS
  <1>18. DOMAIN rest = 1 .. L - 1
    OBVIOUS
  <1> HIDE DEF rest
  <1>19. HeapFrom(rest, 1, L - 1)
    BY <1>7, <1>17, Zenon DEF HeapFrom
  <1>20. \A i, j \in 1 .. L : d[i] = d[j] => i = j
    BY <1>10, <1>11, Zenon DEF IsInjective
  <1>21. IsInjective(rest)
    BY <1>14, <1>17, <1>18, <1>20, Zenon DEF IsInjective
  <1>22. ASSUME NEW k \in 1 .. L - 1
         PROVE  rest[k] # h[1] /\ \E j \in 1 .. L : rest[k] = h[j]
    <2>1. rest[k] # h[1]
      BY <1>1, <1>8, <1>14, <1>17, <1>20, Zenon
    <2>2. d[k] \in Range(h)
      BY <1>10, <1>11, <1>14, Zenon DEF Range
    <2>3. \E j \in 1 .. L : d[k] = h[j]
      BY <2>2, <1>11, Zenon DEF Range
    <2> QED BY <2>1, <2>3, <1>17, Zenon
  <1>23. ASSUME NEW j \in 1 .. L
         PROVE  h[j] = h[1] \/ \E k \in 1 .. L - 1 : rest[k] = h[j]
    <2>1. h[j] \in Range(d)
      BY <1>10, <1>11, Zenon DEF Range
    <2>2. PICK k \in 1 .. L : d[k] = h[j]
      BY <2>1, <1>11, Zenon DEF Range
    <2>3. CASE k = L
      BY <2>2, <2>3, <1>8, Zenon
    <2>4. CASE k # L
      <3>1. k \in 1 .. L - 1
        BY <1>1, <2>4
      <3> QED BY <2>2, <3>1, <1>17, Zenon
    <2> QED BY <2>3, <2>4
  <1>24. \A j \in 1 .. L : h[j] = h[1] \/ \E k \in 1 .. L - 1 : rest[k] = h[j]
    BY <1>23, Zenon
  <1>25. \A k \in 1 .. L - 1 : rest[k] # h[1] /\ \E j \in 1 .. L : rest[k] = h[j]
    BY <1>22, Zenon
  <1> QED BY <1>12, <1>13, <1>16, <1>19, <1>21, <1>24, <1>25, Zenon DEF L
-----------------------------------------------------------------------------
(* The places handled and in hand, in order. *)
Taken == IF inHand = NoItem THEN handled ELSE Append(handled, inHand.index)

(* The queue is a heap of the batch's items, each at most once; every     *)
(* place of the batch is in it or was taken; and what has been handled has *)
(* its answer in its place.                                               *)
Queued ==
    /\ \A k \in 1 .. Len(pq) : pq[k].msg = batch[pq[k].index]
    /\ IsInjective(pq) /\ HeapFrom(pq, 1, Len(pq))

(* Every place of the batch is queued or was taken. *)
NoneForgotten ==
    \A b \in 1 .. Len(batch) :
        \/ \E k \in 1 .. Len(pq) : pq[k].index = b
        \/ \E k \in 1 .. Len(Taken) : Taken[k] = b

(* The answer of what was handled is in its place. *)
Placed == \A k \in 1 .. Len(handled) : answers[handled[k]].index = handled[k]

(* Answers: the item and the handler that was found for it. *)
Found == [index : Nat, handler : HandlerFuncs \cup {NoHandler}]

(* The inductive invariant of the router. *)
RInv ==
    /\ RouterTypeOK /\ answers \in Seq(Found)
    /\ inHand \in Found /\ (inHand = NoItem \/ inHand.index \in 1 .. Len(batch))
    /\ Queued /\ UrgentFirst /\ NoneForgotten /\ Placed

(* UrgentFirst says of the places taken that they are apart, in order of  *)
(* priority, apart from those queued and not less urgent, and that none is *)
(* missing.                                                               *)
Apart(order, b) == \A i, j \in DOMAIN order :
    i < j => order[i] # order[j] /\ b[order[i]].priority <= b[order[j]].priority
Ahead(order, b, q) == \A i \in DOMAIN order, k \in DOMAIN q :
    order[i] # q[k].index /\ b[order[i]].priority <= q[k].msg.priority

(* UrgentFirst in those parts. *)
LEMMA UrgentParts ==
    UrgentFirst <=> Apart(Taken, batch) /\ Ahead(Taken, batch, pq) /\ Len(Taken) + Len(pq) = Len(batch)
  BY Zenon DEF UrgentFirst, Taken, Apart, Ahead

(* The same of the next state. *)
LEMMA UrgentPartsNext ==
    UrgentFirst' <=> /\ Apart(Taken', batch') /\ Ahead(Taken', batch', pq')
                     /\ Len(Taken') + Len(pq') = Len(batch')
  BY Zenon DEF UrgentFirst, Taken, Apart, Ahead

(* A new router has no batch. *)
LEMMA RInitInv == NewRouter => RInv
  <1> SUFFICES ASSUME NewRouter PROVE RInv
    OBVIOUS
  <1>1. /\ handlers = [t \in MsgTypes |-> NoHandler]
        /\ batch = <<>> /\ pq = <<>> /\ answers = <<>> /\ handled = <<>> /\ inHand = NoItem
    BY Zenon DEF NewRouter
  <1>2. handlers \in [MsgTypes -> HandlerFuncs \cup {NoHandler}]
    BY <1>1
  <1>3. RouterTypeOK /\ answers \in Seq(Found)
    BY <1>1, <1>2 DEF RouterTypeOK
  <1>4. inHand \in Found
    BY <1>1 DEF Found, NoItem
  <1>5. Taken = <<>>
    BY <1>1, Zenon DEF Taken
  <1>6. UrgentFirst
    BY <1>1, <1>5, UrgentParts DEF Apart, Ahead
  <1>7. Queued /\ NoneForgotten /\ Placed
    BY <1>1 DEF Queued, NoneForgotten, Placed, HeapFrom, IsInjective
  <1> QED BY <1>1, <1>3, <1>4, <1>6, <1>7, Zenon DEF RInv

(* Handle only changes the table of handlers. *)
LEMMA HandleInv ==
    ASSUME RInv, NEW t \in MsgTypes, NEW f \in HandlerFuncs, Handle(t, f)
    PROVE  RInv'
  <1>1. UNCHANGED <<batch, pq, inHand, answers, handled>>
    BY Zenon DEF Handle
  <1>2. handlers' \in [MsgTypes -> HandlerFuncs \cup {NoHandler}]
    BY DEF Handle, RInv, RouterTypeOK
  <1>3. RouterTypeOK'
    BY <1>1, <1>2 DEF RInv, RouterTypeOK
  <1>4. UrgentFirst' /\ Queued'
    <2>1. UrgentFirst /\ Queued
      BY Zenon DEF RInv
    <2>2. UrgentFirst'
      <3>1. Taken' = Taken
        BY <1>1, Zenon DEF Taken
      <3> QED BY <1>1, <2>1, <3>1, UrgentParts, UrgentPartsNext, Zenon
    <2>3. Queued'
      BY <1>1, <2>1, Zenon DEF Queued
    <2> QED BY <2>2, <2>3
  <1>5. NoneForgotten' /\ Placed'
    BY <1>1, Zenon DEF RInv, NoneForgotten, Taken, Placed
  <1> QED BY <1>1, <1>3, <1>4, <1>5 DEF RInv

(* DispatchBatch starts from a heap of the whole batch. *)
LEMMA SubmitInv ==
    ASSUME RInv, NEW n \in 1 .. MaxBatch, NEW messages \in [1 .. n -> Messages], Submit(messages)
    PROVE  RInv'
  <1> DEFINE h == [i \in 1 .. n |-> [msg |-> messages[i], index |-> i]]
  <1>0. n \in Nat /\ MaxBatch \in Nat
    BY RouterAssumption
  <1>1. messages \in Seq(Messages) /\ Len(messages) = n /\ DOMAIN messages = 1 .. n
    BY <1>0, SequenceOf
  <1>2. /\ batch = <<>> /\ batch' = messages
        /\ pq' = HeapInit(h, n \div 2)
        /\ answers' = [i \in 1 .. n |-> NoItem]
        /\ UNCHANGED <<handlers, inHand, handled>>
    BY <1>1 DEF Submit
  <1>3. h \in [1 .. n -> Items] /\ \A i \in 1 .. n : h[i].msg = messages[i] /\ h[i].index = i
    BY <1>0 DEF Items
  <1>4. h \in Seq(Items) /\ Len(h) = n /\ DOMAIN h = 1 .. n
    <2> HIDE DEF h
    <2> QED BY <1>0, <1>3, SequenceOf
  <1> HIDE DEF h
  <1>5. SameItems(h, pq') /\ HeapFrom(pq', 1, n)
    BY <1>2, <1>4, InitHeap, Zenon
  <1>6. IsInjective(h)
    <2> SUFFICES ASSUME NEW i \in 1 .. n, NEW j \in 1 .. n, h[i] = h[j] PROVE i = j
      BY <1>4, Zenon DEF IsInjective
    <2>1. h[i].index = i /\ h[j].index = j
      BY <1>3, Zenon
    <2> QED BY <2>1, Zenon
  <1>7. pq' \in Seq(Items) /\ Len(pq') = n /\ Range(pq') = Range(h) /\ IsInjective(pq')
    BY <1>4, <1>5, <1>6, Zenon DEF SameItems
  <1>8. DOMAIN pq' = 1 .. n
    BY <1>0, <1>7
  <1>9. ASSUME NEW k \in 1 .. n PROVE \E i \in 1 .. n : pq'[k] = h[i]
    <2>1. pq'[k] \in Range(h)
      BY <1>7, <1>8, Zenon DEF Range
    <2> QED BY <2>1, <1>4, Zenon DEF Range
  <1>10. ASSUME NEW i \in 1 .. n PROVE \E k \in 1 .. n : pq'[k] = h[i]
    <2>1. h[i] \in Range(pq')
      BY <1>4, <1>7, Zenon DEF Range
    <2> QED BY <2>1, <1>8, Zenon DEF Range
  <1>11. ASSUME NEW k \in 1 .. n
         PROVE  /\ pq'[k].index \in 1 .. n /\ pq'[k].msg = messages[pq'[k].index]
                /\ pq'[k] \in [msg : Messages, index : 1 .. n]
    <2>1. PICK i \in 1 .. n : pq'[k] = h[i]
      BY <1>9, Zenon
    <2>2. h[i].msg = messages[i] /\ h[i].index = i
      BY <1>3, Zenon
    <2>3. h[i] \in [msg : Messages, index : 1 .. n]
      BY DEF h
    <2> QED BY <2>1, <2>2, <2>3, Zenon
  <1>12. Len(batch) = 0 /\ Len(batch') = n
    BY <1>1, <1>2
  <1>13. inHand = NoItem /\ handled = <<>>
    <2>1. inHand = NoItem
      BY <1>12 DEF RInv
    <2>2. Len(handled) + Len(pq) = 0 /\ Len(handled) \in Nat /\ Len(pq) \in Nat
      <3>1. Taken = handled
        BY <2>1, Zenon DEF Taken
      <3>2. Len(Taken) + Len(pq) = Len(batch)
        BY UrgentParts, Zenon DEF RInv
      <3>3. Len(handled) \in Nat /\ Len(pq) \in Nat
        BY DEF RInv, RouterTypeOK
      <3> QED BY <3>1, <3>2, <3>3, <1>12
    <2>3. handled = <<>>
      BY <2>2 DEF RInv, RouterTypeOK
    <2> QED BY <2>1, <2>3
  <1>14. inHand' = NoItem /\ handled' = <<>> /\ Taken' = <<>>
    BY <1>2, <1>13, Zenon DEF Taken
  <1>15. pq' \in Seq([msg : Messages, index : 1 .. n])
    <2>1. \A k \in 1 .. n : pq'[k] \in [msg : Messages, index : 1 .. n]
      BY <1>11, Zenon
    <2>2. pq' \in [1 .. n -> [msg : Messages, index : 1 .. n]]
      BY <1>7, <1>8, <2>1
    <2> QED BY <1>0, <2>2, SequenceOf, Zenon
  <1>16. answers' \in Seq(Found) /\ Len(answers') = n
    <2>1. NoItem \in Found
      BY DEF NoItem, Found
    <2>2. answers' \in [1 .. n -> Found]
      BY <1>2, <2>1
    <2> QED BY <1>0, <2>2, SequenceOf
  <1>17. RouterTypeOK'
    <2>1. handlers' \in [MsgTypes -> HandlerFuncs \cup {NoHandler}]
      BY <1>2, Zenon DEF RInv, RouterTypeOK
    <2>2. handled' \in Seq(1 .. Len(batch'))
      BY <1>14
    <2> QED BY <1>1, <1>2, <1>12, <1>15, <1>16, <2>1, <2>2, Zenon DEF RouterTypeOK
  <1>18. Queued'
    BY <1>2, <1>5, <1>7, <1>11, Zenon DEF Queued
  <1>19. UrgentFirst'
    <2>1. Apart(Taken', batch') /\ Ahead(Taken', batch', pq')
      BY <1>14 DEF Apart, Ahead
    <2>2. Len(Taken') + Len(pq') = Len(batch')
      BY <1>7, <1>12, <1>14, <1>0
    <2> QED BY <2>1, <2>2, UrgentPartsNext, Zenon
  <1>20. NoneForgotten'
    <2> SUFFICES ASSUME NEW i \in 1 .. n PROVE \E k \in 1 .. Len(pq') : pq'[k].index = i
      BY <1>12, Zenon DEF NoneForgotten
    <2>1. PICK k \in 1 .. n : pq'[k] = h[i]
      BY <1>10, Zenon
    <2>2. h[i].index = i
      BY <1>3, Zenon
    <2> QED BY <1>7, <2>1, <2>2, Zenon
  <1>21. Placed'
    BY <1>14 DEF Placed
  <1>22. inHand' \in Found
    BY <1>14 DEF NoItem, Found
  <1> QED BY <1>14, <1>16, <1>17, <1>18, <1>19, <1>20, <1>21, <1>22, Zenon DEF RInv

(* heap.Pop takes an item that none of the rest precedes. *)
LEMMA TakeInv ==
    ASSUME RInv, Take
    PROVE  RInv'
  <1> DEFINE N == Len(batch)
             L == Len(pq)
             place == pq[1].index
  <1>1. /\ pq # <<>> /\ inHand = NoItem /\ pq' = HeapPop(pq).rest
        /\ inHand' = [index |-> HeapPop(pq).item.index, handler |-> handlers[HeapPop(pq).item.msg.type]]
        /\ UNCHANGED <<handlers, batch, answers, handled>>
    BY Zenon DEF Take
  <1>2. /\ RouterTypeOK /\ answers \in Seq(Found) /\ Queued /\ UrgentFirst /\ NoneForgotten /\ Placed
    BY Zenon DEF RInv
  <1>3. /\ handlers \in [MsgTypes -> HandlerFuncs \cup {NoHandler}] /\ batch \in Seq(Messages)
        /\ pq \in Seq([msg : Messages, index : 1 .. N]) /\ handled \in Seq(1 .. N)
    BY <1>2, Zenon DEF RouterTypeOK
  <1>4. N \in Nat /\ L \in Nat \ {0} /\ DOMAIN pq = 1 .. L /\ 1 \in 1 .. L
    BY <1>1, <1>3
  <1>5. \A k \in 1 .. L : pq[k] \in [msg : Messages, index : 1 .. N]
    BY <1>3, <1>4, ElementsIn, Zenon
  <1>6. \A k \in 1 .. L : /\ pq[k].index \in 1 .. N /\ pq[k].msg \in Messages
                          /\ pq[k].msg = batch[pq[k].index]
    BY <1>2, <1>5 DEF Queued
  <1>7. pq \in Seq(Items)
    <2>1. \A k \in 1 .. L : pq[k] \in Items
      BY <1>5 DEF Items
    <2>2. pq = [k \in 1 .. L |-> pq[k]]
      BY <1>3, <1>4
    <2>3. pq \in [1 .. L -> Items]
      BY <2>1, <2>2, Zenon
    <2> QED BY <1>4, <2>3, SequenceOf, SMTT(30)
  <1>8. IsInjective(pq) /\ HeapFrom(pq, 1, L)
    BY <1>2, Zenon DEF Queued
  <1>9. /\ HeapPop(pq).item = pq[1] /\ pq' \in Seq(Items) /\ Len(pq') = L - 1
        /\ HeapFrom(pq', 1, Len(pq')) /\ IsInjective(pq')
        /\ \A k \in 1 .. Len(pq') : pq'[k] # pq[1] /\ \E j \in 1 .. L : pq'[k] = pq[j]
        /\ \A j \in 1 .. L : pq[j] = pq[1] \/ \E k \in 1 .. Len(pq') : pq'[k] = pq[j]
    BY <1>1, <1>7, <1>8, Popped, ZenonT(30)
  <1>10. \A k \in 1 .. L : Rank(pq[1]) <= Rank(pq[k])
    BY <1>7, <1>8, RootLeast, Zenon
  <1>11. DOMAIN pq' = 1 .. L - 1 /\ Len(pq') \in Nat
    BY <1>4, <1>9
  <1>12. place \in 1 .. N /\ pq[1].msg \in Messages /\ pq[1].msg = batch[place]
    BY <1>4, <1>6, Zenon
  <1>13. inHand' \in Found /\ inHand'.index = place
    <2>1. pq[1].msg.type \in MsgTypes
      BY <1>12 DEF Messages
    <2>2. handlers[pq[1].msg.type] \in HandlerFuncs \cup {NoHandler}
      BY <1>3, <2>1, Zenon
    <2> HIDE DEF place
    <2>3. inHand' = [index |-> place, handler |-> handlers[pq[1].msg.type]]
      BY <1>1, <1>9, Zenon DEF place
    <2>4. place \in Nat
      BY <1>4, <1>12
    <2> QED BY <2>2, <2>3, <2>4, SMTT(30) DEF Found
  <1> HIDE DEF N, L, place
  <1>14. inHand' # NoItem
    <2>1. NoItem.index = 0 /\ place # 0
      BY <1>4, <1>12 DEF NoItem
    <2> QED BY <1>13, <2>1, Zenon
  <1>15. Taken = handled /\ Taken' = Append(handled, place)
    BY <1>1, <1>13, <1>14, Zenon DEF Taken
  <1>16. PICK m \in Nat : m = Len(handled) /\ DOMAIN handled = 1 .. m
    BY <1>3
  <1>17. /\ Len(Taken') = m + 1 /\ DOMAIN Taken' = 1 .. m + 1
         /\ \A i \in 1 .. m : Taken'[i] = handled[i] /\ handled[i] \in 1 .. N
         /\ Taken'[m + 1] = place
    <2> DEFINE S == 1 .. N
    <2>1. handled \in Seq(S) /\ place \in S
      BY <1>3, <1>12
    <2> HIDE DEF S
    <2>2. Append(handled, place) \in Seq(S) /\ Len(Append(handled, place)) = m + 1
      BY <1>16, <2>1
    <2>3. \A i \in 1 .. m : Append(handled, place)[i] = handled[i] /\ handled[i] \in S
      BY <1>16, <2>1
    <2>4. Append(handled, place)[m + 1] = place
      BY <1>16, <2>1
    <2>5. DOMAIN Append(handled, place) = 1 .. m + 1
      BY <2>2
    <2> QED BY <1>15, <2>2, <2>3, <2>4, <2>5, Zenon DEF S
  <1>18. Apart(handled, batch) /\ Ahead(handled, batch, pq) /\ m + L = N
    BY <1>2, <1>15, <1>16, UrgentParts, Zenon DEF N, L
  <1>19. \A i \in 1 .. m + 1 : i \in 1 .. m \/ i = m + 1
    OBVIOUS
  <1>20. Apart(Taken', batch)
    <2> SUFFICES ASSUME NEW i \in 1 .. m + 1, NEW j \in 1 .. m + 1, i < j
                 PROVE  /\ Taken'[i] # Taken'[j]
                        /\ batch[Taken'[i]].priority <= batch[Taken'[j]].priority
      BY <1>17, Zenon DEF Apart
    <2>1. i \in 1 .. m
      OBVIOUS
    <2>2. CASE j \in 1 .. m
      BY <2>1, <2>2, <1>16, <1>17, <1>18, Zenon DEF Apart
    <2>3. CASE j = m + 1
      <3>1. handled[i] # place /\ batch[handled[i]].priority <= pq[1].msg.priority
        BY <2>1, <1>4, <1>16, <1>18, Zenon DEF Ahead, place
      <3> QED BY <2>1, <2>3, <3>1, <1>12, <1>17, Zenon
    <2> QED BY <1>19, <2>2, <2>3, Zenon
  <1>21. Ahead(Taken', batch, pq')
    <2> SUFFICES ASSUME NEW i \in 1 .. m + 1, NEW k \in 1 .. L - 1
                 PROVE  /\ Taken'[i] # pq'[k].index
                        /\ batch[Taken'[i]].priority <= pq'[k].msg.priority
      BY <1>11, <1>17, Zenon DEF Ahead
    <2>1. pq'[k] # pq[1]
      BY <1>9, Zenon
    <2>2. PICK j \in 1 .. L : pq'[k] = pq[j]
      BY <1>9, Zenon
    <2>3. CASE i \in 1 .. m
      BY <2>2, <2>3, <1>4, <1>16, <1>17, <1>18, Zenon DEF Ahead
    <2>4. CASE i = m + 1
      <3>1. pq[j].index # place
        <4> SUFFICES ASSUME pq[j].index = place PROVE FALSE
          OBVIOUS
        <4>1. pq[j].msg = pq[1].msg /\ pq[j].index = pq[1].index
          BY <1>6, <1>12, Zenon DEF place
        <4>2. pq[j] \in [msg : Messages, index : 1 .. N] /\ pq[1] \in [msg : Messages, index : 1 .. N]
          BY <1>4, <1>5, Zenon
        <4>3. pq[j] = pq[1]
          BY <4>1, <4>2
        <4> QED BY <2>1, <2>2, <4>3, Zenon
      <3>2. pq[1].msg.priority <= pq[j].msg.priority
        BY <1>10, Zenon DEF Rank
      <3> QED BY <2>2, <2>4, <3>1, <3>2, <1>12, <1>17, Zenon
    <2> QED BY <1>19, <2>3, <2>4, Zenon
  <1>22. UrgentFirst'
    <2>1. Len(Taken') + Len(pq') = N
      BY <1>4, <1>9, <1>17, <1>18
    <2>2. batch' = batch
      BY <1>1, Zenon
    <2> QED BY <2>1, <2>2, <1>20, <1>21, UrgentPartsNext, Zenon DEF N
  <1>23. Queued'
    <2>1. ASSUME NEW k \in 1 .. Len(pq') PROVE pq'[k].msg = batch[pq'[k].index]
      <3>1. PICK j \in 1 .. L : pq'[k] = pq[j]
        BY <1>9, Zenon
      <3>2. pq[j].msg = batch[pq[j].index]
        BY <1>6, Zenon
      <3> QED BY <3>1, <3>2, Zenon
    <2> QED BY <2>1, <1>1, <1>9, Zenon DEF Queued
  <1>24. NoneForgotten'
    <2> SUFFICES ASSUME NEW b \in 1 .. N
                 PROVE  \/ \E k \in 1 .. Len(pq') : pq'[k].index = b
                        \/ \E k \in 1 .. Len(Taken') : Taken'[k] = b
      BY <1>1, Zenon DEF NoneForgotten, N
    <2>0. m + 1 \in 1 .. m + 1 /\ \A k \in 1 .. m : k \in 1 .. m + 1
      OBVIOUS
    <2>1. CASE \E k \in 1 .. L : pq[k].index = b
      <3>1. PICK k \in 1 .. L : pq[k].index = b
        BY <2>1, Zenon
      <3>2. CASE pq[k] = pq[1]
        BY <2>0, <3>1, <3>2, <1>17, Zenon DEF place
      <3>3. CASE \E j \in 1 .. Len(pq') : pq'[j] = pq[k]
        BY <3>1, <3>3, Zenon
      <3> QED BY <1>9, <3>2, <3>3, Zenon
    <2>2. CASE \E k \in 1 .. m : handled[k] = b
      BY <2>0, <2>2, <1>17, Zenon
    <2> QED BY <2>1, <2>2, <1>2, <1>15, <1>16, Zenon DEF NoneForgotten, N, L
  <1>25. Placed'
    BY <1>1, <1>2, Zenon DEF Placed
  <1>26. RouterTypeOK'
    <2>1. pq' \in Seq([msg : Messages, index : 1 .. N])
      <3>1. \A k \in 1 .. L - 1 : pq'[k] \in [msg : Messages, index : 1 .. N]
        BY <1>5, <1>9, Zenon
      <3>2. pq' = [k \in 1 .. L - 1 |-> pq'[k]] /\ L - 1 \in Nat
        BY <1>4, <1>9, <1>11
      <3>3. pq' \in [1 .. L - 1 -> [msg : Messages, index : 1 .. N]]
        BY <3>1, <3>2, Zenon
      <3> QED BY <3>2, <3>3, SequenceOf, Zenon
    <2> QED BY <1>1, <1>2, <2>1, Zenon DEF RouterTypeOK, N
  <1> QED BY <1>1, <1>2, <1>12, <1>13, <1>22, <1>23, <1>24, <1>25, <1>26, Zenon DEF RInv, N

(* The answer is stored at the index of the item in hand. *)
LEMMA AnswerInv ==
    ASSUME RInv, Answer
    PROVE  RInv'
  <1> DEFINE N == Len(batch)
             place == inHand.index
  <1>1. /\ inHand # NoItem /\ answers' = [answers EXCEPT ![place] = inHand]
        /\ handled' = Append(handled, place) /\ inHand' = NoItem
        /\ UNCHANGED <<handlers, batch, pq>>
    BY Zenon DEF Answer, Slot
  <1>2. /\ RouterTypeOK /\ answers \in Seq(Found) /\ Queued /\ UrgentFirst /\ NoneForgotten /\ Placed
        /\ inHand \in Found /\ place \in 1 .. N
    BY <1>1, Zenon DEF RInv
  <1>3. handled \in Seq(1 .. N) /\ Len(answers) = N /\ N \in Nat
    BY <1>2 DEF RouterTypeOK
  <1>4. Taken = handled' /\ Taken' = handled'
    BY <1>1, Zenon DEF Taken
  <1> HIDE DEF N, place
  <1>5. /\ answers' \in Seq(Found) /\ Len(answers') = N /\ answers'[place] = inHand
        /\ \A b \in 1 .. N : b # place => answers'[b] = answers[b]
    BY <1>1, <1>2, <1>3
  <1>6. PICK m \in Nat : m = Len(handled)
    BY <1>3
  <1> DEFINE S == 1 .. N
  <1>7. handled \in Seq(S) /\ place \in S
    BY <1>2, <1>3
  <1> HIDE DEF S
  <1>8. handled' \in Seq(S) /\ Len(handled') = m + 1
    BY <1>1, <1>6, <1>7
  <1>9. \A i \in 1 .. m : handled'[i] = handled[i] /\ handled[i] \in S
    BY <1>1, <1>6, <1>7
  <1>10. handled'[m + 1] = place
    BY <1>1, <1>6, <1>7
  <1>11. Placed'
    <2> SUFFICES ASSUME NEW k \in 1 .. m + 1 PROVE answers'[handled'[k]].index = handled'[k]
      BY <1>8, Zenon DEF Placed
    <2>1. CASE handled'[k] = place
      BY <2>1, <1>5, Zenon DEF place
    <2>2. CASE handled'[k] # place
      <3>1. k \in 1 .. m
        BY <2>2, <1>10
      <3>2. answers[handled[k]].index = handled[k]
        BY <3>1, <1>2, <1>6, Zenon DEF Placed
      <3> QED BY <2>2, <3>1, <3>2, <1>5, <1>9, Zenon DEF S
    <2> QED BY <2>1, <2>2
  <1>12. RouterTypeOK'
    BY <1>1, <1>2, <1>5, <1>8, Zenon DEF RouterTypeOK, N, S
  <1>13. UrgentFirst'
    BY <1>1, <1>2, <1>4, UrgentParts, UrgentPartsNext, Zenon
  <1>14. Queued'
    BY <1>1, <1>2, Zenon DEF Queued
  <1>15. NoneForgotten'
    <2>1. Taken' = Taken /\ batch' = batch /\ pq' = pq
      BY <1>1, <1>4, Zenon
    <2> QED BY <1>2, <2>1, Zenon DEF NoneForgotten
  <1>16. inHand' \in Found
    BY <1>1 DEF NoItem, Found
  <1> QED BY <1>1, <1>5, <1>11, <1>12, <1>13, <1>14, <1>15, <1>16, Zenon DEF RInv

(* The batch returns once nothing is queued. *)
LEMMA ReturnAnswersInv ==
    ASSUME RInv, ReturnAnswers
    PROVE  RInv'
  <1>1. /\ batch' = <<>> /\ pq' = <<>> /\ answers' = <<>> /\ handled' = <<>> /\ inHand' = NoItem
        /\ handlers' = handlers
    BY Zenon DEF ReturnAnswers
  <1>2. handlers' \in [MsgTypes -> HandlerFuncs \cup {NoHandler}]
    BY <1>1, Zenon DEF RInv, RouterTypeOK
  <1>3. RouterTypeOK' /\ answers' \in Seq(Found)
    BY <1>1, <1>2 DEF RouterTypeOK
  <1>4. inHand' \in Found
    BY <1>1 DEF Found, NoItem
  <1>5. Taken' = <<>>
    BY <1>1, Zenon DEF Taken
  <1>6. UrgentFirst'
    BY <1>1, <1>5, UrgentPartsNext DEF Apart, Ahead
  <1>7. Queued' /\ NoneForgotten' /\ Placed'
    BY <1>1 DEF Queued, NoneForgotten, Placed, HeapFrom, IsInjective
  <1> QED BY <1>1, <1>3, <1>4, <1>6, <1>7, Zenon DEF RInv

(* The router's invariant holds in every behaviour. *)
THEOREM RouterInductive == RouterSpec => []RInv
  <1>1. RInv /\ [RouterNext]_routerVars => RInv'
    <2> SUFFICES ASSUME RInv, [RouterNext]_routerVars PROVE RInv'
      OBVIOUS
    <2>1. ASSUME NEW t \in MsgTypes, NEW f \in HandlerFuncs, Handle(t, f) PROVE RInv'
      BY <2>1, HandleInv, Zenon
    <2>2. ASSUME NEW n \in 1 .. MaxBatch, NEW messages \in [1 .. n -> Messages], Submit(messages)
          PROVE  RInv'
      BY <2>2, SubmitInv, Zenon
    <2>3. CASE Take
      BY <2>3, TakeInv, Zenon
    <2>4. CASE Answer
      BY <2>4, AnswerInv, Zenon
    <2>5. CASE ReturnAnswers
      BY <2>5, ReturnAnswersInv, Zenon
    <2>6. CASE UNCHANGED routerVars
      <3>1. UNCHANGED <<handlers, batch, pq, inHand, answers, handled>>
        BY <2>6, Zenon DEF routerVars
      <3>2. Taken' = Taken
        BY <3>1, Zenon DEF Taken
      <3>3. RouterTypeOK'
        BY <3>1, Zenon DEF RInv, RouterTypeOK
      <3>4. UrgentFirst'
        BY <3>1, <3>2, UrgentParts, UrgentPartsNext, Zenon DEF RInv
      <3>5. Queued' /\ NoneForgotten' /\ Placed'
        BY <3>1, <3>2, Zenon DEF RInv, Queued, NoneForgotten, Placed
      <3> QED BY <3>1, <3>3, <3>4, <3>5, Zenon DEF RInv
    <2> QED BY <2>1, <2>2, <2>3, <2>4, <2>5, <2>6, Zenon DEF RouterNext
  <1> QED BY <1>1, RInitInv, PTL DEF RouterSpec

(* UrgentFirst: DispatchBatch handles the messages of a batch in order of  *)
(* priority, whatever their order in the batch, for every length of batch. *)
THEOREM BatchInPriorityOrder == RouterSpec => []UrgentFirst
  <1>1. RInv => UrgentFirst
    BY Zenon DEF RInv
  <1> QED BY <1>1, RouterInductive, PTL

(* AnswersInPlace: when DispatchBatch returns, the i-th result is the      *)
(* answer to the i-th message of the batch.                                *)
THEOREM ResultsInPlace == RouterSpec => []AnswersInPlace
  <1>1. ASSUME RInv PROVE AnswersInPlace
    <2> SUFFICES ASSUME pq = <<>>, inHand = NoItem, NEW i \in DOMAIN batch
                 PROVE  answers[i].index = i
      BY Zenon DEF AnswersInPlace
    <2>1. i \in 1 .. Len(batch)
      BY <1>1 DEF RInv, RouterTypeOK
    <2>2. Taken = handled /\ 1 .. Len(pq) = {}
      BY DEF Taken
    <2>3. PICK k \in 1 .. Len(handled) : handled[k] = i
      BY <1>1, <2>1, <2>2, Zenon DEF RInv, NoneForgotten
    <2> QED BY <1>1, <2>3, Zenon DEF RInv, Placed
  <1> QED BY <1>1, RouterInductive, PTL
=============================================================================
