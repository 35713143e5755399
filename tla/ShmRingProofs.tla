---------------------------- MODULE ShmRingProofs ----------------------------
(***************************************************************************)
(* ShmRing, for every number of slots and however far the counters run.    *)
(***************************************************************************)
EXTENDS ShmRing, SequenceTheorems, TLAPS

(* The slots between the counters hold, in order, what was accepted and    *)
(* not yet read, and a loaded head is never ahead of the counter.          *)
IInv ==
    /\ TypeOK
    /\ accepted \in Seq(Frames) /\ Len(accepted) = head - tail
    /\ \A k \in tail .. (head - 1) : buf[Slot(k)] = SignableBytes(accepted[k - tail + 1])
    /\ lenHead <= head
    /\ LenWithinCapacity

(* An index is that of a slot. *)
LEMMA SlotIndex ==
  ASSUME NEW a \in Nat
  PROVE  Slot(a) \in 0 .. (Slots - 1)
BY RingAssumption, SMTT(30) DEF Slot

(* A positive multiple of N is at least N. *)
LEMMA SmallMultiple ==
  ASSUME NEW N \in Nat \ {0}, NEW q \in Int, 0 < N * q
  PROVE  N <= N * q
<1>1. CASE q <= 0
  <2>1. N * q <= 0
    BY <1>1
  <2> QED BY <2>1
<1>2. CASE q >= 1
  BY <1>2
<1> QED BY <1>1, <1>2

(* Counters less than Slots apart name different slots. *)
LEMMA SlotsDistinct ==
  ASSUME NEW a \in Nat, NEW b \in Nat, a < b, b - a < Slots
  PROVE  Slot(a) # Slot(b)
<1> DEFINE p == a \div Slots
           q == b \div Slots
<1>1. /\ p \in Int /\ q \in Int
      /\ a = Slots * p + Slot(a) /\ b = Slots * q + Slot(b)
      /\ Slot(a) \in Int /\ Slot(b) \in Int
  BY RingAssumption, SMTT(30) DEF Slot
<1> HIDE DEF p, q
<1>2. SUFFICES ASSUME Slot(a) = Slot(b) PROVE FALSE
  OBVIOUS
<1>3. b - a = Slots * q - Slots * p
  BY <1>1, <1>2, RingAssumption
<1>4. Slots * q - Slots * p = Slots * (q - p)
  BY <1>1, RingAssumption
<1>5. Slots <= Slots * (q - p)
  BY <1>1, <1>3, <1>4, SmallMultiple, RingAssumption
<1> QED BY <1>3, <1>4, <1>5, RingAssumption
-----------------------------------------------------------------------------
(* A new ring is empty. *)
LEMMA InitIInv == Init => IInv
<1> SUFFICES ASSUME Init PROVE IInv
  OBVIOUS
<1>1. accepted \in Seq(Frames) /\ Len(accepted) = 0
  BY EmptySeq DEF Init
<1> QED BY <1>1, RingAssumption DEF Init, IInv, TypeOK, LenWithinCapacity, NotLoaded

(* Write fills the slot after the newest and leaves every unread slot as   *)
(* it was.                                                                 *)
LEMMA WriteIInv ==
  ASSUME IInv, NEW f \in Frames, Write(f)
  PROVE  IInv'
<1>0. /\ head \in Nat /\ tail \in Nat /\ head - tail \in 0 .. Slots /\ Slots \in Nat
      /\ buf \in [0 .. (Slots - 1) -> Contents \cup {None}]
      /\ accepted \in Seq(Frames) /\ Len(accepted) = head - tail
  BY RingAssumption DEF IInv, TypeOK
<1>1. /\ head' = head + 1 /\ tail' = tail /\ head - tail < Slots
      /\ buf' = [buf EXCEPT ![Slot(head)] = SignableBytes(f)]
      /\ accepted' = Append(accepted, f)
      /\ UNCHANGED <<receiver, got, lenHead, lenOut>>
  BY <1>0 DEF Write, Full
<1>2. /\ accepted' \in Seq(Frames) /\ Len(accepted') = Len(accepted) + 1
      /\ \A i \in 1 .. Len(accepted) : accepted'[i] = accepted[i]
      /\ accepted'[Len(accepted) + 1] = f
  BY <1>0, <1>1, AppendProperties
<1>3. Slot(head) \in 0 .. (Slots - 1) /\ SignableBytes(f) \in Contents
  BY <1>0, SlotIndex DEF SignableBytes, Contents
<1>4. TypeOK'
  BY <1>0, <1>1, <1>3 DEF IInv, TypeOK
<1>5. ASSUME NEW k \in tail' .. (head' - 1)
      PROVE  buf'[Slot(k)] = SignableBytes(accepted'[k - tail' + 1])
  <2>1. CASE k = head
    BY <1>0, <1>1, <1>2, <1>3, <2>1
  <2>2. CASE k # head
    <3>1. k \in tail .. (head - 1) /\ k \in Nat /\ k < head
      BY <1>0, <1>1, <2>2
    <3>2. head - k < Slots
      BY <1>0, <1>1, <3>1
    <3>3. Slot(k) # Slot(head) /\ Slot(k) \in 0 .. (Slots - 1)
      BY <1>0, <3>1, <3>2, SlotsDistinct, SlotIndex
    <3>4. k - tail + 1 \in 1 .. Len(accepted)
      BY <1>0, <3>1
    <3>5. buf'[Slot(k)] = buf[Slot(k)]
      BY <1>0, <1>1, <3>3
    <3> QED BY <1>1, <1>2, <3>1, <3>4, <3>5 DEF IInv
  <2> QED BY <2>1, <2>2
<1>6. lenHead' <= head' /\ LenWithinCapacity'
  BY <1>0, <1>1 DEF IInv, TypeOK, LenWithinCapacity, NotLoaded
<1>7. Len(accepted') = head' - tail'
  BY <1>0, <1>1, <1>2
<1> QED BY <1>2, <1>4, <1>5, <1>6, <1>7 DEF IInv

(* Read takes the oldest slot. *)
LEMMA ReadIInv ==
  ASSUME IInv, Read
  PROVE  IInv'
<1>0. /\ head \in Nat /\ tail \in Nat /\ head - tail \in 0 .. Slots /\ Slots \in Nat
      /\ buf \in [0 .. (Slots - 1) -> Contents \cup {None}]
      /\ accepted \in Seq(Frames) /\ Len(accepted) = head - tail
  BY RingAssumption DEF IInv, TypeOK
<1>1. /\ tail' = tail + 1 /\ head' = head /\ tail < head
      /\ got' = buf[Slot(tail)] /\ receiver' = "idle"
      /\ accepted' = Tail(accepted)
      /\ UNCHANGED <<buf, lenHead, lenOut>>
  BY <1>0 DEF Read, Empty, AdvanceTail
<1>2. accepted # <<>>
  BY <1>0, <1>1, EmptySeq
<1>3. /\ accepted' \in Seq(Frames) /\ Len(accepted') = Len(accepted) - 1
      /\ \A i \in 1 .. (Len(accepted) - 1) : accepted'[i] = accepted[i + 1]
  BY <1>0, <1>1, <1>2, HeadTailProperties
<1>4. TypeOK'
  <2>1. got' \in Contents \cup {None}
    BY <1>0, <1>1, SlotIndex, Zenon
  <2>2. tail' \in Nat /\ head' - tail' \in 0 .. Slots
    BY <1>0, <1>1
  <2> QED BY <1>0, <1>1, <2>1, <2>2 DEF IInv, TypeOK
<1>5. ASSUME NEW k \in tail' .. (head' - 1)
      PROVE  buf'[Slot(k)] = SignableBytes(accepted'[k - tail' + 1])
  <2>1. k \in tail .. (head - 1) /\ k - tail \in 1 .. (Len(accepted) - 1)
    BY <1>0, <1>1
  <2>2. k - tail' + 1 = k - tail
    BY <1>0, <1>1
  <2>3. accepted'[k - tail' + 1] = accepted[k - tail + 1]
    BY <1>3, <2>1, <2>2
  <2> QED BY <1>1, <2>1, <2>3, Zenon DEF IInv
<1>6. lenHead' <= head' /\ LenWithinCapacity'
  BY <1>0, <1>1 DEF IInv, TypeOK, LenWithinCapacity, NotLoaded
<1>7. Len(accepted') = head' - tail'
  BY <1>0, <1>1, <1>3
<1> QED BY <1>3, <1>4, <1>5, <1>6, <1>7 DEF IInv

(* Every step of the ring's users preserves the invariant; Len subtracts   *)
(* the tail from a head that was loaded earlier.                           *)
LEMMA StepIInv == IInv /\ [Next]_vars => IInv'
<1> SUFFICES ASSUME IInv, [Next]_vars PROVE IInv'
  OBVIOUS
<1>1. CASE Receive
  BY <1>1 DEF IInv, TypeOK, LenWithinCapacity, Receive
<1>2. CASE LenLoads
  BY <1>2 DEF IInv, TypeOK, LenWithinCapacity, LenLoads
<1>3. CASE LenReturns
  BY <1>3, RingAssumption DEF IInv, TypeOK, LenWithinCapacity, LenReturns, NotLoaded
<1>4. CASE UNCHANGED vars
  BY <1>4 DEF IInv, TypeOK, LenWithinCapacity, vars
<1> QED BY <1>1, <1>2, <1>3, <1>4, WriteIInv, ReadIInv DEF Next

(* The invariant holds in every reachable state. *)
THEOREM RingInductive == Spec => []IInv
BY InitIInv, StepIInv, PTL DEF Spec

(* The counters stay within Slots of each other and every slot is typed. *)
THEOREM RingTypeCorrect == Spec => []TypeOK
<1>1. IInv => TypeOK
  BY DEF IInv
<1> QED BY <1>1, RingInductive, PTL

(* The unlocked Len never reports more than Slots. *)
THEOREM LenBounded == Spec => []LenWithinCapacity
<1>1. IInv => LenWithinCapacity
  BY DEF IInv
<1> QED BY <1>1, RingInductive, PTL

(* The slot Read looks at holds the oldest frame Write accepted. *)
THEOREM OldestIsNext == Spec => []AcceptedIsStored
<1>1. IInv => AcceptedIsStored
  <2> SUFFICES ASSUME IInv, accepted # <<>>, Head(accepted).size <= MaxFrame
               PROVE  buf[Slot(tail)] = Head(accepted)
    BY DEF AcceptedIsStored
  <2>1. Head(accepted) = accepted[1] /\ Len(accepted) > 0 /\ accepted[1] \in Frames
    BY EmptySeq, HeadTailProperties, ElementOfSeq DEF IInv
  <2>2. tail \in tail .. (head - 1) /\ tail - tail + 1 = 1
    BY <2>1 DEF IInv, TypeOK
  <2>3. buf[Slot(tail)] = SignableBytes(accepted[1])
    BY <2>2 DEF IInv
  <2>4. SignableBytes(accepted[1]) = accepted[1]
    BY <2>1, RingAssumption DEF SignableBytes
  <2> QED BY <2>1, <2>3, <2>4
<1> QED BY <1>1, RingInductive, PTL
-----------------------------------------------------------------------------
(* The slots of b between two counters, oldest first. *)
Slice(b, h, t) == [i \in 1 .. (h - t) |-> b[Slot(t + i - 1)]]

(* They form a sequence ... *)
LEMMA SliceSeq ==
  ASSUME NEW T, NEW b \in [0 .. (Slots - 1) -> T],
         NEW h \in Nat, NEW t \in Nat, t <= h
  PROVE  Slice(b, h, t) \in Seq(T)
<1>1. ASSUME NEW i \in 1 .. (h - t)
      PROVE  b[Slot(t + i - 1)] \in T
  <2>1. t + i - 1 \in Nat
    OBVIOUS
  <2> QED BY <2>1, SlotIndex
<1>2. h - t \in Nat
  OBVIOUS
<1> QED BY <1>1, <1>2, IsASeq DEF Slice

(* ... each of which is the contents of its slot. *)
LEMMA SliceItems ==
  ASSUME NEW b, NEW h \in Nat, NEW t \in Nat, t <= h
  PROVE  /\ Len(Slice(b, h, t)) = h - t
         /\ \A i \in 1 .. (h - t) : Slice(b, h, t)[i] = b[Slot(t + i - 1)]
<1>1. h - t \in Nat
  OBVIOUS
<1> QED BY <1>1 DEF Slice

(* Filling the slot at h lengthens the slice at its end. *)
LEMMA SliceAppend ==
  ASSUME NEW T, NEW b \in [0 .. (Slots - 1) -> T], NEW x \in T,
         NEW h \in Nat, NEW t \in Nat, t <= h, h - t < Slots
  PROVE  Slice([b EXCEPT ![Slot(h)] = x], h + 1, t) = Append(Slice(b, h, t), x)
<1> DEFINE c == [b EXCEPT ![Slot(h)] = x]
           u == Slice(b, h, t)
           v == Slice(c, h + 1, t)
           w == Append(u, x)
<1>1. c \in [0 .. (Slots - 1) -> T] /\ Slot(h) \in 0 .. (Slots - 1)
  BY SlotIndex
<1>2. /\ u \in Seq(T) /\ Len(u) = h - t
      /\ \A i \in 1 .. (h - t) : u[i] = b[Slot(t + i - 1)]
  BY SliceSeq, SliceItems, Zenon
<1>3. /\ v \in Seq(T) /\ Len(v) = h + 1 - t
      /\ \A i \in 1 .. (h + 1 - t) : v[i] = c[Slot(t + i - 1)]
  <2>1. h + 1 \in Nat /\ t <= h + 1
    OBVIOUS
  <2> HIDE DEF c
  <2>2. v \in Seq(T)
    BY <1>1, <2>1, SliceSeq, Zenon
  <2>3. /\ Len(v) = h + 1 - t
        /\ \A i \in 1 .. (h + 1 - t) : v[i] = c[Slot(t + i - 1)]
    BY <2>1 DEF Slice
  <2> QED BY <2>2, <2>3
<1> HIDE DEF u, v
<1>4. /\ w \in Seq(T) /\ Len(w) = h - t + 1
      /\ \A i \in 1 .. (h - t) : w[i] = u[i]
      /\ w[h - t + 1] = x
  BY <1>2, AppendProperties
<1> HIDE DEF w
<1>5. ASSUME NEW i \in 1 .. Len(v) PROVE v[i] = w[i]
  <2>1. CASE i = h - t + 1
    <3>1. t + i - 1 = h
      BY <2>1
    <3> QED BY <1>1, <1>3, <1>4, <2>1, <3>1
  <2>2. CASE i # h - t + 1
    <3>1. i \in 1 .. (h - t) /\ t + i - 1 \in Nat /\ t + i - 1 < h
      BY <1>3, <2>2
    <3>2. h - (t + i - 1) < Slots
      BY <3>1, RingAssumption
    <3>3. Slot(t + i - 1) # Slot(h) /\ Slot(t + i - 1) \in 0 .. (Slots - 1)
      BY <3>1, <3>2, SlotsDistinct, SlotIndex, Zenon
    <3>4. v[i] = b[Slot(t + i - 1)]
      BY <1>3, <3>3
    <3> QED BY <1>2, <1>4, <3>1, <3>4
  <2> QED BY <2>1, <2>2
<1>6. v = w
  BY <1>3, <1>4, <1>5, SeqEqual, SMTT(30)
<1> QED BY <1>6, Zenon DEF v, w, u

(* Moving t forward takes the first slot off the slice. *)
LEMMA SliceTail ==
  ASSUME NEW T, NEW b \in [0 .. (Slots - 1) -> T],
         NEW h \in Nat, NEW t \in Nat, t < h
  PROVE  /\ Slice(b, h, t) # <<>>
         /\ Head(Slice(b, h, t)) = b[Slot(t)]
         /\ Tail(Slice(b, h, t)) = Slice(b, h, t + 1)
<1> DEFINE u == Slice(b, h, t)
           v == Slice(b, h, t + 1)
<1>1. /\ u \in Seq(T) /\ Len(u) = h - t
      /\ \A i \in 1 .. (h - t) : u[i] = b[Slot(t + i - 1)]
  <2>1. t <= h
    OBVIOUS
  <2> QED BY <2>1, SliceSeq, SliceItems, Zenon
<1>2. /\ v \in Seq(T) /\ Len(v) = h - (t + 1)
      /\ \A i \in 1 .. (h - (t + 1)) : v[i] = b[Slot(t + 1 + i - 1)]
  <2>1. t + 1 \in Nat /\ t + 1 <= h
    OBVIOUS
  <2> QED BY <2>1, SliceSeq, SliceItems, Zenon
<1> HIDE DEF u, v
<1>3. u # <<>>
  BY <1>1, EmptySeq
<1>4. /\ Head(u) = u[1] /\ Tail(u) \in Seq(T) /\ Len(Tail(u)) = Len(u) - 1
      /\ \A i \in 1 .. (Len(u) - 1) : Tail(u)[i] = u[i + 1]
  BY <1>1, <1>3, HeadTailProperties
<1>5. u[1] = b[Slot(t)]
  <2>1. 1 \in 1 .. (h - t) /\ t + 1 - 1 = t
    OBVIOUS
  <2> QED BY <1>1, <2>1
<1>6. ASSUME NEW i \in 1 .. Len(v) PROVE v[i] = Tail(u)[i]
  <2>1. i \in 1 .. (Len(u) - 1) /\ i + 1 \in 1 .. (h - t) /\ t + (i + 1) - 1 = t + 1 + i - 1
    BY <1>1, <1>2
  <2>2. Tail(u)[i] = u[i + 1]
    BY <1>4, <2>1, Zenon
  <2>3. u[i + 1] = b[Slot(t + (i + 1) - 1)]
    BY <1>1, <2>1, Zenon
  <2>4. v[i] = b[Slot(t + 1 + i - 1)]
    BY <1>2, Zenon
  <2> QED BY <2>1, <2>2, <2>3, <2>4, Zenon
<1>7. v = Tail(u)
  <2>1. Len(v) = Len(Tail(u))
    BY <1>1, <1>2, <1>4
  <2> QED BY <1>2, <1>4, <1>6, <2>1, SeqEqual, SMTT(30)
<1> QED BY <1>3, <1>4, <1>5, <1>7 DEF u, v

(* transport/shm/shm.go implements a bounded queue: a Write is a Put and a *)
(* Read a Take, for every number of slots and of writes.                   *)
THEOREM RingImplementsQueue == Spec => RingIsQueue
<1> DEFINE T == Contents \cup {None}
<1>1. Init => Queue!QInit
  <2> SUFFICES ASSUME Init PROVE Unread = <<>> /\ got \notin Contents
    BY DEF Queue!QInit
  <2>1. got \notin Contents
    BY RingAssumption DEF Init, Contents, None, Short
  <2>2. Unread = Slice(buf, 0, 0) /\ buf \in [0 .. (Slots - 1) -> T]
    BY DEF Init, Unread, Slice
  <2>3. 0 \in Nat /\ 0 <= 0 /\ 0 - 0 = 0
    OBVIOUS
  <2>4. Unread \in Seq(T) /\ Len(Unread) = 0
    BY <2>2, <2>3, SliceSeq, SliceItems, Zenon
  <2>5. Unread = <<>>
    BY <2>4, EmptySeq, Zenon
  <2> QED BY <2>1, <2>5
<1>2. IInv /\ [Next]_vars => [Queue!QNext]_(Queue!qVars)
  <2> SUFFICES ASSUME IInv, [Next]_vars PROVE [Queue!QNext]_(Queue!qVars)
    OBVIOUS
  <2>0. /\ head \in Nat /\ tail \in Nat /\ head - tail \in 0 .. Slots /\ Slots \in Nat
        /\ tail <= head /\ buf \in [0 .. (Slots - 1) -> T]
        /\ Unread = Slice(buf, head, tail) /\ Unread' = Slice(buf', head', tail')
    BY RingAssumption DEF IInv, TypeOK, Unread, Slice
  <2>1. ASSUME NEW f \in Frames, Write(f) PROVE Queue!Put(SignableBytes(f))
    <3>1. /\ head' = head + 1 /\ tail' = tail /\ head - tail < Slots /\ got' = got
          /\ buf' = [buf EXCEPT ![Slot(head)] = SignableBytes(f)]
      <4>1. head \in Nat /\ tail \in Nat /\ Slots \in Nat
        BY <2>0
      <4> QED BY <2>1, <4>1 DEF Write, Full
    <3>2. SignableBytes(f) \in T
      BY DEF SignableBytes, Contents
    <3>3. Unread' = Append(Unread, SignableBytes(f))
      <4>1. Unread' = Slice([buf EXCEPT ![Slot(head)] = SignableBytes(f)], head + 1, tail)
        BY <2>0, <3>1, Zenon
      <4>2. Slice([buf EXCEPT ![Slot(head)] = SignableBytes(f)], head + 1, tail)
              = Append(Slice(buf, head, tail), SignableBytes(f))
        BY <2>0, <3>1, <3>2, SliceAppend, ZenonT(60)
      <4> QED BY <2>0, <4>1, <4>2, Zenon
    <3>4. Len(Unread) = head - tail
      BY <2>0, SliceSeq, SliceItems, Zenon
    <3> QED BY <3>1, <3>3, <3>4 DEF Queue!Put
  <2>2. ASSUME Read PROVE Queue!Take
    <3>1. /\ head' = head /\ tail' = tail + 1 /\ tail < head
          /\ buf' = buf /\ got' = buf[Slot(tail)]
      <4>1. head \in Nat /\ tail \in Nat
        BY <2>0
      <4> QED BY <2>2, <4>1 DEF Read, Empty, AdvanceTail
    <3>2. Unread # <<>> /\ Head(Unread) = buf[Slot(tail)] /\ Tail(Unread) = Unread'
      BY <2>0, <3>1, SliceTail, ZenonT(60)
    <3> QED BY <3>1, <3>2 DEF Queue!Take
  <2>3. ASSUME UNCHANGED <<buf, head, tail, got>> PROVE UNCHANGED Queue!qVars
    BY <2>3 DEF Queue!qVars, Unread
  <2>4. \A f \in Frames : SignableBytes(f) \in Contents
    BY DEF SignableBytes, Contents
  <2>5. ASSUME Receive \/ LenLoads \/ LenReturns \/ UNCHANGED vars
        PROVE  UNCHANGED <<buf, head, tail, got>>
    BY <2>5 DEF Receive, LenLoads, LenReturns, vars
  <2> QED BY <2>1, <2>2, <2>3, <2>4, <2>5 DEF Next, Queue!QNext
<1> QED BY <1>1, <1>2, RingInductive, PTL DEF Spec, RingIsQueue, Queue!QSpec
=============================================================================
