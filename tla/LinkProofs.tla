------------------------------ MODULE LinkProofs ------------------------------
(***************************************************************************)
(* Proofs about FrameLink, for every number of goroutines, every set of    *)
(* sizes, every window and every number of Sends, and about Heartbeat, for *)
(* every interval, timeout, delay and number of lost beats that satisfy    *)
(* its assumption.                                                         *)
(*                                                                         *)
(* FrameLink: prefix and frame are two writes.  That they stay paired      *)
(* needs the sender's lock (Locked), that frames are received in order     *)
(* needs that they were numbered in the order in which they are written,   *)
(* and that a fresh frame is refused only for lag needs that the tracker   *)
(* has seen none of the numbers that are still to come.                    *)
(*                                                                         *)
(* Heartbeat: that silence stays below the timeout is not inductive.  The  *)
(* invariant looks ahead: the beat that will be recorded next, even if as  *)
(* many are lost as may be, is under way already or due, and early enough. *)
(***************************************************************************)
EXTENDS FrameLink, Heartbeat, TLAPS

(* s is in Send; the i-th write on the stream is a frame. *)
Busy(s) == pc[s] # "idle"
IsFrame(i) == stream[i].kind = "frame"

(* What the sender's lock is for. *)
Locked == direction = "toClient" => \A s \in Senders : Busy(s) => sendMu = s

(* No two frames carry the same number, and the tracker has seen none of   *)
(* those that are still to come.                                           *)
Numbers ==
    /\ seen \subseteq 1 .. sequence
    /\ \A s \in Senders : Busy(s) =>
        /\ frame[s] \in Frames
        /\ frame[s].seq <= sequence /\ frame[s].seq \notin seen
        /\ \A t \in Senders : Busy(t) /\ frame[t].seq = frame[s].seq => t = s
    /\ \A i \in DOMAIN stream : IsFrame(i) =>
        /\ stream[i].of.seq <= sequence /\ stream[i].of.seq \notin seen
        /\ \A s \in Senders : Busy(s) => frame[s].seq # stream[i].of.seq
        /\ \A j \in DOMAIN stream : IsFrame(j) /\ stream[j].of.seq = stream[i].of.seq => j = i

(* Prefixes and frames alternate, from what the receiver waits for to what *)
(* a sender has still to write.                                            *)
Paired ==
    /\ \A i \in DOMAIN stream :
        /\ i = 1 => (IsFrame(i) <=> expects # Prefix)
        /\ i = 1 /\ IsFrame(i) => expects = WireLength(stream[i].of.size)
        /\ i < Len(stream) =>
            /\ IsFrame(i + 1) <=> ~IsFrame(i)
            /\ ~IsFrame(i) => stream[i + 1].of = stream[i].of
    /\ \A s \in Senders : pc[s] = "prefixed" =>
        /\ stream = <<>> => expects = WireLength(frame[s].size)
        /\ stream # <<>> => ~IsFrame(Len(stream)) /\ stream[Len(stream)].of = frame[s]
    /\ stream = <<>> /\ expects # Prefix => \E s \in Senders : pc[s] = "prefixed"
    /\ stream # <<>> /\ ~IsFrame(Len(stream)) => \E s \in Senders : pc[s] = "prefixed"

(* What was received is below what is on the stream, in order, and that is *)
(* below what is still to be written.                                      *)
Ascending ==
    /\ maxSeen <= sequence
    /\ \A k \in DOMAIN received : received[k] <= sequence
    /\ \A i \in DOMAIN stream :
        /\ stream[i].of.seq <= sequence /\ maxSeen < stream[i].of.seq
        /\ \A k \in DOMAIN received : received[k] < stream[i].of.seq
        /\ IsFrame(i) => \A j \in DOMAIN stream : i < j => stream[i].of.seq < stream[j].of.seq
    /\ \A s \in Senders : Busy(s) =>
        /\ maxSeen < frame[s].seq
        /\ \A k \in DOMAIN received : received[k] < frame[s].seq
        /\ \A i \in DOMAIN stream :
              stream[i].of.seq < frame[s].seq \/ (pc[s] = "prefixed" /\ ~IsFrame(i))

(* While nothing has mixed up the stream. *)
Orderly ==
    rx = "open" /\ ~Mixed =>
        /\ \A s, t \in Senders : Busy(s) /\ Busy(t) => s = t
        /\ Paired /\ Ascending

(* The inductive invariant of the link. *)
LInv ==
    /\ TypeOK /\ expects # 0
    /\ Locked /\ Numbers /\ Orderly
    /\ StreamInStep /\ ReceivedInOrder /\ ReplayNeedsLag
-----------------------------------------------------------------------------
(* The elements of a stream after a write and after a read. *)
LEMMA AppendAt ==
    ASSUME NEW S, NEW q \in Seq(S), NEW u \in S
    PROVE  /\ Append(q, u) \in Seq(S) /\ Append(q, u) # <<>>
           /\ Len(q) \in Nat /\ DOMAIN q = 1 .. Len(q)
           /\ Len(Append(q, u)) = Len(q) + 1 /\ DOMAIN Append(q, u) = 1 .. Len(q) + 1
           /\ \A i \in 1 .. Len(q) : Append(q, u)[i] = q[i]
           /\ Append(q, u)[Len(q) + 1] = u
  OBVIOUS

(* The writes that are left after a receive. *)
LEMMA TailAt ==
    ASSUME NEW S, NEW q \in Seq(S), q # <<>>
    PROVE  /\ Tail(q) \in Seq(S) /\ Head(q) \in S /\ Head(q) = q[1]
           /\ Len(q) \in Nat /\ Len(q) >= 1 /\ DOMAIN q = 1 .. Len(q)
           /\ Len(Tail(q)) = Len(q) - 1 /\ DOMAIN Tail(q) = 1 .. Len(q) - 1
           /\ \A i \in 1 .. Len(q) - 1 : Tail(q)[i] = q[i + 1]
           /\ Tail(q) = <<>> <=> Len(q) = 1
  <1>1. /\ Tail(q) \in Seq(S) /\ Len(q) \in Nat /\ Len(q) >= 1 /\ DOMAIN q = 1 .. Len(q)
        /\ Len(Tail(q)) = Len(q) - 1
    OBVIOUS
  <1>2. Head(q) = q[1] /\ Head(q) \in S
    OBVIOUS
  <1>3. \A i \in 1 .. Len(q) - 1 : Tail(q)[i] = q[i + 1]
    OBVIOUS
  <1>4. DOMAIN Tail(q) = 1 .. Len(q) - 1
    BY <1>1
  <1>5. \A t \in Seq(S) : t = <<>> <=> Len(t) = 0
    OBVIOUS
  <1>6. Len(q) - 1 = 0 <=> Len(q) = 1
    BY <1>1
  <1> QED BY <1>1, <1>2, <1>3, <1>4, <1>5, <1>6, Zenon

(* Nothing is buffered on an empty stream, so a receiver that got as many  *)
(* bytes as it expects has something to look at.                           *)
LEMMA BufferedNothing == stream = <<>> => Buffered = 0
  <1> SUFFICES ASSUME stream = <<>> PROVE Buffered = 0
    OBVIOUS
  <1> DEFINE g(f) == [i \in 0 .. Len(stream) |-> IF i = 0 THEN 0 ELSE f[i - 1] + Bytes(stream[i])]
             upTo == CHOOSE f : f = g(f)
  <1>1. Len(stream) = 0
    OBVIOUS
  <1>2. \A i \in 0 .. Len(stream) : i = 0
    BY <1>1
  <1>3. [i \in 0 .. Len(stream) |-> 0] = g([i \in 0 .. Len(stream) |-> 0])
    BY <1>2, Zenon
  <1>4. upTo = g(upTo)
    BY <1>3, Zenon
  <1> HIDE DEF upTo
  <1>5. upTo[0] = 0
    BY <1>1, <1>4
  <1> QED BY <1>1, <1>5 DEF Buffered, upTo

(* A stream that is not empty has a first write. *)
LEMMA SomethingBuffered ==
    ASSUME TypeOK, expects # 0, expects # Prefix, Buffered >= expects
    PROVE  stream # <<>>
  <1>1. expects \in Nat \ {0}
    BY DEF TypeOK, Prefix
  <1> QED BY <1>1, BufferedNothing

(* The elements of a sequence. *)
LEMMA ElementsIn == \A S : \A q \in Seq(S) : \A i \in DOMAIN q : q[i] \in S
  OBVIOUS

(* The types of what is compared. *)
LEMMA Compared ==
    ASSUME TypeOK
    PROVE  /\ maxSeen \in Nat /\ seen \subseteq Nat /\ sequence \in Nat
           /\ \A k \in DOMAIN received : received[k] \in Nat
           /\ \A i \in DOMAIN stream :
                 /\ stream[i] \in Units /\ stream[i].of \in Frames
                 /\ stream[i].of.seq \in Nat /\ stream[i].of.size \in Nat
  <1>1. maxSeen \in Nat /\ seen \subseteq Nat /\ sequence \in Nat
    BY DEF TypeOK, Tracker!TypeOK, Tracker!Seqs
  <1>2. received \in Seq(1 .. MaxSends) /\ stream \in Seq(Units)
    BY Zenon DEF TypeOK
  <1>3. \A k \in DOMAIN received : received[k] \in Nat
    <2>1. 1 .. MaxSends \subseteq Nat
      BY LinkAssumption
    <2>2. \A k \in DOMAIN received : received[k] \in 1 .. MaxSends
      BY <1>2, ElementsIn, Zenon
    <2> QED BY <2>1, <2>2, Zenon
  <1>4. ASSUME NEW i \in DOMAIN stream
        PROVE  /\ stream[i] \in Units /\ stream[i].of \in Frames
               /\ stream[i].of.seq \in Nat /\ stream[i].of.size \in Nat
    <2>1. stream[i] \in Units
      BY <1>2
    <2>2. stream[i].of \in Frames
      BY <2>1 DEF Units
    <2>3. ASSUME NEW f \in Frames PROVE f.seq \in Nat /\ f.size \in Nat
      <3>1. f.seq \in 1 .. MaxSends /\ f.size \in Sizes
        BY DEF Frames
      <3>2. 1 .. MaxSends \subseteq Nat /\ Sizes \subseteq Nat
        BY LinkAssumption
      <3> QED BY <3>1, <3>2, Zenon
    <2> QED BY <2>1, <2>2, <2>3, Zenon
  <1> QED BY <1>1, <1>3, <1>4, Zenon
-----------------------------------------------------------------------------
(* A new connection. *)
LEMMA LinkInitInv == Init => LInv
  <1> SUFFICES ASSUME Init PROVE LInv
    OBVIOUS
  <1> USE LinkAssumption
  <1>1. TypeOK /\ expects # 0
    <2>1. Tracker!TypeOK
      BY DEF Init, Tracker!Init, Tracker!TypeOK, Tracker!NewTracker, Tracker!Seqs, Tracker!Nothing
    <2>2. <<>> \in Seq(Units) /\ <<>> \in Seq(1 .. MaxSends) /\ expects # 0
      BY DEF Init, Prefix
    <2>3. sequence \in 0 .. MaxSends
      BY DEF Init
    <2> QED BY <2>1, <2>2, <2>3, Zenon DEF Init, TypeOK
  <1>2. /\ \A s \in Senders : ~Busy(s) /\ pc[s] # "prefixed"
        /\ DOMAIN stream = {} /\ DOMAIN received = {} /\ stream = <<>> /\ expects = Prefix
        /\ maxSeen = 0 /\ seen = {} /\ sequence = 0 /\ rx = "open"
    BY DEF Init, Busy, Tracker!Init, Tracker!NewTracker
  <1>3. Locked /\ Numbers
    BY <1>2, Zenon DEF Locked, Numbers
  <1>4. Orderly
    BY <1>2 DEF Orderly, Paired, Ascending
  <1>5. StreamInStep /\ ReceivedInOrder /\ ReplayNeedsLag
    BY <1>2 DEF StreamInStep, ReceivedInOrder, ReplayNeedsLag
  <1> QED BY <1>1, <1>3, <1>4, <1>5, Zenon DEF LInv

(* Send draws a number that no other frame carries. *)
LEMMA BuildInv ==
    ASSUME LInv, NEW s \in Senders, NEW size \in Sizes, BuildFrame(s, size)
    PROVE  LInv'
  <1> USE LinkAssumption
  <1> DEFINE f == [seq |-> sequence + 1, size |-> size]
  <1>1. /\ pc[s] = "idle" /\ sequence < MaxSends /\ Lock(s) /\ sequence' = sequence + 1
        /\ frame' = [frame EXCEPT ![s] = f] /\ pc' = [pc EXCEPT ![s] = "built"]
        /\ overlapped' = (overlapped \/ \E t \in Senders : pc[t] # "idle")
        /\ UNCHANGED <<direction, sent, stream, expects, rx, received, maxSeen, seen, accepted, last>>
    BY DEF BuildFrame, DrawSequence, recvVars, trackerVars
  <1>2. TypeOK /\ expects # 0 /\ sequence \in Nat /\ f \in Frames /\ f.seq = sequence + 1
    BY <1>1 DEF LInv, TypeOK, Frames
  <1>3. TypeOK' /\ expects' # 0
    <2>1. sequence' \in 0 .. MaxSends /\ sendMu' \in Senders \cup {Free}
      BY <1>1, <1>2 DEF TypeOK, Lock
    <2>2. frame' \in [Senders -> Frames \cup {NoFrame}]
      BY <1>1, <1>2, Zenon DEF TypeOK
    <2>3. pc' \in [Senders -> {"idle", "built", "prefixed"}] /\ overlapped' \in BOOLEAN
      BY <1>1, <1>2, Zenon DEF TypeOK
    <2>4. Tracker!TypeOK'
      BY <1>1, <1>2, Zenon DEF TypeOK, Tracker!TypeOK
    <2> QED BY <1>1, <1>2, <2>1, <2>2, <2>3, <2>4, Zenon DEF TypeOK
  <1> HIDE DEF f
  <1>4. \A t \in Senders :
            /\ frame'[t] = IF t = s THEN f ELSE frame[t]
            /\ pc'[t] = IF t = s THEN "built" ELSE pc[t]
    BY <1>1, <1>2, Zenon DEF TypeOK
  <1>5. Locked'
    BY <1>1, <1>4, Zenon DEF LInv, Locked, Busy, Lock
  <1>6. Numbers'
    <2>1. /\ seen \subseteq 1 .. sequence
          /\ \A t \in Senders : Busy(t) =>
              /\ frame[t] \in Frames /\ frame[t].seq <= sequence /\ frame[t].seq \notin seen
              /\ \A u \in Senders : Busy(u) /\ frame[u].seq = frame[t].seq => u = t
      BY Zenon DEF LInv, Numbers
    <2>2. seen' \subseteq 1 .. sequence' /\ f.seq \notin seen
      BY <1>1, <1>2, <2>1
    <2>3. ASSUME NEW t \in Senders, Busy(t)'
          PROVE  /\ frame'[t] \in Frames
                 /\ frame'[t].seq <= sequence' /\ frame'[t].seq \notin seen'
                 /\ \A u \in Senders : Busy(u)' /\ frame'[u].seq = frame'[t].seq => u = t
      <3>1. \A u \in Senders : u # s => (Busy(u)' <=> Busy(u))
        BY <1>4, Zenon DEF Busy
      <3>2. \A u \in Senders : Busy(u) => frame[u].seq \in Nat /\ frame[u].seq < f.seq
        BY <1>2, <2>1 DEF Frames
      <3>3. f.seq \in Nat
        BY <1>2
      <3> QED BY <1>1, <1>2, <1>4, <2>1, <2>2, <2>3, <3>1, <3>2, <3>3
    <2>4. ASSUME NEW i \in DOMAIN stream, IsFrame(i)
          PROVE  /\ stream[i].of.seq <= sequence' /\ stream[i].of.seq \notin seen
                 /\ \A t \in Senders : Busy(t)' => frame'[t].seq # stream[i].of.seq
                 /\ \A j \in DOMAIN stream :
                        IsFrame(j) /\ stream[j].of.seq = stream[i].of.seq => j = i
      <3>1. /\ stream[i].of.seq <= sequence /\ stream[i].of.seq \notin seen
            /\ \A t \in Senders : Busy(t) => frame[t].seq # stream[i].of.seq
            /\ \A j \in DOMAIN stream :
                   IsFrame(j) /\ stream[j].of.seq = stream[i].of.seq => j = i
        BY <2>4, Zenon DEF LInv, Numbers
      <3>2. stream[i].of.seq \in Nat
        BY <1>2, Compared, Zenon
      <3>3. stream[i].of.seq <= sequence' /\ stream[i].of.seq # f.seq
        BY <1>1, <1>2, <3>1, <3>2
      <3> QED BY <1>4, <3>1, <3>3, Zenon DEF Busy
    <2> QED BY <1>1, <2>2, <2>3, <2>4, Zenon DEF Numbers, IsFrame
  <1>7. Orderly'
    <2> SUFFICES ASSUME rx' = "open", ~Mixed'
                 PROVE  /\ \A t, u \in Senders : Busy(t)' /\ Busy(u)' => t = u
                        /\ Paired' /\ Ascending'
      BY Zenon DEF Orderly
    <2>1. ~Mixed /\ rx = "open" /\ \A t \in Senders : ~Busy(t)
      <3>1. CASE direction = "toServer"
        BY <1>1, <3>1, Zenon DEF Mixed, Busy
      <3>2. CASE direction = "toClient"
        BY <1>1, <3>2, LinkAssumption, Zenon DEF Mixed, LInv, Locked, Lock
      <3> QED BY <1>2, <3>1, <3>2, Zenon DEF TypeOK
    <2>2. Paired /\ Ascending
      BY <2>1, Zenon DEF LInv, Orderly
    <2>3. \A t \in Senders : pc'[t] # "prefixed" /\ pc[t] # "prefixed" /\ (Busy(t)' => t = s)
      BY <1>4, <2>1, Zenon DEF Busy
    <2>4. Paired'
      BY <1>1, <2>2, <2>3, Zenon DEF Paired, IsFrame
    <2>5. Ascending'
      <3>1. /\ maxSeen \in Nat /\ \A k \in DOMAIN received : received[k] \in Nat
            /\ \A i \in DOMAIN stream : stream[i].of.seq \in Nat
        BY <1>2, Compared, Zenon
      <3>2. /\ maxSeen <= sequence' /\ maxSeen < f.seq
            /\ \A k \in DOMAIN received : received[k] <= sequence' /\ received[k] < f.seq
            /\ \A i \in DOMAIN stream :
                  stream[i].of.seq <= sequence' /\ stream[i].of.seq < f.seq
        BY <1>1, <1>2, <2>2, <3>1 DEF Ascending
      <3> QED BY <1>1, <1>4, <2>2, <2>3, <3>2, Zenon DEF Ascending, IsFrame
    <2> QED BY <2>3, <2>4, <2>5, Zenon
  <1>8. StreamInStep' /\ ReceivedInOrder' /\ ReplayNeedsLag'
    <2>1. Mixed => Mixed'
      BY <1>1, Zenon DEF Mixed
    <2> QED BY <1>1, <2>1, Zenon DEF LInv, StreamInStep, ReceivedInOrder, ReplayNeedsLag
  <1> QED BY <1>3, <1>5, <1>6, <1>7, <1>8, Zenon DEF LInv

(* A Send that returns leaves the numbers of the others as they were. *)
LEMMA ReturnEffect ==
    ASSUME LInv, NEW s \in Senders, Busy(s), Return(s), UNCHANGED direction
    PROVE  /\ \A t \in Senders :
                /\ Busy(t)' <=> Busy(t) /\ t # s
                /\ t # s => pc'[t] = pc[t] /\ frame'[t] = frame[t]
                /\ pc'[t] = "prefixed" => pc[t] = "prefixed" /\ t # s
           /\ pc' \in [Senders -> {"idle", "built", "prefixed"}]
           /\ frame' \in [Senders -> Frames \cup {NoFrame}]
           /\ sendMu' \in Senders \cup {Free}
           /\ Locked'
  <1>1. /\ pc' = [pc EXCEPT ![s] = "idle"] /\ frame' = [frame EXCEPT ![s] = NoFrame]
        /\ sendMu' = Free
    BY Zenon DEF Return, Unlock
  <1>2. /\ pc \in [Senders -> {"idle", "built", "prefixed"}]
        /\ frame \in [Senders -> Frames \cup {NoFrame}]
    BY Zenon DEF LInv, TypeOK
  <1>3. \A t \in Senders :
            /\ Busy(t)' <=> Busy(t) /\ t # s
            /\ t # s => pc'[t] = pc[t] /\ frame'[t] = frame[t]
            /\ pc'[t] = "prefixed" => pc[t] = "prefixed" /\ t # s
    BY <1>1, <1>2, Zenon DEF Busy
  <1>4. Locked'
    BY <1>3, Zenon DEF LInv, Locked
  <1> QED BY <1>1, <1>2, <1>3, <1>4, Zenon

(* A Send that fails writes nothing. *)
LEMMA SendFailsInv ==
    ASSUME LInv, NEW s \in Senders, SendFails(s)
    PROVE  LInv'
  <1>1. /\ Busy(s) /\ Return(s) /\ (pc[s] = "prefixed" => rx # "open")
        /\ UNCHANGED <<direction, sequence, sent, overlapped, stream, expects, rx, received,
                       maxSeen, seen, accepted, last>>
    BY Zenon DEF SendFails, Busy, recvVars, trackerVars
  <1>2. /\ \A t \in Senders :
                /\ Busy(t)' <=> Busy(t) /\ t # s
                /\ t # s => pc'[t] = pc[t] /\ frame'[t] = frame[t]
                /\ pc'[t] = "prefixed" => pc[t] = "prefixed" /\ t # s
        /\ pc' \in [Senders -> {"idle", "built", "prefixed"}]
        /\ frame' \in [Senders -> Frames \cup {NoFrame}]
        /\ sendMu' \in Senders \cup {Free}
        /\ Locked'
    BY <1>1, ReturnEffect, Zenon
  <1>3. TypeOK' /\ expects' # 0
    <2>1. Tracker!TypeOK'
      BY <1>1, Zenon DEF LInv, TypeOK, Tracker!TypeOK
    <2> QED BY <1>1, <1>2, <2>1, Zenon DEF LInv, TypeOK
  <1>4. Numbers'
    <2>1. Numbers
      BY Zenon DEF LInv
    <2>2. ASSUME NEW t \in Senders, Busy(t)'
          PROVE  /\ frame'[t] \in Frames
                 /\ frame'[t].seq <= sequence' /\ frame'[t].seq \notin seen'
                 /\ \A u \in Senders : Busy(u)' /\ frame'[u].seq = frame'[t].seq => u = t
      BY <1>1, <1>2, <2>1, <2>2, Zenon DEF Numbers
    <2>3. ASSUME NEW i \in DOMAIN stream', IsFrame(i)'
          PROVE  /\ stream'[i].of.seq <= sequence' /\ stream'[i].of.seq \notin seen'
                 /\ \A t \in Senders : Busy(t)' => frame'[t].seq # stream'[i].of.seq
                 /\ \A j \in DOMAIN stream' :
                        IsFrame(j)' /\ stream'[j].of.seq = stream'[i].of.seq => j = i
      <3>1. i \in DOMAIN stream /\ IsFrame(i) /\ \A j : IsFrame(j)' <=> IsFrame(j)
        BY <1>1, <2>3, Zenon DEF IsFrame
      <3>2. /\ stream[i].of.seq <= sequence /\ stream[i].of.seq \notin seen
            /\ \A t \in Senders : Busy(t) => frame[t].seq # stream[i].of.seq
            /\ \A j \in DOMAIN stream :
                   IsFrame(j) /\ stream[j].of.seq = stream[i].of.seq => j = i
        BY <2>1, <3>1, Zenon DEF Numbers
      <3>3. \A t \in Senders : Busy(t)' => frame'[t].seq # stream[i].of.seq
        BY <1>2, <3>2, Zenon
      <3> QED BY <1>1, <3>1, <3>2, <3>3, Zenon
    <2>4. seen' \subseteq 1 .. sequence'
      BY <1>1, <2>1, Zenon DEF Numbers
    <2> QED BY <2>2, <2>3, <2>4, Zenon DEF Numbers
  <1>5. Orderly'
    <2> SUFFICES ASSUME rx' = "open", ~Mixed'
                 PROVE  /\ \A t, u \in Senders : Busy(t)' /\ Busy(u)' => t = u
                        /\ Paired' /\ Ascending'
      BY Zenon DEF Orderly
    <2>1. /\ Paired /\ Ascending /\ pc[s] # "prefixed"
          /\ \A t, u \in Senders : Busy(t) /\ Busy(u) => t = u
      BY <1>1, Zenon DEF LInv, Orderly, Mixed
    <2>2. \A t \in Senders : pc'[t] # "prefixed" /\ pc[t] # "prefixed" /\ ~Busy(t)'
      BY <1>1, <1>2, <2>1, Zenon DEF Busy
    <2>3. Paired'
      BY <1>1, <2>1, <2>2, Zenon DEF Paired, IsFrame
    <2>4. Ascending'
      BY <1>1, <2>1, <2>2, Zenon DEF Ascending, IsFrame
    <2> QED BY <2>2, <2>3, <2>4, Zenon
  <1>6. StreamInStep' /\ ReceivedInOrder' /\ ReplayNeedsLag'
    BY <1>1, Zenon DEF LInv, StreamInStep, ReceivedInOrder, ReplayNeedsLag, Mixed
  <1> QED BY <1>2, <1>3, <1>4, <1>5, <1>6, Zenon DEF LInv

(* The length prefix goes out: nobody else is writing, so it follows a     *)
(* frame, or nothing.                                                      *)
LEMMA WritePrefixInv ==
    ASSUME LInv, NEW s \in Senders, WritePrefix(s)
    PROVE  LInv'
  <1> DEFINE u == [kind |-> "length", of |-> frame[s]]
  <1>1. /\ pc[s] = "built" /\ rx = "open" /\ stream' = Append(stream, u)
        /\ pc' = [pc EXCEPT ![s] = "prefixed"]
        /\ UNCHANGED <<direction, sequence, sendMu, frame, sent, overlapped, expects, rx, received,
                       maxSeen, seen, accepted, last>>
    BY Zenon DEF WritePrefix, recvVars, trackerVars
  <1>2. TypeOK /\ Numbers /\ Busy(s) /\ frame[s] \in Frames /\ stream \in Seq(Units)
    BY <1>1, Zenon DEF LInv, Numbers, Busy, TypeOK
  <1>3. u \in Units /\ u.kind = "length" /\ u.of = frame[s]
    BY <1>2 DEF Units
  <1> HIDE DEF u
  <1> PICK n \in Nat : n = Len(stream)
    BY <1>2
  <1>4. /\ stream' \in Seq(Units) /\ stream' # <<>> /\ n \in Nat /\ DOMAIN stream = 1 .. n
        /\ Len(stream') = n + 1 /\ DOMAIN stream' = 1 .. n + 1
        /\ \A i \in 1 .. n : stream'[i] = stream[i]
        /\ stream'[n + 1] = u
    BY <1>1, <1>2, <1>3, AppendAt
  <1>5. \A t \in Senders :
            /\ Busy(t)' <=> Busy(t)
            /\ pc'[t] = "prefixed" <=> pc[t] = "prefixed" \/ t = s
    BY <1>1, <1>2, Zenon DEF TypeOK, Busy
  <1>6. TypeOK' /\ expects' # 0
    <2>1. Tracker!TypeOK'
      BY <1>1, Zenon DEF LInv, TypeOK, Tracker!TypeOK
    <2>2. pc' \in [Senders -> {"idle", "built", "prefixed"}]
      BY <1>1, <1>2, Zenon DEF TypeOK
    <2> QED BY <1>1, <1>4, <2>1, <2>2, Zenon DEF LInv, TypeOK
  <1>7. /\ \A i \in 1 .. n + 1 : i \in 1 .. n \/ i = n + 1
        /\ \A i \in 1 .. n : i \in 1 .. n + 1 /\ i # n + 1
    BY <1>4
  <1>8. ~IsFrame(n + 1)' /\ \A i \in 1 .. n : IsFrame(i)' <=> IsFrame(i)
    BY <1>3, <1>4, Zenon DEF IsFrame
  <1>9. Locked'
    BY <1>1, <1>5, Zenon DEF LInv, Locked
  <1>10. Numbers'
    <2>1. \A i \in DOMAIN stream' : IsFrame(i)' =>
              i \in DOMAIN stream /\ stream'[i] = stream[i] /\ IsFrame(i)
      BY <1>4, <1>7, <1>8, Zenon
    <2>2. ASSUME NEW i \in DOMAIN stream', IsFrame(i)'
          PROVE  /\ stream'[i].of.seq <= sequence' /\ stream'[i].of.seq \notin seen'
                 /\ \A t \in Senders : Busy(t)' => frame'[t].seq # stream'[i].of.seq
                 /\ \A j \in DOMAIN stream' :
                        IsFrame(j)' /\ stream'[j].of.seq = stream'[i].of.seq => j = i
      <3>1. /\ stream[i].of.seq <= sequence /\ stream[i].of.seq \notin seen
            /\ \A t \in Senders : Busy(t) => frame[t].seq # stream[i].of.seq
            /\ \A j \in DOMAIN stream :
                   IsFrame(j) /\ stream[j].of.seq = stream[i].of.seq => j = i
        BY <1>2, <2>1, <2>2, Zenon DEF Numbers
      <3>2. i \in DOMAIN stream /\ stream'[i] = stream[i]
        BY <2>1, <2>2, Zenon
      <3>3. \A t \in Senders : Busy(t)' => frame'[t].seq # stream[i].of.seq
        BY <1>1, <1>5, <3>1, Zenon
      <3> QED BY <1>1, <2>1, <3>1, <3>2, <3>3, Zenon
    <2>3. ASSUME NEW t \in Senders, Busy(t)'
          PROVE  /\ frame'[t] \in Frames
                 /\ frame'[t].seq <= sequence' /\ frame'[t].seq \notin seen'
                 /\ \A v \in Senders : Busy(v)' /\ frame'[v].seq = frame'[t].seq => v = t
      BY <1>1, <1>2, <1>5, <2>3, Zenon DEF Numbers
    <2>4. seen' \subseteq 1 .. sequence'
      BY <1>1, <1>2, Zenon DEF Numbers
    <2> QED BY <2>2, <2>3, <2>4, Zenon DEF Numbers
  <1>11. Orderly'
    <2> SUFFICES ASSUME ~Mixed'
                 PROVE  /\ \A t, v \in Senders : Busy(t)' /\ Busy(v)' => t = v
                        /\ Paired' /\ Ascending'
      BY Zenon DEF Orderly
    <2>1. Paired /\ Ascending /\ \A t, v \in Senders : Busy(t) /\ Busy(v) => t = v
      BY <1>1, Zenon DEF LInv, Orderly, Mixed
    <2>2. \A t \in Senders : pc[t] # "prefixed" /\ (pc'[t] = "prefixed" <=> t = s)
      BY <1>1, <1>2, <1>5, <2>1, Zenon DEF Busy
    <2>3. /\ stream = <<>> => expects = Prefix
          /\ stream # <<>> => IsFrame(n)
      BY <2>1, <2>2, Zenon DEF Paired
    <2>4. stream = <<>> <=> n = 0
      BY <1>2
    <2>5. Paired'
      <3>1. ASSUME NEW i \in 1 .. n + 1
            PROVE  /\ i = 1 => (IsFrame(i)' <=> expects # Prefix)
                   /\ i = 1 /\ IsFrame(i)' => expects = WireLength(stream'[i].of.size)
                   /\ i < n + 1 =>
                        /\ IsFrame(i + 1)' <=> ~IsFrame(i)'
                        /\ ~IsFrame(i)' => stream'[i + 1].of = stream'[i].of
        <4>1. CASE i = n + 1
          <5>1. i = 1 => stream = <<>>
            BY <1>4, <2>4, <4>1
          <5>2. ~(i < n + 1)
            BY <1>4, <4>1
          <5> QED BY <1>8, <2>3, <4>1, <5>1, <5>2, Zenon
        <4>2. CASE i = n /\ n # 0
          <5>1. i < n + 1 /\ i \in 1 .. n /\ i + 1 = n + 1
            BY <1>4, <4>2
          <5> QED BY <1>4, <1>8, <2>1, <2>3, <2>4, <4>2, <5>1, Zenon DEF Paired
        <4>3. CASE i \in 1 .. n - 1
          <5>1. i \in 1 .. n /\ i + 1 \in 1 .. n /\ i < n
            BY <1>4, <4>3
          <5> QED BY <1>4, <1>8, <2>1, <5>1, Zenon DEF Paired
        <4> QED BY <1>4, <4>1, <4>2, <4>3
      <3>2. ASSUME NEW t \in Senders, pc'[t] = "prefixed"
            PROVE  ~IsFrame(Len(stream))' /\ stream'[Len(stream')].of = frame[t]
        BY <1>3, <1>4, <1>8, <2>2, <3>2, Zenon
      <3> QED BY <1>1, <1>4, <2>2, <3>1, <3>2, Zenon DEF Paired
    <2>6. Ascending'
      <3>1. /\ frame[s].seq <= sequence /\ maxSeen < frame[s].seq
            /\ \A k \in DOMAIN received : received[k] < frame[s].seq
            /\ \A i \in 1 .. n : stream[i].of.seq < frame[s].seq
        BY <1>2, <1>4, <2>1, <2>2, Zenon DEF Ascending, Numbers
      <3>2. ASSUME NEW i \in 1 .. n + 1
            PROVE  /\ stream'[i].of.seq <= sequence /\ maxSeen < stream'[i].of.seq
                   /\ \A k \in DOMAIN received : received[k] < stream'[i].of.seq
                   /\ IsFrame(i)' => \A j \in 1 .. n + 1 :
                         i < j => stream'[i].of.seq < stream'[j].of.seq
        BY <1>3, <1>4, <1>7, <1>8, <2>1, <3>1, Zenon DEF Ascending
      <3>3. ASSUME NEW t \in Senders, Busy(t)' PROVE t = s
        BY <1>2, <1>5, <2>1, <3>3, Zenon
      <3>4. \A i \in 1 .. n + 1 : stream'[i].of.seq < frame[s].seq \/ ~IsFrame(i)'
        BY <1>4, <1>7, <1>8, <3>1, Zenon
      <3> QED BY <1>1, <1>4, <2>1, <2>2, <3>1, <3>2, <3>3, <3>4, Zenon DEF Ascending
    <2> QED BY <1>5, <2>1, <2>5, <2>6, Zenon
  <1>12. StreamInStep' /\ ReceivedInOrder' /\ ReplayNeedsLag'
    BY <1>1, Zenon DEF LInv, StreamInStep, ReceivedInOrder, ReplayNeedsLag, Mixed
  <1> QED BY <1>6, <1>9, <1>10, <1>11, <1>12, Zenon DEF LInv

(* The frame follows its prefix, which is the last thing on the stream or  *)
(* has been read already.                                                  *)
LEMMA WriteFrameInv ==
    ASSUME LInv, NEW s \in Senders, WriteFrame(s)
    PROVE  LInv'
  <1> DEFINE u == [kind |-> "frame", of |-> frame[s]]
  <1>1. /\ pc[s] = "prefixed" /\ rx = "open" /\ stream' = Append(stream, u)
        /\ sent' = sent \cup {frame[s]} /\ Return(s)
        /\ UNCHANGED <<direction, sequence, overlapped, expects, rx, received,
                       maxSeen, seen, accepted, last>>
    BY Zenon DEF WriteFrame, recvVars, trackerVars
  <1>2. TypeOK /\ Numbers /\ Busy(s) /\ frame[s] \in Frames /\ stream \in Seq(Units)
    BY <1>1, Zenon DEF LInv, Numbers, Busy, TypeOK
  <1>3. u \in Units /\ u.kind = "frame" /\ u.of = frame[s]
    BY <1>2 DEF Units
  <1> HIDE DEF u
  <1> PICK n \in Nat : n = Len(stream)
    BY <1>2
  <1>4. /\ stream' \in Seq(Units) /\ stream' # <<>> /\ DOMAIN stream = 1 .. n
        /\ Len(stream') = n + 1 /\ DOMAIN stream' = 1 .. n + 1
        /\ \A i \in 1 .. n : stream'[i] = stream[i]
        /\ stream'[n + 1] = u
    BY <1>1, <1>2, <1>3, AppendAt
  <1>5. /\ \A t \in Senders :
                /\ Busy(t)' <=> Busy(t) /\ t # s
                /\ t # s => pc'[t] = pc[t] /\ frame'[t] = frame[t]
                /\ pc'[t] = "prefixed" => pc[t] = "prefixed" /\ t # s
        /\ pc' \in [Senders -> {"idle", "built", "prefixed"}]
        /\ frame' \in [Senders -> Frames \cup {NoFrame}]
        /\ sendMu' \in Senders \cup {Free}
        /\ Locked'
    BY <1>1, <1>2, ReturnEffect, Zenon
  <1>6. TypeOK' /\ expects' # 0
    <2>1. Tracker!TypeOK'
      BY <1>1, Zenon DEF LInv, TypeOK, Tracker!TypeOK
    <2>2. sent' \subseteq Frames
      BY <1>1, <1>2, Zenon DEF TypeOK
    <2> QED BY <1>1, <1>4, <1>5, <2>1, <2>2, Zenon DEF LInv, TypeOK
  <1>7. /\ \A i \in 1 .. n + 1 : i \in 1 .. n \/ i = n + 1
        /\ \A i \in 1 .. n : i \in 1 .. n + 1 /\ i # n + 1
        /\ n + 1 \in 1 .. n + 1
    OBVIOUS
  <1>8. IsFrame(n + 1)' /\ \A i \in 1 .. n : IsFrame(i)' <=> IsFrame(i)
    BY <1>3, <1>4, Zenon DEF IsFrame
  <1>9. /\ frame[s].seq <= sequence /\ frame[s].seq \notin seen
        /\ \A t \in Senders : Busy(t) /\ frame[t].seq = frame[s].seq => t = s
        /\ \A i \in 1 .. n : IsFrame(i) => frame[s].seq # stream[i].of.seq
    BY <1>2, <1>4, Zenon DEF Numbers
  <1>10. Numbers'
    <2>1. ASSUME NEW i \in DOMAIN stream', IsFrame(i)'
          PROVE  /\ stream'[i].of.seq <= sequence' /\ stream'[i].of.seq \notin seen'
                 /\ \A t \in Senders : Busy(t)' => frame'[t].seq # stream'[i].of.seq
                 /\ \A j \in DOMAIN stream' :
                        IsFrame(j)' /\ stream'[j].of.seq = stream'[i].of.seq => j = i
      <3>1. CASE i = n + 1
        <4>1. stream'[i].of.seq = frame[s].seq
          BY <1>3, <1>4, <3>1, Zenon
        <4>2. \A j \in 1 .. n : IsFrame(j)' => stream'[j].of.seq # frame[s].seq
          BY <1>4, <1>8, <1>9, Zenon
        <4>3. \A t \in Senders : Busy(t)' => frame'[t].seq # frame[s].seq
          BY <1>5, <1>9, Zenon
        <4> QED BY <1>1, <1>4, <1>7, <1>9, <3>1, <4>1, <4>2, <4>3, Zenon
      <3>2. CASE i \in 1 .. n
        <4>1. /\ stream'[i] = stream[i] /\ IsFrame(i)
              /\ stream'[n + 1].of.seq # stream[i].of.seq
          BY <1>3, <1>4, <1>8, <1>9, <2>1, <3>2, Zenon
        <4>2. \A j \in 1 .. n : IsFrame(j)' /\ stream'[j].of.seq = stream[i].of.seq => j = i
          BY <1>2, <1>4, <1>8, <3>2, <4>1, Zenon DEF Numbers
        <4>3. /\ stream[i].of.seq <= sequence /\ stream[i].of.seq \notin seen
              /\ \A t \in Senders : Busy(t)' => frame'[t].seq # stream[i].of.seq
          <5>1. /\ stream[i].of.seq <= sequence /\ stream[i].of.seq \notin seen
                /\ \A t \in Senders : Busy(t) => frame[t].seq # stream[i].of.seq
            BY <1>2, <1>4, <3>2, <4>1, Zenon DEF Numbers
          <5> QED BY <1>5, <5>1, Zenon
        <4> QED BY <1>1, <1>4, <1>7, <4>1, <4>2, <4>3, Zenon
      <3> QED BY <1>4, <1>7, <3>1, <3>2, Zenon
    <2>2. ASSUME NEW t \in Senders, Busy(t)'
          PROVE  /\ frame'[t] \in Frames
                 /\ frame'[t].seq <= sequence' /\ frame'[t].seq \notin seen'
                 /\ \A v \in Senders : Busy(v)' /\ frame'[v].seq = frame'[t].seq => v = t
      BY <1>1, <1>2, <1>5, <2>2, Zenon DEF Numbers
    <2>3. seen' \subseteq 1 .. sequence'
      BY <1>1, <1>2, Zenon DEF Numbers
    <2> QED BY <2>1, <2>2, <2>3, Zenon DEF Numbers
  <1>11. Orderly'
    <2> SUFFICES ASSUME ~Mixed'
                 PROVE  /\ \A t, v \in Senders : Busy(t)' /\ Busy(v)' => t = v
                        /\ Paired' /\ Ascending'
      BY Zenon DEF Orderly
    <2>1. Paired /\ Ascending /\ \A t, v \in Senders : Busy(t) /\ Busy(v) => t = v
      BY <1>1, Zenon DEF LInv, Orderly, Mixed
    <2>2. \A t \in Senders : ~Busy(t)' /\ pc'[t] # "prefixed"
      BY <1>2, <1>5, <2>1, Zenon DEF Busy
    <2>3. /\ stream = <<>> => expects = WireLength(frame[s].size)
          /\ stream # <<>> => ~IsFrame(n) /\ stream[n].of = frame[s]
      BY <1>1, <2>1, Zenon DEF Paired
    <2>4. stream = <<>> <=> n = 0
      BY <1>2
    <2>5. WireLength(frame[s].size) # Prefix
      <3>1. frame[s].size \in Nat
        <4>1. frame[s].size \in Sizes
          BY <1>2 DEF Frames
        <4> QED BY <4>1, LinkAssumption, Zenon
      <3> QED BY <3>1 DEF WireLength, FrameFixedSize, MACSize, Prefix
    <2>6. Paired'
      <3>1. ASSUME NEW i \in 1 .. n + 1
            PROVE  /\ i = 1 => (IsFrame(i)' <=> expects # Prefix)
                   /\ i = 1 /\ IsFrame(i)' => expects = WireLength(stream'[i].of.size)
                   /\ i < n + 1 =>
                        /\ IsFrame(i + 1)' <=> ~IsFrame(i)'
                        /\ ~IsFrame(i)' => stream'[i + 1].of = stream'[i].of
        <4>1. CASE i = n + 1
          <5>1. i = 1 => stream = <<>>
            BY <2>4, <4>1
          <5>2. ~(i < n + 1)
            BY <4>1
          <5> QED BY <1>3, <1>4, <1>8, <2>3, <2>5, <4>1, <5>1, <5>2, Zenon
        <4>2. CASE i = n /\ n # 0
          <5>1. i < n + 1 /\ i \in 1 .. n /\ i + 1 = n + 1
            BY <4>2
          <5> QED BY <1>3, <1>4, <1>8, <2>1, <2>3, <2>4, <4>2, <5>1, Zenon DEF Paired
        <4>3. CASE i \in 1 .. n - 1
          <5>1. i \in 1 .. n /\ i + 1 \in 1 .. n /\ i < n
            BY <4>3
          <5> QED BY <1>4, <1>8, <2>1, <5>1, Zenon DEF Paired
        <4> QED BY <4>1, <4>2, <4>3
      <3> QED BY <1>1, <1>4, <1>8, <2>2, <3>1, Zenon DEF Paired
    <2>7. Ascending'
      <3>1. /\ frame[s].seq <= sequence /\ maxSeen < frame[s].seq
            /\ \A k \in DOMAIN received : received[k] < frame[s].seq
            /\ \A i \in 1 .. n : IsFrame(i) => stream[i].of.seq < frame[s].seq
        BY <1>2, <1>4, <2>1, Zenon DEF Ascending, Numbers
      <3>2. ASSUME NEW i \in 1 .. n + 1
            PROVE  /\ stream'[i].of.seq <= sequence /\ maxSeen < stream'[i].of.seq
                   /\ \A k \in DOMAIN received : received[k] < stream'[i].of.seq
        BY <1>3, <1>4, <1>7, <2>1, <3>1, Zenon DEF Ascending
      <3>3. ASSUME NEW i \in 1 .. n + 1, IsFrame(i)', NEW j \in 1 .. n + 1, i < j
            PROVE  stream'[i].of.seq < stream'[j].of.seq
        <4>1. i \in 1 .. n
          BY <3>3
        <4> QED BY <1>3, <1>4, <1>7, <1>8, <2>1, <3>1, <3>3, <4>1, Zenon DEF Ascending
      <3> QED BY <1>1, <1>4, <2>1, <2>2, <3>2, <3>3, Zenon DEF Ascending
    <2> QED BY <2>2, <2>6, <2>7, Zenon
  <1>12. StreamInStep' /\ ReceivedInOrder' /\ ReplayNeedsLag'
    BY <1>1, Zenon DEF LInv, StreamInStep, ReceivedInOrder, ReplayNeedsLag, Mixed
  <1> QED BY <1>5, <1>6, <1>10, <1>11, <1>12, Zenon DEF LInv

(* The receiver gives up: all that is left to show is the reason. *)
LEMMA FailInv ==
    ASSUME LInv, NEW err \in Errors, Fail(err), UNCHANGED <<maxSeen, seen>>, Tracker!TypeOK',
           err = "ErrBadMagic" => Mixed,
           err = "ErrReplay" => Mixed /\ Head(stream).of.seq + WindowSize < maxSeen
    PROVE  LInv'
  <1>1. /\ rx' = err /\ err # "open"
        /\ UNCHANGED <<direction, sequence, sendMu, pc, frame, sent, overlapped, stream, expects,
                       received, maxSeen, seen>>
    BY Zenon DEF Fail, sendVars, Errors
  <1>2. TypeOK' /\ expects' # 0
    BY <1>1, Zenon DEF LInv, TypeOK
  <1>3. Locked' /\ Numbers'
    BY <1>1, Zenon DEF LInv, Locked, Numbers, Busy, IsFrame
  <1>4. Orderly'
    BY <1>1, Zenon DEF Orderly
  <1>5. StreamInStep' /\ ReceivedInOrder' /\ ReplayNeedsLag'
    BY <1>1, Zenon DEF LInv, StreamInStep, ReceivedInOrder, ReplayNeedsLag, Mixed
  <1> QED BY <1>2, <1>3, <1>4, <1>5, Zenon DEF LInv

(* A read takes the head of the stream; what is left keeps its numbers. *)
LEMMA NumbersRead ==
    ASSUME LInv, stream # <<>>, stream' = Tail(stream), UNCHANGED sendVars,
           \/ seen' = seen
           \/ IsFrame(1) /\ seen' \subseteq seen \cup {stream[1].of.seq}
    PROVE  Numbers'
  <1>1. TypeOK /\ Numbers /\ stream \in Seq(Units)
    BY Zenon DEF LInv, TypeOK
  <1>2. UNCHANGED <<sequence, pc, frame>> /\ \A s : Busy(s)' <=> Busy(s)
    BY Zenon DEF sendVars, Busy
  <1> PICK n \in Nat : n = Len(stream)
    BY <1>1
  <1>3. /\ DOMAIN stream = 1 .. n /\ DOMAIN stream' = 1 .. n - 1 /\ n >= 1
        /\ \A i \in 1 .. n - 1 : stream'[i] = stream[i + 1]
    BY <1>1, TailAt
  <1>4. /\ \A i \in 1 .. n - 1 : i + 1 \in 1 .. n /\ i + 1 # 1
        /\ \A i, j \in 1 .. n - 1 : i + 1 = j + 1 => i = j
        /\ 1 \in 1 .. n
    BY <1>3
  <1>5. \A i \in 1 .. n - 1 : IsFrame(i)' <=> IsFrame(i + 1)
    <2>1. ASSUME NEW i \in 1 .. n - 1 PROVE IsFrame(i)' <=> stream'[i].kind = "frame"
      BY Zenon DEF IsFrame
    <2> QED BY <1>3, <2>1, Zenon DEF IsFrame
  <1>6. /\ seen' \subseteq 1 .. sequence
        /\ \A x : x \in seen' => x \in seen \/ (IsFrame(1) /\ x = stream[1].of.seq)
    <2>1. IsFrame(1) => stream[1].of.seq \in 1 .. sequence
      <3>1. stream[1].of.seq \in 1 .. MaxSends
        <4>1. stream[1].of \in Frames
          BY <1>1, <1>3, <1>4, Compared, Zenon
        <4> QED BY <4>1 DEF Frames
      <3>2. sequence \in Nat /\ MaxSends \in Nat
        BY <1>1, Compared, LinkAssumption
      <3>3. IsFrame(1) => stream[1].of.seq <= sequence
        BY <1>1, <1>3, <1>4, Zenon DEF Numbers
      <3> QED BY <3>1, <3>2, <3>3
    <2> QED BY <1>1, <2>1, Zenon DEF Numbers
  <1>7. ASSUME NEW i \in DOMAIN stream', IsFrame(i)'
        PROVE  /\ stream'[i].of.seq <= sequence' /\ stream'[i].of.seq \notin seen'
               /\ \A t \in Senders : Busy(t)' => frame'[t].seq # stream'[i].of.seq
               /\ \A j \in DOMAIN stream' :
                      IsFrame(j)' /\ stream'[j].of.seq = stream'[i].of.seq => j = i
    <2>1. i \in 1 .. n - 1 /\ i + 1 \in DOMAIN stream /\ IsFrame(i + 1) /\ stream'[i] = stream[i + 1]
      BY <1>3, <1>4, <1>5, <1>7, Zenon
    <2>2. /\ stream[i + 1].of.seq <= sequence /\ stream[i + 1].of.seq \notin seen
          /\ \A t \in Senders : Busy(t) => frame[t].seq # stream[i + 1].of.seq
          /\ \A j \in DOMAIN stream :
                 IsFrame(j) /\ stream[j].of.seq = stream[i + 1].of.seq => j = i + 1
      BY <1>1, <2>1, Zenon DEF Numbers
    <2>3. stream[i + 1].of.seq \notin seen'
      BY <1>3, <1>4, <1>6, <2>1, <2>2, Zenon
    <2>4. ASSUME NEW j \in DOMAIN stream', IsFrame(j)', stream'[j].of.seq = stream'[i].of.seq
          PROVE  j = i
      <3>1. j \in 1 .. n - 1 /\ j + 1 \in DOMAIN stream /\ IsFrame(j + 1) /\ stream'[j] = stream[j + 1]
        BY <1>3, <1>4, <1>5, <2>4, Zenon
      <3>2. j + 1 = i + 1
        BY <2>1, <2>2, <2>4, <3>1, Zenon
      <3> QED BY <1>4, <2>1, <3>1, <3>2, Zenon
    <2> QED BY <1>2, <2>1, <2>2, <2>3, <2>4, Zenon
  <1>8. ASSUME NEW t \in Senders, Busy(t)'
        PROVE  /\ frame'[t] \in Frames
               /\ frame'[t].seq <= sequence' /\ frame'[t].seq \notin seen'
               /\ \A v \in Senders : Busy(v)' /\ frame'[v].seq = frame'[t].seq => v = t
    <2>1. /\ frame[t] \in Frames /\ frame[t].seq <= sequence /\ frame[t].seq \notin seen
          /\ \A v \in Senders : Busy(v) /\ frame[v].seq = frame[t].seq => v = t
          /\ IsFrame(1) => frame[t].seq # stream[1].of.seq
      BY <1>1, <1>2, <1>3, <1>4, <1>8, Zenon DEF Numbers
    <2> QED BY <1>2, <1>6, <2>1, Zenon
  <1> QED BY <1>2, <1>6, <1>7, <1>8, Zenon DEF Numbers

(* A read of a prefix or of a frame leaves the rest in pairs. *)
LEMMA PairedRead ==
    ASSUME TypeOK, Paired, stream # <<>>, stream' = Tail(stream), UNCHANGED sendVars,
           \/ expects = Prefix /\ expects' = WireLength(stream[1].of.size)
           \/ expects # Prefix /\ expects' = Prefix
    PROVE  Paired'
  <1>1. stream \in Seq(Units)
    BY Zenon DEF TypeOK
  <1>2. UNCHANGED <<pc, frame>>
    BY Zenon DEF sendVars
  <1> PICK n \in Nat : n = Len(stream)
    BY <1>1
  <1>3. /\ DOMAIN stream = 1 .. n /\ DOMAIN stream' = 1 .. n - 1 /\ n >= 1 /\ Len(stream') = n - 1
        /\ \A i \in 1 .. n - 1 : stream'[i] = stream[i + 1]
        /\ stream' = <<>> <=> n = 1
    BY <1>1, TailAt
  <1>4. /\ \A i \in 1 .. n - 1 : i + 1 \in 1 .. n /\ i \in 1 .. n /\ i < n
        /\ 1 \in 1 .. n /\ (n # 1 => n - 1 \in 1 .. n - 1 /\ (n - 1) + 1 = n /\ 1 < n)
    BY <1>3
  <1>5. \A i \in 1 .. n - 1 : IsFrame(i)' <=> IsFrame(i + 1)
    <2>1. ASSUME NEW i \in 1 .. n - 1 PROVE IsFrame(i)' <=> stream'[i].kind = "frame"
      BY Zenon DEF IsFrame
    <2> QED BY <1>3, <2>1, Zenon DEF IsFrame
  <1>6. /\ IsFrame(1) <=> expects # Prefix
        /\ expects' # Prefix <=> expects = Prefix
    <2>1. stream[1].of.size \in Nat
      BY <1>3, <1>4, Compared, Zenon
    <2>2. WireLength(stream[1].of.size) # Prefix
      BY <2>1 DEF WireLength, FrameFixedSize, MACSize, Prefix
    <2> QED BY <1>3, <1>4, <2>2, Zenon DEF Paired
  <1>7. ASSUME NEW i \in 1 .. n - 1
        PROVE  /\ i = 1 => (IsFrame(i)' <=> expects' # Prefix)
               /\ i = 1 /\ IsFrame(i)' => expects' = WireLength(stream'[i].of.size)
               /\ i < n - 1 =>
                    /\ IsFrame(i + 1)' <=> ~IsFrame(i)'
                    /\ ~IsFrame(i)' => stream'[i + 1].of = stream'[i].of
    <2>1. i = 1 => (IsFrame(i)' <=> expects' # Prefix)
      BY <1>3, <1>4, <1>5, <1>6, Zenon DEF Paired
    <2>2. i = 1 /\ IsFrame(i)' => expects' = WireLength(stream'[i].of.size)
      <3>1. ASSUME i = 1, IsFrame(i)' PROVE stream'[i].of = stream[1].of /\ ~IsFrame(1)
        BY <1>3, <1>4, <1>5, <3>1, Zenon DEF Paired
      <3> QED BY <1>6, <3>1, Zenon
    <2>3. ASSUME i < n - 1
          PROVE  /\ IsFrame(i + 1)' <=> ~IsFrame(i)'
                 /\ ~IsFrame(i)' => stream'[i + 1].of = stream'[i].of
      <3>1. i + 1 \in 1 .. n - 1 /\ i + 1 < n
        BY <2>3
      <3> QED BY <1>3, <1>4, <1>5, <3>1, Zenon DEF Paired
    <2> QED BY <2>1, <2>2, <2>3, Zenon
  <1>8. n # 1 => (IsFrame(n - 1)' <=> IsFrame(n)) /\ stream'[n - 1] = stream[n]
    BY <1>3, <1>4, <1>5, Zenon
  <1>9. ASSUME NEW s \in Senders, pc'[s] = "prefixed"
        PROVE  /\ stream' = <<>> => expects' = WireLength(frame'[s].size)
               /\ stream' # <<>> => ~IsFrame(n - 1)' /\ stream'[n - 1].of = frame'[s]
    <2>1. ~IsFrame(n) /\ stream[n].of = frame[s]
      BY <1>2, <1>9, Zenon DEF Paired
    <2>2. stream' = <<>> => expects' = WireLength(stream[1].of.size)
      BY <1>3, <1>6, <2>1, Zenon
    <2> QED BY <1>2, <1>3, <1>8, <2>1, <2>2, Zenon
  <1>10. (stream' = <<>> /\ expects' # Prefix) \/ (stream' # <<>> /\ ~IsFrame(n - 1)')
            => \E s \in Senders : pc'[s] = "prefixed"
    <2>1. ~IsFrame(n) => \E s \in Senders : pc[s] = "prefixed"
      BY Zenon DEF Paired
    <2> QED BY <1>2, <1>3, <1>6, <1>8, <2>1, Zenon
  <1> QED BY <1>3, <1>7, <1>9, <1>10, Zenon DEF Paired

(* What is left on the stream is above what was read. *)
LEMMA AscendingRead ==
    ASSUME TypeOK, Ascending, stream # <<>>, stream' = Tail(stream), UNCHANGED sendVars,
           \/ UNCHANGED <<received, maxSeen>>
           \/ /\ IsFrame(1) /\ received' = Append(received, stream[1].of.seq)
              /\ maxSeen' \in {maxSeen, stream[1].of.seq}
    PROVE  Ascending'
  <1>1. stream \in Seq(Units) /\ received \in Seq(1 .. MaxSends)
    BY Zenon DEF TypeOK
  <1>2. UNCHANGED <<pc, frame, sequence>> /\ \A s : Busy(s)' <=> Busy(s)
    BY Zenon DEF sendVars, Busy
  <1> PICK n \in Nat : n = Len(stream)
    BY <1>1
  <1>3. /\ DOMAIN stream = 1 .. n /\ DOMAIN stream' = 1 .. n - 1 /\ n >= 1
        /\ \A i \in 1 .. n - 1 : stream'[i] = stream[i + 1]
    BY <1>1, TailAt
  <1>4. /\ \A i \in 1 .. n - 1 : i + 1 \in 1 .. n /\ 1 < i + 1
        /\ \A i, j \in 1 .. n - 1 : i < j => i + 1 < j + 1
        /\ 1 \in 1 .. n
    BY <1>3
  <1>5. \A i \in 1 .. n - 1 : IsFrame(i)' <=> IsFrame(i + 1)
    <2>1. ASSUME NEW i \in 1 .. n - 1 PROVE IsFrame(i)' <=> stream'[i].kind = "frame"
      BY Zenon DEF IsFrame
    <2> QED BY <1>3, <2>1, Zenon DEF IsFrame
  <1> DEFINE h == stream[1].of.seq
  <1>6. \A k \in DOMAIN received' :
            \/ k \in DOMAIN received /\ received'[k] = received[k]
            \/ IsFrame(1) /\ received'[k] = h
    <2>1. CASE received' = received
      BY <2>1, Zenon
    <2>2. CASE IsFrame(1) /\ received' = Append(received, h)
      <3>1. h \in 1 .. MaxSends
        <4>1. stream[1].of \in Frames
          BY <1>1, <1>3, <1>4, Compared, Zenon
        <4> QED BY <4>1 DEF Frames
      <3> HIDE DEF h
      <3>2. /\ DOMAIN received = 1 .. Len(received) /\ DOMAIN received' = 1 .. Len(received) + 1
            /\ \A k \in 1 .. Len(received) : received'[k] = received[k]
            /\ received'[Len(received) + 1] = h /\ Len(received) \in Nat
        BY <1>1, <2>2, <3>1, AppendAt
      <3>3. \A k \in 1 .. Len(received) + 1 : k \in 1 .. Len(received) \/ k = Len(received) + 1
        BY <3>2
      <3> QED BY <2>2, <3>2, <3>3, Zenon
    <2> QED BY <2>1, <2>2, Zenon
  <1>7. maxSeen' = maxSeen \/ (IsFrame(1) /\ maxSeen' = h)
    BY Zenon
  <1> HIDE DEF h
  <1>8. /\ maxSeen <= sequence /\ h <= sequence
        /\ \A k \in DOMAIN received : received[k] <= sequence
    BY <1>3, <1>4, Zenon DEF Ascending, h
  <1>9. ASSUME NEW i \in 1 .. n - 1
        PROVE  /\ stream'[i].of.seq <= sequence' /\ maxSeen' < stream'[i].of.seq
               /\ \A k \in DOMAIN received' : received'[k] < stream'[i].of.seq
               /\ IsFrame(i)' =>
                    \A j \in 1 .. n - 1 : i < j => stream'[i].of.seq < stream'[j].of.seq
    <2>1. /\ stream[i + 1].of.seq <= sequence /\ maxSeen < stream[i + 1].of.seq
          /\ \A k \in DOMAIN received : received[k] < stream[i + 1].of.seq
          /\ IsFrame(i + 1) => \A j \in 1 .. n :
                i + 1 < j => stream[i + 1].of.seq < stream[j].of.seq
          /\ IsFrame(1) => h < stream[i + 1].of.seq
      BY <1>3, <1>4, Zenon DEF Ascending, h
    <2>2. stream'[i] = stream[i + 1] /\ (IsFrame(i)' <=> IsFrame(i + 1))
      BY <1>3, <1>5, Zenon
    <2>3. ASSUME IsFrame(i)', NEW j \in 1 .. n - 1, i < j
          PROVE  stream'[i].of.seq < stream'[j].of.seq
      BY <1>3, <1>4, <2>1, <2>2, <2>3, Zenon
    <2>4. maxSeen' < stream[i + 1].of.seq /\
          \A k \in DOMAIN received' : received'[k] < stream[i + 1].of.seq
      BY <1>6, <1>7, <2>1, Zenon
    <2> QED BY <1>2, <2>1, <2>2, <2>3, <2>4, Zenon
  <1>10. ASSUME NEW s \in Senders, Busy(s)'
         PROVE  /\ maxSeen' < frame'[s].seq
                /\ \A k \in DOMAIN received' : received'[k] < frame'[s].seq
                /\ \A i \in 1 .. n - 1 :
                      stream'[i].of.seq < frame'[s].seq \/ (pc'[s] = "prefixed" /\ ~IsFrame(i)')
    <2>1. /\ maxSeen < frame[s].seq
          /\ \A k \in DOMAIN received : received[k] < frame[s].seq
          /\ \A i \in 1 .. n :
                stream[i].of.seq < frame[s].seq \/ (pc[s] = "prefixed" /\ ~IsFrame(i))
          /\ IsFrame(1) => h < frame[s].seq
      BY <1>2, <1>3, <1>4, <1>10, Zenon DEF Ascending, h
    <2>2. maxSeen' < frame[s].seq /\ \A k \in DOMAIN received' : received'[k] < frame[s].seq
      BY <1>6, <1>7, <2>1, Zenon
    <2>3. ASSUME NEW i \in 1 .. n - 1
          PROVE  stream'[i].of.seq < frame[s].seq \/ (pc[s] = "prefixed" /\ ~IsFrame(i)')
      BY <1>3, <1>4, <1>5, <2>1, Zenon
    <2> QED BY <1>2, <2>2, <2>3, Zenon
  <1>11. maxSeen' <= sequence' /\ \A k \in DOMAIN received' : received'[k] <= sequence'
    BY <1>2, <1>6, <1>7, <1>8, Zenon
  <1> QED BY <1>3, <1>9, <1>10, <1>11, Zenon DEF Ascending

(* The receiver reads a length prefix. *)
LEMMA ReadPrefixInv ==
    ASSUME LInv, ReadPrefix
    PROVE  LInv'
  <1>1. /\ rx = "open" /\ expects = Prefix /\ stream # <<>>
        /\ UNCHANGED <<maxSeen, seen, accepted, last>>
    BY Zenon DEF ReadPrefix, trackerVars
  <1>2. TypeOK /\ stream \in Seq(Units) /\ Tracker!TypeOK'
    BY <1>1, Zenon DEF LInv, TypeOK, Tracker!TypeOK
  <1>3. /\ Tail(stream) \in Seq(Units) /\ Head(stream) = stream[1] /\ 1 \in DOMAIN stream
    BY <1>1, <1>2, TailAt
  <1> DEFINE m == WireLength(stream[1].of.size)
  <1>4. m \in Nat /\ m # 0
    <2>1. stream[1].of.size \in Nat
      BY <1>2, <1>3, Compared, Zenon
    <2> QED BY <2>1 DEF WireLength, FrameFixedSize, MACSize
  <1>5. CASE Fail("too large")
    BY <1>1, <1>2, <1>5, FailInv, Zenon DEF Errors
  <1>6. CASE expects' = m /\ stream' = Tail(stream) /\ UNCHANGED <<sendVars, rx, received>>
    <2>1. UNCHANGED <<direction, sequence, sendMu, pc, frame, sent, overlapped>>
      BY <1>6, Zenon DEF sendVars
    <2> HIDE DEF m
    <2>2. TypeOK' /\ expects' # 0
      BY <1>2, <1>3, <1>4, <1>6, <2>1, Zenon DEF TypeOK
    <2>3. Locked' /\ Numbers'
      BY <1>1, <1>6, <2>1, NumbersRead, Zenon DEF LInv, Locked, Busy
    <2>4. Orderly'
      <3> SUFFICES ASSUME ~Mixed'
                   PROVE  /\ \A t, v \in Senders : Busy(t)' /\ Busy(v)' => t = v
                          /\ Paired' /\ Ascending'
        BY Zenon DEF Orderly
      <3>1. Paired /\ Ascending /\ \A t, v \in Senders : Busy(t) /\ Busy(v) => t = v
        BY <1>1, <2>1, Zenon DEF LInv, Orderly, Mixed
      <3>2. Paired'
        BY <1>1, <1>2, <1>6, <3>1, PairedRead, Zenon DEF m
      <3>3. Ascending'
        BY <1>1, <1>2, <1>6, <3>1, AscendingRead, Zenon
      <3> QED BY <2>1, <3>1, <3>2, <3>3, Zenon DEF Busy
    <2>5. StreamInStep' /\ ReceivedInOrder' /\ ReplayNeedsLag'
      BY <1>1, <1>6, <2>1, Zenon DEF LInv, StreamInStep, ReceivedInOrder, ReplayNeedsLag, Mixed
    <2> QED BY <2>2, <2>3, <2>4, <2>5, Zenon DEF LInv
  <1> QED BY <1>3, <1>5, <1>6, Zenon DEF ReadPrefix

(* What the tracker answers, and what it remembers. *)
LEMMA CheckEffect ==
    ASSUME TypeOK, NEW q \in 1 .. MaxSends, Tracker!Check(q)
    PROVE  /\ Tracker!TypeOK'
           /\ \/ last'.err = "ok" /\ seen' \subseteq seen \cup {q} /\ maxSeen' \in {maxSeen, q}
              \/ /\ last'.err # "ok" /\ UNCHANGED <<maxSeen, seen>>
                 /\ q <= maxSeen /\ (maxSeen - q > WindowSize \/ q \in seen)
  <1>1. Tracker!TypeOK /\ q \in Tracker!Seqs /\ q # 0
    BY LinkAssumption DEF TypeOK, Tracker!Seqs
  <1>2. /\ maxSeen \in Tracker!Seqs /\ seen \subseteq Tracker!Seqs
        /\ accepted \in [Tracker!Seqs -> Nat]
    BY <1>1, Zenon DEF Tracker!TypeOK
  <1>3. ASSUME Tracker!Record(q)
        PROVE  /\ accepted' \in [Tracker!Seqs -> Nat] /\ last'.err = "ok"
               /\ last' \in [seq : Tracker!Seqs, err : {"none", "ok", "ErrReplay"}]
    <2>1. accepted' \in [Tracker!Seqs -> Nat]
      BY <1>1, <1>2, <1>3 DEF Tracker!Record
    <2>2. last' = [seq |-> q, err |-> "ok"]
      BY <1>3, Zenon DEF Tracker!Record, Tracker!Answer
    <2> QED BY <1>1, <2>1, <2>2
  <1>4. CASE Tracker!Advance(q)
    <2>1. maxSeen' = q /\ seen' \subseteq seen \cup {q}
      BY <1>4, Zenon DEF Tracker!Advance, Tracker!cleanup
    <2>2. Tracker!TypeOK'
      BY <1>1, <1>2, <1>3, <1>4, <2>1, Zenon DEF Tracker!Advance, Tracker!TypeOK
    <2> QED BY <1>3, <1>4, <2>1, <2>2, Zenon DEF Tracker!Advance
  <1>5. CASE Tracker!Fill(q)
    <2>1. Tracker!TypeOK'
      BY <1>1, <1>2, <1>3, <1>5, Zenon DEF Tracker!Fill, Tracker!TypeOK
    <2> QED BY <1>3, <1>5, <2>1, Zenon DEF Tracker!Fill
  <1>6. CASE Tracker!Refuse(q)
    <2>1. last' = [seq |-> q, err |-> "ErrReplay"] /\ UNCHANGED <<maxSeen, seen, accepted>>
      BY <1>6, Zenon DEF Tracker!Refuse, Tracker!Answer
    <2>2. last'.err # "ok" /\ last' \in [seq : Tracker!Seqs, err : {"none", "ok", "ErrReplay"}]
      BY <1>1, <2>1
    <2>3. Tracker!TypeOK'
      BY <1>2, <2>1, <2>2, Zenon DEF Tracker!TypeOK
    <2> QED BY <1>1, <1>6, <2>1, <2>2, <2>3, Zenon DEF Tracker!Refuse, Tracker!TooOld
  <1> QED BY <1>4, <1>5, <1>6, Zenon DEF Tracker!Check

(* The receiver reads a frame and hands it on. *)
LEMMA DeliverInv ==
    ASSUME LInv, rx = "open", expects # Prefix, stream # <<>>, IsFrame(1),
           Deliver(stream[1].of.seq), Tracker!TypeOK',
           seen' = seen \/ seen' \subseteq seen \cup {stream[1].of.seq},
           maxSeen' \in {maxSeen, stream[1].of.seq}
    PROVE  LInv'
  <1> DEFINE h == stream[1].of.seq
  <1>1. /\ received' = Append(received, h) /\ expects' = Prefix /\ stream' = Tail(stream)
        /\ UNCHANGED <<sendVars, rx>>
        /\ UNCHANGED <<direction, sequence, sendMu, pc, frame, sent, overlapped, rx>>
    BY Zenon DEF Deliver, sendVars
  <1>2. TypeOK /\ stream \in Seq(Units) /\ received \in Seq(1 .. MaxSends)
    BY Zenon DEF LInv, TypeOK
  <1>3. /\ Tail(stream) \in Seq(Units) /\ 1 \in DOMAIN stream
    BY <1>2, TailAt
  <1>4. h \in 1 .. MaxSends
    <2>1. stream[1].of \in Frames
      BY <1>2, <1>3, Compared, Zenon
    <2> QED BY <2>1 DEF Frames
  <1>5. TypeOK' /\ expects' # 0
    <2> HIDE DEF h
    <2>1. received' \in Seq(1 .. MaxSends)
      BY <1>1, <1>2, <1>4, AppendAt
    <2>2. expects' \in Nat \cup {Prefix} /\ expects' # 0
      BY <1>1 DEF Prefix
    <2> QED BY <1>1, <1>2, <1>3, <2>1, <2>2, Zenon DEF TypeOK
  <1>6. Locked' /\ Numbers'
    BY <1>1, NumbersRead, Zenon DEF LInv, Locked, Busy
  <1>7. ASSUME ~Mixed'
        PROVE  Paired /\ Ascending /\ \A t, v \in Senders : Busy(t) /\ Busy(v) => t = v
    BY <1>1, <1>7, Zenon DEF LInv, Orderly, Mixed
  <1>8. Orderly'
    <2> SUFFICES ASSUME ~Mixed'
                 PROVE  /\ \A t, v \in Senders : Busy(t)' /\ Busy(v)' => t = v
                        /\ Paired' /\ Ascending'
      BY Zenon DEF Orderly
    <2>1. Paired'
      BY <1>1, <1>2, <1>7, PairedRead, Zenon
    <2>2. Ascending'
      BY <1>1, <1>2, <1>7, AscendingRead, Zenon
    <2> QED BY <1>1, <1>7, <2>1, <2>2, Zenon DEF Busy
  <1>9. ReceivedInOrder'
    <2> SUFFICES ASSUME ~Mixed', NEW i \in DOMAIN received', NEW j \in DOMAIN received', i < j
                 PROVE  received'[i] < received'[j]
      BY Zenon DEF ReceivedInOrder
    <2>1. /\ \A k \in DOMAIN received : received[k] < h
          /\ \A k, l \in DOMAIN received : k < l => received[k] < received[l]
      BY <1>1, <1>3, <1>7, Zenon DEF LInv, ReceivedInOrder, Ascending, Mixed
    <2> HIDE DEF h
    <2>2. /\ DOMAIN received = 1 .. Len(received) /\ DOMAIN received' = 1 .. Len(received) + 1
          /\ \A k \in 1 .. Len(received) : received'[k] = received[k]
          /\ received'[Len(received) + 1] = h /\ Len(received) \in Nat
      BY <1>1, <1>2, <1>4, AppendAt
    <2>3. i \in 1 .. Len(received) /\ (j \in 1 .. Len(received) \/ j = Len(received) + 1)
      BY <2>2
    <2> QED BY <2>1, <2>2, <2>3, Zenon
  <1>10. StreamInStep' /\ ReplayNeedsLag'
    BY <1>1, Zenon DEF LInv, StreamInStep, ReplayNeedsLag, Mixed
  <1> QED BY <1>5, <1>6, <1>8, <1>9, <1>10, Zenon DEF LInv

(* Receive, once the bytes are there: out of step only if Sends were mixed *)
(* up, and refused by the tracker only for lag.                            *)
LEMMA ReadInv ==
    ASSUME LInv, ReadGarbage \/ ReadFrame
    PROVE  LInv'
  <1>1. rx = "open" /\ expects # Prefix /\ Buffered >= expects
    BY Zenon DEF ReadGarbage, ReadFrame
  <1>2. TypeOK /\ expects # 0 /\ stream \in Seq(Units) /\ Tracker!TypeOK
    BY Zenon DEF LInv, TypeOK
  <1>3. stream # <<>>
    BY <1>1, <1>2, SomethingBuffered, Zenon
  <1>4. Head(stream) = stream[1] /\ 1 \in DOMAIN stream
    BY <1>2, <1>3, TailAt
  <1>5. ~Mixed => Paired /\ Ascending
    BY <1>1, Zenon DEF LInv, Orderly
  <1>6. CASE ReadGarbage
    <2>1. ~InStep /\ Fail("ErrBadMagic") /\ UNCHANGED <<maxSeen, seen, accepted, last>>
      BY <1>6, Zenon DEF ReadGarbage, trackerVars
    <2>2. Mixed
      BY <1>1, <1>4, <1>5, <2>1, Zenon DEF Paired, InStep, IsFrame
    <2>3. Tracker!TypeOK'
      BY <1>2, <2>1, Zenon DEF Tracker!TypeOK
    <2> QED BY <2>1, <2>2, <2>3, FailInv, Zenon DEF Errors
  <1>7. CASE ReadFrame
    <2> DEFINE h == stream[1].of.seq
    <2>1. IsFrame(1)
      BY <1>4, <1>7, Zenon DEF ReadFrame, InStep, IsFrame
    <2>2. h \in 1 .. MaxSends
      <3>1. stream[1].of \in Frames
        BY <1>2, <1>4, Compared, Zenon
      <3> QED BY <3>1 DEF Frames
    <2>3. CASE Deliver(h) /\ UNCHANGED <<maxSeen, seen, accepted, last>>
      <3>1. Tracker!TypeOK'
        BY <1>2, <2>3, Zenon DEF Tracker!TypeOK
      <3> QED BY <1>1, <1>3, <2>1, <2>3, <3>1, DeliverInv, Zenon
    <2>4. CASE /\ direction = "toServer" /\ Tracker!Check(h)
               /\ IF last'.err = "ok" THEN Deliver(h) ELSE Fail("ErrReplay")
      <3>1. /\ Tracker!TypeOK'
            /\ \/ last'.err = "ok" /\ seen' \subseteq seen \cup {h} /\ maxSeen' \in {maxSeen, h}
               \/ /\ last'.err # "ok" /\ UNCHANGED <<maxSeen, seen>>
                  /\ h <= maxSeen /\ (maxSeen - h > WindowSize \/ h \in seen)
        BY <1>2, <2>2, <2>4, CheckEffect, Zenon
      <3>2. CASE last'.err = "ok"
        BY <1>1, <1>3, <2>1, <2>4, <3>1, <3>2, DeliverInv, Zenon
      <3>3. CASE last'.err # "ok"
        <4>1. h \notin seen
          BY <1>4, <2>1, Zenon DEF LInv, Numbers
        <4> HIDE DEF h
        <4>2. maxSeen \in Nat /\ WindowSize \in Nat /\ h \in Nat
          BY <1>2, <2>2, Compared, LinkAssumption
        <4>3. h <= maxSeen /\ h + WindowSize < maxSeen
          BY <3>1, <3>3, <4>1, <4>2
        <4>4. Mixed
          <5>1. ~Mixed => maxSeen < h
            BY <1>4, <1>5, Zenon DEF Ascending, h
          <5> QED BY <4>2, <4>3, <5>1
        <4>5. Fail("ErrReplay") /\ UNCHANGED <<maxSeen, seen>> /\ Tracker!TypeOK'
          BY <2>4, <3>1, <3>3, Zenon
        <4>6. Head(stream).of.seq + WindowSize < maxSeen
          BY <1>4, <4>3, Zenon DEF h
        <4> QED BY <4>4, <4>5, <4>6, FailInv, Zenon DEF Errors
      <3> QED BY <3>2, <3>3, Zenon
    <2> QED BY <1>4, <1>7, <2>3, <2>4, Zenon DEF ReadFrame, trackerVars
  <1> QED BY <1>6, <1>7, Zenon
-----------------------------------------------------------------------------
(* Every step of senders and receiver keeps the invariant. *)
LEMMA LinkStepInv == LInv /\ [Next]_vars => LInv'
  <1> SUFFICES ASSUME LInv, [Next]_vars PROVE LInv'
    OBVIOUS
  <1>1. ASSUME NEW s \in Senders, Send(s) PROVE LInv'
    BY <1>1, BuildInv, SendFailsInv, WritePrefixInv, WriteFrameInv, Zenon DEF Send
  <1>2. CASE Receive
    BY <1>2, ReadPrefixInv, ReadInv, Zenon DEF Receive
  <1>3. CASE Disconnect
    <2>1. Fail("closed") /\ UNCHANGED <<maxSeen, seen, accepted, last>>
      BY <1>3, Zenon DEF Disconnect, trackerVars
    <2>2. Tracker!TypeOK'
      BY <2>1, Zenon DEF LInv, TypeOK, Tracker!TypeOK
    <2> QED BY <2>1, <2>2, FailInv, Zenon DEF Errors
  <1>4. CASE UNCHANGED vars
    <2>1. UNCHANGED <<direction, sequence, sendMu, pc, frame, sent, overlapped, stream, expects, rx,
                      received, maxSeen, seen, accepted, last>>
      BY <1>4, Zenon DEF vars, sendVars, recvVars, trackerVars
    <2>2. TypeOK' /\ expects' # 0
      BY <2>1, Zenon DEF LInv, TypeOK, Tracker!TypeOK
    <2>3. Locked' /\ Numbers'
      BY <2>1, Zenon DEF LInv, Locked, Numbers, Busy, IsFrame
    <2>4. Orderly'
      BY <2>1, Zenon DEF LInv, Orderly, Paired, Ascending, Busy, IsFrame, Mixed
    <2>5. StreamInStep' /\ ReceivedInOrder' /\ ReplayNeedsLag'
      BY <2>1, Zenon DEF LInv, StreamInStep, ReceivedInOrder, ReplayNeedsLag, Mixed
    <2> QED BY <2>2, <2>3, <2>4, <2>5, Zenon DEF LInv
  <1> QED BY <1>1, <1>2, <1>3, <1>4, Zenon DEF Next

(* The invariant of a connection. *)
THEOREM LinkInductive == Spec => []LInv
  BY LinkInitInv, LinkStepInv, PTL DEF Spec

(* StreamInStep: the receiver takes other bytes for a frame only if Sends  *)
(* on a client endpoint, which has no lock, overlapped.                    *)
THEOREM FramesStayInStep == Spec => []StreamInStep
  <1>1. LInv => StreamInStep
    BY Zenon DEF LInv
  <1> QED BY <1>1, LinkInductive, PTL

(* ReceivedInOrder: on the same condition numbers arrive in order. *)
THEOREM FramesArriveInOrder == Spec => []ReceivedInOrder
  <1>1. LInv => ReceivedInOrder
    BY Zenon DEF LInv
  <1> QED BY <1>1, LinkInductive, PTL

(* ReplayNeedsLag: the tracker refuses a frame of the endpoint itself only *)
(* when Sends overlapped and more than a window of later ones came first.  *)
THEOREM FreshFramesRefusedForLag == Spec => []ReplayNeedsLag
  <1>1. LInv => ReplayNeedsLag
    BY Zenon DEF LInv
  <1> QED BY <1>1, LinkInductive, PTL
-----------------------------------------------------------------------------
(* The ages of the beats that are neither recorded nor lost, oldest first: *)
(* those on their way, the one in Send and the tick in the channel.        *)
Waiting == Len(flight) + (IF sending = None THEN 0 ELSE 1) + (IF tickCh = None THEN 0 ELSE 1)

(* Their ages. *)
Queue ==
    [k \in 1 .. Waiting |->
        IF k <= Len(flight) THEN flight[k]
        ELSE IF k = Len(flight) + 1 /\ sending # None THEN sending
        ELSE tickCh]

(* How many more may be lost while the network is calm. *)
Spare == MaxLost - lost

(* An older beat is before a younger one. *)
Ordered == \A j, k \in 1 .. Waiting : j <= k => Queue[k] <= Queue[j]

(* No more is lost than may be, and none is later than may be. *)
Punctual == lost <= MaxLost /\ \A k \in 1 .. Waiting : Queue[k] <= MaxDelay

(* If as many of the next beats are lost as may be, the one after them is  *)
(* recorded in time: it is in the queue already, or a tick is to come.     *)
InTime ==
    IF Spare < Waiting THEN silence + MaxDelay <= Timeout + Queue[Spare + 1]
    ELSE silence + untilTick + (Spare - Waiting) * Interval + MaxDelay <= Timeout

(* While the network is calm, the next beat is recorded in time. *)
OnTime == calm => Ordered /\ Punctual /\ (silence # Never => InTime)

(* The loop's place, and what Stop ends. *)
Control ==
    /\ HeartbeatTypeOK
    /\ sending # None <=> loop = "send"
    /\ loop = "ended" => stopped
    /\ stopped => ~calm

(* The inductive invariant of the heartbeats. *)
HInv == Control /\ OnTime
-----------------------------------------------------------------------------
(* The queue is a sequence of ages. *)
LEMMA QueueType ==
    ASSUME HeartbeatTypeOK
    PROVE  /\ Waiting \in Nat
           /\ DOMAIN Queue = 1 .. Waiting
           /\ \A k \in 1 .. Waiting : Queue[k] \in Ages
  <1> DEFINE n == Len(flight)
  <1>1. n \in Nat /\ flight \in Seq(Ages)
    <2>1. flight \in Seq(Ages)
      BY Zenon DEF HeartbeatTypeOK
    <2> QED BY <2>1
  <1>2. \A k \in 1 .. n : flight[k] \in Ages
    BY <1>1
  <1> HIDE DEF n
  <1>3. Waiting = n + (IF sending = None THEN 0 ELSE 1) + (IF tickCh = None THEN 0 ELSE 1)
    BY DEF Waiting, n
  <1>4. Waiting \in Nat
    BY <1>1, <1>3
  <1>5. (sending = None \/ sending \in Ages) /\ (tickCh = None \/ tickCh \in Ages)
    BY Zenon DEF HeartbeatTypeOK
  <1>6. ASSUME NEW k \in 1 .. Waiting PROVE Queue[k] \in Ages
    <2>1. Queue[k] = IF k <= n THEN flight[k] ELSE IF k = n + 1 /\ sending # None THEN sending ELSE tickCh
      BY DEF Queue, n
    <2>2. CASE k <= n
      BY <2>1, <2>2, <1>2
    <2>3. CASE k > n /\ k = n + 1 /\ sending # None
      BY <2>1, <2>3, <1>1, <1>5
    <2>4. CASE k > n /\ ~(k = n + 1 /\ sending # None)
      <3>1. tickCh # None
        BY <2>4, <1>1, <1>3
      <3> QED BY <2>1, <2>4, <3>1, <1>1, <1>5
    <2> QED BY <2>2, <2>3, <2>4, <1>1
  <1>7. DOMAIN Queue = 1 .. Waiting
    BY Zenon DEF Queue
  <1> QED BY <1>4, <1>6, <1>7

(* What the arithmetic below rests on. *)
LEMMA ClockNumbers ==
    ASSUME HeartbeatTypeOK
    PROVE  /\ MaxLost \in Nat /\ MaxDelay \in Nat /\ Timeout \in Nat /\ Interval \in Nat /\ Interval # 0
           /\ lost \in Nat /\ silence \in Nat /\ untilTick \in Nat /\ untilTick <= Interval /\ untilTick # 0
           /\ Never = Timeout + 2 /\ Late = MaxDelay + 1 /\ None = MaxDelay + 2
  <1>1. MaxLost \in Nat /\ MaxDelay \in Nat /\ Timeout \in Nat /\ Interval \in Nat /\ Interval # 0
    BY HeartbeatAssumption
  <1>2. lost \in 0 .. MaxLost + 1 /\ silence \in 0 .. Never /\ untilTick \in 1 .. Interval
    BY Zenon DEF HeartbeatTypeOK
  <1> QED BY <1>1, <1>2 DEF Never, Late, None

(* Steps that move a beat along or do not touch the beats. *)
LEMMA SameOnTime ==
    ASSUME OnTime, Waiting' = Waiting, Queue' = Queue,
           UNCHANGED <<untilTick, silence, lost>>, calm
    PROVE  OnTime'
  BY Zenon DEF OnTime, Ordered, Punctual, InTime, Spare

(* What a lost beat at a place of the queue changes. *)
LEMMA LoseOnTime ==
    ASSUME HInv, NEW p \in 1 .. Waiting,
           Waiting' = Waiting - 1,
           \A k \in 1 .. (Waiting - 1) : Queue'[k] = IF k < p THEN Queue[k] ELSE Queue[k + 1],
           Lose, UNCHANGED <<untilTick, silence>>, calm, calm'
    PROVE  OnTime'
  <1> DEFINE q == Queue
             n == Waiting
             m == n - 1
             s == Spare
  <1>1. n \in Nat /\ n # 0 /\ \A k \in 1 .. n : q[k] \in Nat
    BY QueueType DEF HInv, Control, Ages
  <1>2. \A j, k \in 1 .. n : j <= k => q[k] <= q[j]
    BY Zenon DEF HInv, OnTime, Ordered
  <1>3. MaxLost \in Nat /\ MaxDelay \in Nat /\ Timeout \in Nat /\ Interval \in Nat
        /\ lost \in Nat /\ silence \in Nat /\ untilTick \in Nat
    BY ClockNumbers DEF HInv, Control
  <1>4. \A k \in 1 .. m : Queue'[k] = IF k < p THEN q[k] ELSE q[k + 1]
    OBVIOUS
  <1> HIDE DEF q, n
  <1>5. \A k \in 1 .. m : k \in 1 .. n /\ k + 1 \in 1 .. n
    BY <1>1
  <1>6. Ordered'
    <2>1. ASSUME NEW j \in 1 .. m, NEW k \in 1 .. m, j <= k PROVE Queue'[k] <= Queue'[j]
      <3>1. CASE k < p
        BY <3>1, <2>1, <1>2, <1>4, <1>5
      <3>2. CASE ~(k < p) /\ j < p
        <4>1. Queue'[k] = q[k + 1] /\ Queue'[j] = q[j]
          BY <3>2, <1>4
        <4>2. j <= k + 1 /\ j \in 1 .. n /\ k + 1 \in 1 .. n
          BY <2>1, <1>5
        <4> QED BY <4>1, <4>2, <1>2
      <3>3. CASE ~(j < p)
        <4>1. ~(k < p) /\ j + 1 <= k + 1
          BY <2>1, <3>3
        <4>2. Queue'[k] = q[k + 1] /\ Queue'[j] = q[j + 1]
          BY <3>3, <4>1, <1>4
        <4> QED BY <4>1, <4>2, <1>2, <1>5
      <3> QED BY <3>1, <3>2, <3>3
    <2>2. Waiting' = m
      BY DEF n
    <2> QED BY <2>1, <2>2 DEF Ordered
  <1>7. calm /\ lost < MaxLost /\ lost' = lost + 1 /\ s \in Nat /\ s # 0 /\ Spare' = s - 1
    <2>1. calm /\ lost < MaxLost
      BY Zenon DEF Lose
    <2>2. lost' = lost + 1
      BY <2>1, <1>3 DEF Lose, AtMost
    <2> QED BY <2>1, <2>2, <1>3 DEF Spare
  <1>8. Punctual'
    <2>1. \A k \in 1 .. n : q[k] <= MaxDelay
      BY DEF HInv, OnTime, Punctual, q, n
    <2>2. \A k \in 1 .. m : Queue'[k] <= MaxDelay
      BY <2>1, <1>4, <1>5
    <2>3. Waiting' = m
      BY DEF n
    <2>4. lost' <= MaxLost
      BY <1>3, <1>7
    <2> QED BY <2>2, <2>3, <2>4, Zenon DEF Punctual
  <1>9. ASSUME silence' # Never PROVE InTime'
    <2>1. IF s < n THEN silence + MaxDelay <= Timeout + q[s + 1]
          ELSE silence + untilTick + (s - n) * Interval + MaxDelay <= Timeout
      BY <1>7, <1>9 DEF HInv, OnTime, InTime, q, n
    <2>2. Waiting' = m /\ silence' = silence /\ untilTick' = untilTick
      BY DEF n
    <2>3. s \in Nat /\ s # 0 /\ Spare' = s - 1
      BY <1>7, <1>9
    <2> HIDE DEF s
    <2>4. CASE s < n
      <3>1. s \in 1 .. m /\ s - 1 < m
        BY <2>3, <2>4, <1>1
      <3>2. Queue'[s] >= q[s + 1]
        <4>1. s \in 1 .. n /\ s + 1 \in 1 .. n /\ s <= s + 1
          BY <3>1, <1>1
        <4>2. q[s + 1] <= q[s] /\ q[s] \in Nat /\ q[s + 1] \in Nat
          BY <4>1, <1>1, <1>2
        <4>3. Queue'[s] = q[s] \/ Queue'[s] = q[s + 1]
          BY <3>1, <1>4
        <4> QED BY <4>2, <4>3
      <3>3. Queue'[s] \in Nat /\ q[s + 1] \in Nat
        <4>1. s \in 1 .. n /\ s + 1 \in 1 .. n
          BY <3>1, <1>1
        <4> QED BY <4>1, <3>1, <1>1, <1>4
      <3>4. silence + MaxDelay <= Timeout + Queue'[s]
        BY <2>1, <2>4, <3>2, <3>3, <1>3
      <3>5. (s - 1) + 1 = s
        BY <2>3
      <3> QED BY <2>2, <2>3, <3>1, <3>4, <3>5 DEF InTime
    <2>5. CASE ~(s < n)
      <3>1. ~(s - 1 < m) /\ (s - 1) - m = s - n
        BY <2>3, <2>5, <1>1
      <3> QED BY <2>1, <2>2, <2>3, <2>5, <3>1 DEF InTime
    <2> QED BY <2>4, <2>5
  <1> QED BY <1>6, <1>8, <1>9, Zenon DEF OnTime

(* A record gives the whole timeout to the beats that follow. *)
LEMMA RecordOnTime ==
    ASSUME HInv, Waiting # 0,
           Waiting' = Waiting - 1,
           \A k \in 1 .. (Waiting - 1) : Queue'[k] = Queue[k + 1],
           lost' = 0, silence' = 0, UNCHANGED untilTick, calm
    PROVE  OnTime'
  <1> DEFINE q == Queue
             n == Waiting
             m == n - 1
  <1>1. n \in Nat /\ n # 0 /\ \A k \in 1 .. n : q[k] \in Nat
    BY QueueType DEF HInv, Control, Ages
  <1>2. \A j, k \in 1 .. n : j <= k => q[k] <= q[j]
    BY Zenon DEF HInv, OnTime, Ordered
  <1>3. MaxLost \in Nat /\ MaxDelay \in Nat /\ Timeout \in Nat /\ Interval \in Nat
        /\ untilTick \in Nat /\ untilTick <= Interval
    BY ClockNumbers DEF HInv, Control
  <1>4. Timeout >= (MaxLost + 1) * Interval + MaxDelay
    BY HeartbeatAssumption
  <1>5. \A k \in 1 .. m : Queue'[k] = q[k + 1]
    OBVIOUS
  <1>6. Waiting' = m
    OBVIOUS
  <1> HIDE DEF q, n
  <1>7. \A k \in 1 .. m : k + 1 \in 1 .. n
    BY <1>1
  <1>8. Ordered'
    <2>1. ASSUME NEW j \in 1 .. m, NEW k \in 1 .. m, j <= k PROVE Queue'[k] <= Queue'[j]
      <3>1. j + 1 <= k + 1
        BY <2>1
      <3> QED BY <3>1, <1>2, <1>5, <1>7
    <2> QED BY <2>1, <1>6 DEF Ordered
  <1>9. Punctual'
    <2>1. \A k \in 1 .. n : q[k] <= MaxDelay
      BY DEF HInv, OnTime, Punctual, q, n
    <2>2. \A k \in 1 .. m : Queue'[k] <= MaxDelay
      BY <2>1, <1>5, <1>7
    <2>3. lost' <= MaxLost
      BY <1>3
    <2> QED BY <2>2, <2>3, <1>6, Zenon DEF Punctual
  <1>10. InTime'
    <2>1. Spare' = MaxLost
      BY <1>3 DEF Spare
    <2>2. MaxLost * Interval \in Nat /\ (MaxLost + 1) * Interval = MaxLost * Interval + Interval
      BY <1>3
    <2>3. CASE MaxLost < m
      <3>1. MaxLost + 1 \in 1 .. m
        BY <2>3, <1>1, <1>3
      <3>2. Queue'[MaxLost + 1] \in Nat
        BY <3>1, <1>1, <1>5, <1>7
      <3>3. MaxDelay <= Timeout
        BY <2>2, <1>3, <1>4
      <3>4. 0 + MaxDelay <= Timeout + Queue'[MaxLost + 1]
        BY <3>2, <3>3, <1>3
      <3> QED BY <2>1, <2>3, <3>4, <1>6 DEF InTime
    <2>4. CASE ~(MaxLost < m)
      <3>1. m \in Nat /\ MaxLost - m \in Nat
        BY <2>4, <1>1, <1>3
      <3>2. (MaxLost - m) * Interval <= MaxLost * Interval /\ (MaxLost - m) * Interval \in Nat
        <4>1. MaxLost * Interval = (MaxLost - m) * Interval + m * Interval /\ m * Interval \in Nat
              /\ (MaxLost - m) * Interval \in Nat
          BY <3>1, <1>3
        <4> QED BY <4>1, <2>2
      <3>3. 0 + untilTick + (MaxLost - m) * Interval + MaxDelay <= Timeout
        BY <2>2, <3>2, <1>3, <1>4
      <3> QED BY <2>1, <2>4, <3>3, <1>6 DEF InTime
    <2> QED BY <2>3, <2>4
  <1> QED BY <1>8, <1>9, <1>10, Zenon DEF OnTime

(* Time makes all that waits older by one; a tick that fires joins it, or  *)
(* is lost.                                                                *)
LEMMA PassOnTime ==
    ASSUME HInv, NEW fires \in BOOLEAN, NEW drops \in BOOLEAN, drops => fires, fires <=> untilTick = 1,
           Waiting' = IF fires /\ ~drops THEN Waiting + 1 ELSE Waiting,
           \A k \in 1 .. Waiting : Queue'[k] = Queue[k] + 1 /\ Queue'[k] <= MaxDelay,
           fires /\ ~drops => Queue'[Waiting + 1] = 0,
           untilTick' = IF fires THEN Interval ELSE untilTick - 1,
           silence # Never => silence' = silence + 1,
           silence = Never => silence' = Never,
           lost' = IF drops THEN lost + 1 ELSE lost,
           drops => lost < MaxLost, calm, calm'
    PROVE  OnTime'
  <1> DEFINE q == Queue
             n == Waiting
             m == Waiting'
             r == Queue'
             s == Spare
  <1>1. n \in Nat /\ \A k \in 1 .. n : q[k] \in Nat
    BY QueueType DEF HInv, Control, Ages
  <1>2. \A j, k \in 1 .. n : j <= k => q[k] <= q[j]
    BY Zenon DEF HInv, OnTime, Ordered
  <1>3. MaxLost \in Nat /\ MaxDelay \in Nat /\ Timeout \in Nat /\ Interval \in Nat
        /\ lost \in Nat /\ silence \in Nat /\ untilTick \in Nat /\ untilTick # 0
    BY ClockNumbers DEF HInv, Control
  <1>4. lost <= MaxLost
    BY DEF HInv, OnTime, Punctual
  <1>5. \A k \in 1 .. n : r[k] = q[k] + 1 /\ r[k] <= MaxDelay
    OBVIOUS
  <1>6. CASE fires /\ ~drops
    <2>1. m = n + 1 /\ r[n + 1] = 0 /\ untilTick = 1 /\ untilTick' = Interval /\ lost' = lost
      BY <1>6
    <2> HIDE DEF q, n, m, r
    <2>2. ASSUME NEW k \in 1 .. m PROVE k \in 1 .. n \/ k = n + 1
      BY <1>1, <2>1
    <2>3. ASSUME NEW j \in 1 .. m, NEW k \in 1 .. m, j <= k PROVE r[k] <= r[j]
      <3>1. CASE k \in 1 .. n
        <4>1. j \in 1 .. n
          BY <1>1, <2>3, <3>1
        <4> QED BY <3>1, <4>1, <2>3, <1>1, <1>2, <1>5
      <3>2. CASE k = n + 1
        BY <3>2, <2>1, <2>2, <1>1, <1>5
      <3> QED BY <2>2, <3>1, <3>2
    <2>4. \A k \in 1 .. m : r[k] <= MaxDelay
      BY <2>1, <2>2, <1>3, <1>5
    <2>5. ASSUME silence' # Never PROVE InTime'
      <3>1. silence # Never /\ silence' = silence + 1
        BY <2>5, Zenon
      <3>2. IF s < n THEN silence + MaxDelay <= Timeout + q[s + 1]
            ELSE silence + untilTick + (s - n) * Interval + MaxDelay <= Timeout
        BY <3>1 DEF HInv, OnTime, InTime, q, n
      <3>3. s \in Nat /\ Spare' = s
        BY <2>1, <1>3, <1>4 DEF Spare
      <3> HIDE DEF s
      <3>4. CASE s < n
        <4>1. s + 1 \in 1 .. n /\ s < m
          BY <3>3, <3>4, <1>1, <2>1
        <4>2. silence' + MaxDelay <= Timeout + r[s + 1]
          BY <3>1, <3>2, <3>4, <4>1, <1>1, <1>3, <1>5
        <4> QED BY <3>3, <4>1, <4>2 DEF InTime, m, r
      <3>5. CASE s = n
        <4>1. (s - n) * Interval = 0 /\ s < m
          BY <3>3, <3>5, <1>1, <1>3, <2>1
        <4>2. silence' + MaxDelay <= Timeout + r[s + 1]
          BY <3>1, <3>2, <3>5, <4>1, <2>1, <1>1, <1>3
        <4> QED BY <3>3, <4>1, <4>2 DEF InTime, m, r
      <3>6. CASE s > n
        <4>1. ~(s < m) /\ ~(s < n)
          BY <3>3, <3>6, <1>1, <2>1
        <4>2. (s - n) * Interval = (s - m) * Interval + Interval /\ (s - m) * Interval \in Nat
          <5>1. s - m \in Nat /\ s - n = (s - m) + 1
            BY <3>3, <3>6, <1>1, <2>1
          <5> QED BY <5>1, <1>3
        <4>3. silence' + untilTick' + (s - m) * Interval + MaxDelay <= Timeout
          BY <3>1, <3>2, <4>1, <4>2, <2>1, <1>3
        <4> QED BY <3>3, <4>1, <4>3 DEF InTime, m
      <3> QED BY <3>3, <3>4, <3>5, <3>6, <1>1
    <2>6. lost' <= MaxLost
      BY <2>1, <1>4
    <2> QED BY <2>3, <2>4, <2>5, <2>6 DEF OnTime, Ordered, Punctual, m, r
  <1>7. CASE ~(fires /\ ~drops)
    <2>1. m = n
      BY <1>7
    <2> HIDE DEF q, n, m, r
    <2>2. ASSUME NEW j \in 1 .. n, NEW k \in 1 .. n, j <= k PROVE r[k] <= r[j]
      BY <2>2, <1>1, <1>2, <1>5
    <2>3. lost' <= MaxLost
      BY <1>3, <1>4
    <2>4. ASSUME silence' # Never PROVE InTime'
      <3>1. silence # Never /\ silence' = silence + 1
        BY <2>4, Zenon
      <3>2. IF s < n THEN silence + MaxDelay <= Timeout + q[s + 1]
            ELSE silence + untilTick + (s - n) * Interval + MaxDelay <= Timeout
        BY <3>1 DEF HInv, OnTime, InTime, q, n
      <3>3. s \in Nat /\ s = MaxLost - lost
        BY <1>3, <1>4 DEF Spare
      <3>4. CASE ~drops
        <4>1. ~fires /\ untilTick' = untilTick - 1 /\ lost' = lost
          BY <3>4, <1>7, Zenon
        <4>2. Spare' = s
          BY <4>1 DEF Spare
        <4> HIDE DEF s
        <4>3. CASE s < n
          <5>1. s + 1 \in 1 .. n
            BY <3>3, <4>3, <1>1
          <5>2. silence' + MaxDelay <= Timeout + r[s + 1]
            BY <3>1, <3>2, <4>3, <5>1, <1>1, <1>3, <1>5
          <5> QED BY <4>2, <4>3, <5>2, <2>1 DEF InTime, m, r
        <4>4. CASE ~(s < n)
          <5> DEFINE z == (s - n) * Interval
          <5>1. z \in Nat
            BY <3>3, <4>4, <1>1, <1>3
          <5> HIDE DEF z
          <5>2. silence' + untilTick' + z + MaxDelay <= Timeout
            BY <3>1, <3>2, <4>1, <4>4, <5>1, <1>3 DEF z
          <5> QED BY <4>2, <4>4, <5>2, <2>1 DEF InTime, m, z
        <4> QED BY <4>3, <4>4
      <3>5. CASE drops
        <4>1. fires /\ untilTick = 1 /\ untilTick' = Interval /\ lost' = lost + 1 /\ lost < MaxLost
          BY <3>5
        <4>2. s # 0 /\ Spare' = s - 1
          BY <3>3, <4>1, <1>3 DEF Spare
        <4> HIDE DEF s
        <4>3. CASE s <= n
          <5>1. s \in 1 .. n /\ s - 1 < n /\ (s - 1) + 1 = s
            BY <3>3, <4>2, <4>3, <1>1
          <5>2. silence' + MaxDelay <= Timeout + r[s]
            <6>1. r[s] = q[s] + 1 /\ q[s] \in Nat
              BY <5>1, <1>1, <1>5
            <6>2. CASE s < n
              <7>1. s + 1 \in 1 .. n /\ s <= s + 1
                BY <3>3, <6>2, <1>1
              <7>2. q[s + 1] <= q[s] /\ q[s + 1] \in Nat
                BY <5>1, <7>1, <1>1, <1>2
              <7> QED BY <6>1, <6>2, <7>2, <3>1, <3>2, <1>3
            <6>3. CASE s = n
              <7>1. (s - n) * Interval = 0
                BY <3>3, <6>3, <1>1, <1>3
              <7> QED BY <6>1, <6>3, <7>1, <3>1, <3>2, <4>1, <1>1, <1>3
            <6> QED BY <6>2, <6>3, <4>3, <3>3, <1>1
          <5> QED BY <4>2, <5>1, <5>2, <2>1 DEF InTime, m, r
        <4>4. CASE s > n
          <5>1. ~(s - 1 < n) /\ ~(s < n)
            BY <3>3, <4>4, <1>1
          <5>2. (s - n) * Interval = ((s - 1) - n) * Interval + Interval /\ ((s - 1) - n) * Interval \in Nat
            <6>1. (s - 1) - n \in Nat /\ s - n = ((s - 1) - n) + 1
              BY <3>3, <4>4, <1>1
            <6> QED BY <6>1, <1>3
          <5>3. silence' + untilTick' + ((s - 1) - n) * Interval + MaxDelay <= Timeout
            BY <3>1, <3>2, <4>1, <5>1, <5>2, <1>3
          <5> QED BY <4>2, <5>1, <5>3, <2>1 DEF InTime, m
        <4> QED BY <4>3, <4>4, <3>3, <1>1
      <3> QED BY <3>4, <3>5
    <2> QED BY <2>1, <2>2, <2>3, <2>4, <1>5 DEF OnTime, Ordered, Punctual, m, r
  <1> QED BY <1>6, <1>7
-----------------------------------------------------------------------------
(* The invariant gives the property. *)
LEMMA StillAlive ==
    ASSUME HInv, calm, silence # Never
    PROVE  silence <= Timeout
  <1>1. Waiting \in Nat /\ \A k \in 1 .. Waiting : Queue[k] \in Nat
    BY QueueType DEF HInv, Control, Ages
  <1>2. MaxLost \in Nat /\ MaxDelay \in Nat /\ Timeout \in Nat /\ Interval \in Nat
        /\ lost \in Nat /\ silence \in Nat /\ untilTick \in Nat
    BY ClockNumbers DEF HInv, Control
  <1>3. lost <= MaxLost /\ \A k \in 1 .. Waiting : Queue[k] <= MaxDelay
    BY Zenon DEF HInv, OnTime, Punctual
  <1>4. InTime
    BY Zenon DEF HInv, OnTime
  <1>5. Spare \in Nat
    BY <1>2, <1>3 DEF Spare
  <1>6. CASE Spare < Waiting
    <2>1. Spare + 1 \in 1 .. Waiting
      BY <1>1, <1>5, <1>6
    <2>2. Queue[Spare + 1] \in Nat /\ Queue[Spare + 1] <= MaxDelay
      BY <2>1, <1>1, <1>3
    <2>3. silence + MaxDelay <= Timeout + Queue[Spare + 1]
      BY <1>4, <1>6 DEF InTime
    <2> QED BY <2>2, <2>3, <1>2
  <1>7. CASE ~(Spare < Waiting)
    <2> DEFINE z == (Spare - Waiting) * Interval
    <2>1. z \in Nat
      BY <1>1, <1>2, <1>5, <1>7
    <2>2. silence + untilTick + z + MaxDelay <= Timeout
      BY <1>4, <1>7 DEF InTime
    <2> HIDE DEF z
    <2> QED BY <2>1, <2>2, <1>2
  <1> QED BY <1>6, <1>7

(* The queue, element by element. *)
LEMMA QueueAt ==
    ASSUME HeartbeatTypeOK, NEW n \in Nat, n = Len(flight), NEW k \in 1 .. Waiting
    PROVE  /\ k <= n => Queue[k] = flight[k]
           /\ k > n /\ k = n + 1 /\ sending # None => Queue[k] = sending
           /\ k > n /\ (k # n + 1 \/ sending = None) => Queue[k] = tickCh
  <1>1. Queue[k] = IF k <= n THEN flight[k] ELSE IF k = n + 1 /\ sending # None THEN sending ELSE tickCh
    BY Zenon DEF Queue
  <1>2. k > n => ~(k <= n)
    OBVIOUS
  <1> QED BY <1>1, <1>2, Zenon

(* A tick that is taken stays where it is in the queue. *)
LEMMA TakeTickQueue ==
    ASSUME Control, TakeTick
    PROVE  Waiting' = Waiting /\ Queue' = Queue
  <1>1. sending = None /\ sending' = tickCh /\ tickCh # None /\ tickCh' = None /\ flight' = flight
    BY Zenon DEF Control, TakeTick, healthVars
  <1>2. Waiting' = Waiting
    BY <1>1 DEF Waiting
  <1>3. Len(flight) \in Nat /\ Waiting = Len(flight) + 1
    <2>1. flight \in Seq(Ages)
      BY Zenon DEF Control, HeartbeatTypeOK
    <2> QED BY <2>1, <1>1 DEF Waiting
  <1>4. ASSUME NEW k \in 1 .. Waiting, ~(k <= Len(flight)) PROVE k = Len(flight) + 1
    BY <1>3, <1>4
  <1> QED BY <1>1, <1>2, <1>4, Zenon DEF Queue

(* So does a beat that is sent. *)
LEMMA SentQueue ==
    ASSUME HeartbeatTypeOK, sending # None, sending' = None, tickCh' = tickCh,
           flight' = Append(flight, sending)
    PROVE  Waiting' = Waiting /\ Queue' = Queue
  <1>1. PICK n \in Nat : n = Len(flight)
    <2>1. flight \in Seq(Ages)
      BY Zenon DEF HeartbeatTypeOK
    <2> QED BY <2>1
  <1>2. Len(flight') = n + 1 /\ flight'[n + 1] = sending /\ \A k \in 1 .. n : flight'[k] = flight[k]
    <2>1. flight \in Seq(Ages) /\ sending \in Ages
      BY Zenon DEF HeartbeatTypeOK
    <2> QED BY <1>1, <2>1
  <1>3. Waiting' = Waiting
    BY <1>1, <1>2 DEF Waiting
  <1>4. ASSUME NEW k \in 1 .. Waiting
        PROVE  (IF k <= Len(flight') THEN flight'[k] ELSE IF k = Len(flight') + 1 /\ sending' # None THEN sending' ELSE tickCh')
             = (IF k <= Len(flight) THEN flight[k] ELSE IF k = Len(flight) + 1 /\ sending # None THEN sending ELSE tickCh)
    <2>1. CASE k <= n
      BY <2>1, <1>1, <1>2
    <2>2. CASE k = n + 1
      BY <2>2, <1>1, <1>2
    <2>3. CASE k > n + 1
      BY <2>3, <1>1, <1>2
    <2>4. k \in Nat
      OBVIOUS
    <2> QED BY <2>1, <2>2, <2>3, <2>4
  <1> QED BY <1>3, <1>4, Zenon DEF Queue

(* A beat whose Send failed leaves the queue. *)
LEMMA UnsentQueue ==
    ASSUME HeartbeatTypeOK, sending # None, sending' = None, tickCh' = tickCh, flight' = flight
    PROVE  \E p \in 1 .. Waiting :
              /\ Waiting' = Waiting - 1
              /\ \A k \in 1 .. (Waiting - 1) : Queue'[k] = IF k < p THEN Queue[k] ELSE Queue[k + 1]
  <1>1. PICK n \in Nat : n = Len(flight)
    <2>1. flight \in Seq(Ages)
      BY Zenon DEF HeartbeatTypeOK
    <2> QED BY <2>1
  <1>2. n + 1 \in 1 .. Waiting /\ Waiting' = Waiting - 1 /\ Waiting \in n + 1 .. n + 2
    BY <1>1 DEF Waiting
  <1>3. ASSUME NEW k \in 1 .. (Waiting - 1)
        PROVE  Queue'[k] = IF k < n + 1 THEN Queue[k] ELSE Queue[k + 1]
    <2>1. Queue'[k] = IF k <= n THEN flight[k] ELSE tickCh
      BY <1>1, <1>2, Zenon DEF Queue
    <2>2. k \in 1 .. Waiting /\ k + 1 \in 1 .. Waiting
      BY <1>2
    <2>3. CASE k <= n
      BY <2>1, <2>2, <2>3, <1>1, QueueAt
    <2>4. CASE k > n
      <3>1. k + 1 > n /\ k + 1 # n + 1 /\ ~(k < n + 1) /\ ~(k <= n)
        BY <2>4
      <3>2. Queue[k + 1] = tickCh
        BY <2>2, <3>1, <1>1, QueueAt
      <3> QED BY <2>1, <3>1, <3>2
    <2> QED BY <2>3, <2>4
  <1> QED BY <1>2, <1>3

(* The peer receives the oldest beat first. *)
LEMMA HeadQueue ==
    ASSUME HeartbeatTypeOK, flight # <<>>, flight' = Tail(flight), UNCHANGED <<sending, tickCh>>
    PROVE  /\ Waiting # 0 /\ Waiting' = Waiting - 1
           /\ \A k \in 1 .. (Waiting - 1) : Queue'[k] = Queue[k + 1]
  <1>1. PICK n \in Nat : n = Len(flight)
    <2>1. flight \in Seq(Ages)
      BY Zenon DEF HeartbeatTypeOK
    <2> QED BY <2>1
  <1>2. n # 0 /\ Len(flight') = n - 1 /\ \A k \in 1 .. n - 1 : flight'[k] = flight[k + 1]
    <2>1. flight \in Seq(Ages)
      BY Zenon DEF HeartbeatTypeOK
    <2> QED BY <1>1, <2>1
  <1>3. Waiting # 0 /\ Waiting' = Waiting - 1 /\ Waiting \in Nat
    <2>1. PICK a \in {0, 1}, b \in {0, 1} :
              /\ a = IF sending = None THEN 0 ELSE 1
              /\ b = IF tickCh = None THEN 0 ELSE 1
      OBVIOUS
    <2>2. Waiting = n + a + b
      BY <1>1, <2>1, Zenon DEF Waiting
    <2>3. Waiting' = (n - 1) + a + b
      BY <1>2, <2>1, Zenon DEF Waiting
    <2> QED BY <1>1, <1>2, <2>2, <2>3
  <1>4. ASSUME NEW k \in 1 .. (Waiting - 1) PROVE Queue'[k] = Queue[k + 1]
    <2>1. Queue'[k] = IF k <= n - 1 THEN flight'[k] ELSE IF k = (n - 1) + 1 /\ sending # None THEN sending ELSE tickCh
      BY <1>2, <1>3, Zenon DEF Queue
    <2>2. k + 1 \in 1 .. Waiting
      BY <1>3
    <2>3. CASE k <= n - 1
      <3>1. k + 1 <= n /\ k \in 1 .. n - 1
        BY <2>3
      <3>2. Queue[k + 1] = flight[k + 1]
        BY <2>2, <3>1, <1>1, QueueAt
      <3> QED BY <2>1, <2>3, <3>1, <3>2, <1>2
    <2>4. CASE k > n - 1
      <3>1. k + 1 > n /\ ~(k <= n - 1) /\ (k + 1 = n + 1 <=> k = (n - 1) + 1)
        BY <2>4
      <3> QED BY <2>1, <2>2, <3>1, <1>1, QueueAt
    <2> QED BY <2>3, <2>4
  <1> QED BY <1>3, <1>4

(* What time makes of an age. *)
LEMMA OlderType ==
    ASSUME NEW age \in Ages \cup {None}
    PROVE  /\ Older(age) \in Ages \cup {None}
           /\ Older(age) = None <=> age = None
           /\ age # None => Older(age) \in Ages
           /\ age # None /\ Older(age) # Late => Older(age) = age + 1 /\ Older(age) <= MaxDelay
  <1>1. MaxDelay \in Nat
    BY HeartbeatAssumption
  <1> QED BY <1>1 DEF Older, Ages, Late, None

(* Time, while the network is calm. *)
LEMMA PassQueue ==
    ASSUME HInv, Pass, calm, calm'
    PROVE  OnTime'
  <1> DEFINE fires == untilTick = 1 /\ loop # "ended"
             drops == fires /\ tickCh # None
             aged == [i \in DOMAIN flight |-> Older(flight[i])]
  <1>1. /\ untilTick' = IF untilTick = 1 THEN Interval ELSE untilTick - 1
        /\ tickCh' = IF fires /\ ~drops THEN 0 ELSE Older(tickCh)
        /\ sending' = Older(sending)
        /\ flight' = aged
        /\ silence' = IF silence = Never THEN Never ELSE AtMost(silence + 1, Timeout + 1)
        /\ lost' = IF drops THEN AtMost(lost + 1, MaxLost + 1) ELSE lost
    BY Zenon DEF Pass
  <1>2. /\ Older(tickCh) # Late /\ Older(sending) # Late /\ \A i \in DOMAIN aged : aged[i] # Late
        /\ drops => lost < MaxLost
    BY Zenon DEF Pass
  <1>3. fires <=> untilTick = 1
    BY Zenon DEF HInv, Control
  <1>4. HeartbeatTypeOK /\ flight \in Seq(Ages) /\ tickCh \in Ages \cup {None} /\ sending \in Ages \cup {None}
    BY Zenon DEF HInv, Control, HeartbeatTypeOK
  <1>5. MaxLost \in Nat /\ MaxDelay \in Nat /\ Timeout \in Nat /\ lost \in Nat /\ silence \in Nat
        /\ None = MaxDelay + 2
    BY <1>4, ClockNumbers
  <1>6. PICK n \in Nat : n = Len(flight) /\ DOMAIN flight = 1 .. n
    BY <1>4
  <1>7. \A k \in 1 .. n : flight[k] \in Ages /\ flight[k] # None
    <2>1. \A k \in 1 .. n : flight[k] \in Ages
      BY <1>4, <1>6
    <2>2. None \notin Ages
      BY <1>5 DEF Ages, Late, None
    <2> QED BY <2>1, <2>2, Zenon
  <1>8. aged = [k \in 1 .. n |-> Older(flight[k])]
    BY <1>6, Zenon
  <1>9. \A k \in 1 .. n : aged[k] = flight[k] + 1 /\ aged[k] <= MaxDelay /\ aged[k] \in Ages
    <2> TAKE k \in 1 .. n
    <2>1. aged[k] = Older(flight[k]) /\ aged[k] # Late
      BY <1>2, <1>8, Zenon
    <2>2. flight[k] \in Ages \cup {None}
      BY <1>7, Zenon
    <2> HIDE DEF aged
    <2> QED BY <2>1, <2>2, <1>7, OlderType
  <1>10. Len(aged) = n
    BY <1>8
  <1> HIDE DEF aged
  <1>11. /\ sending' = None <=> sending = None
         /\ sending # None => sending' = sending + 1 /\ sending' <= MaxDelay
    BY <1>1, <1>2, <1>4, OlderType
  <1>12. /\ Older(tickCh) = None <=> tickCh = None
         /\ tickCh # None => Older(tickCh) = tickCh + 1 /\ Older(tickCh) <= MaxDelay
    BY <1>2, <1>4, OlderType
  <1>13. PICK F \in BOOLEAN, D \in BOOLEAN : F = fires /\ D = drops
    BY Zenon
  <1>14. (D => F) /\ (F <=> untilTick = 1) /\ (D <=> F /\ tickCh # None)
    BY <1>3, <1>13, Zenon
  <1>15. /\ tickCh' = None <=> tickCh = None /\ ~F
         /\ F /\ ~D => tickCh' = 0
         /\ tickCh # None => tickCh' = tickCh + 1 /\ tickCh' <= MaxDelay
    BY <1>1, <1>12, <1>13, <1>14, <1>5
  <1> HIDE DEF fires, drops
  <1>16. Waiting \in Nat /\ Waiting' = IF F /\ ~D THEN Waiting + 1 ELSE Waiting
    <2>1. PICK a \in {0, 1}, b \in {0, 1}, c \in {0, 1} :
              /\ a = IF sending = None THEN 0 ELSE 1
              /\ b = IF tickCh = None THEN 0 ELSE 1
              /\ c = IF tickCh' = None THEN 0 ELSE 1
      OBVIOUS
    <2>2. Waiting = n + a + b
      BY <1>6, <2>1, Zenon DEF Waiting
    <2>3. Waiting' = n + a + c
      <3>1. a = IF sending' = None THEN 0 ELSE 1
        BY <2>1, <1>11, Zenon
      <3>2. Len(flight') = n
        BY <1>1, <1>10, Zenon
      <3> QED BY <2>1, <3>1, <3>2, Zenon DEF Waiting
    <2>4. c = IF F /\ ~D THEN b + 1 ELSE b
      BY <2>1, <1>14, <1>15
    <2> QED BY <2>2, <2>3, <2>4
  <1>17. ASSUME NEW k \in 1 .. Waiting'
         PROVE  Queue'[k] = IF k <= n THEN aged[k] ELSE IF k = n + 1 /\ sending # None THEN sending' ELSE tickCh'
    BY <1>1, <1>10, <1>11, Zenon DEF Queue
  <1>18. ASSUME NEW k \in 1 .. Waiting PROVE Queue'[k] = Queue[k] + 1 /\ Queue'[k] <= MaxDelay
    <2>1. k \in 1 .. Waiting'
      BY <1>16
    <2>2. CASE k <= n
      <3>1. Queue[k] = flight[k] /\ Queue'[k] = aged[k] /\ k \in 1 .. n
        BY <2>1, <2>2, <1>4, <1>6, <1>17, QueueAt
      <3> QED BY <3>1, <1>9, Zenon
    <2>3. CASE k = n + 1 /\ sending # None
      <3>1. Queue[k] = sending /\ Queue'[k] = sending'
        BY <2>1, <2>3, <1>4, <1>6, <1>17, QueueAt
      <3> QED BY <2>3, <3>1, <1>11, Zenon
    <2>4. CASE k > n /\ ~(k = n + 1 /\ sending # None)
      <3>1. Queue[k] = tickCh /\ Queue'[k] = tickCh'
        BY <2>1, <2>4, <1>4, <1>6, <1>17, QueueAt
      <3>2. tickCh # None
        <4> SUFFICES ASSUME tickCh = None PROVE FALSE
          OBVIOUS
        <4>1. Waiting = n + (IF sending = None THEN 0 ELSE 1)
          BY <1>6 DEF Waiting
        <4> QED BY <2>4, <4>1
      <3> QED BY <3>1, <3>2, <1>15, Zenon
    <2> QED BY <2>2, <2>3, <2>4
  <1>19. ASSUME F /\ ~D PROVE Queue'[Waiting + 1] = 0
    <2>1. Waiting + 1 \in 1 .. Waiting' /\ tickCh = None
      BY <1>14, <1>16, <1>19
    <2>2. Waiting = n + (IF sending = None THEN 0 ELSE 1)
      BY <2>1, <1>6 DEF Waiting
    <2>3. ~(Waiting + 1 <= n) /\ ~(Waiting + 1 = n + 1 /\ sending # None)
      BY <2>2
    <2> QED BY <2>1, <2>3, <1>15, <1>17, <1>19
  <1>20. lost' = (IF D THEN lost + 1 ELSE lost) /\ (D => lost < MaxLost)
    BY <1>1, <1>2, <1>5, <1>13 DEF AtMost
  <1>21. silence # Never => silence' = silence + 1
    BY <1>1, <1>5, StillAlive DEF AtMost
  <1>22. untilTick' = IF F THEN Interval ELSE untilTick - 1
    BY <1>1, <1>14, Zenon
  <1> QED BY <1>1, <1>14, <1>16, <1>18, <1>19, <1>20, <1>21, <1>22, PassOnTime
-----------------------------------------------------------------------------
(* Every step keeps the types, the loop in step with what it sends, and    *)
(* Stop outside of calm.                                                   *)
LEMMA ControlInv ==
    ASSUME Control, [HeartbeatNext]_hbVars
    PROVE  Control'
  <1> USE DEF senderVars, healthVars, histVars, shutdownVars
  <1>1. HeartbeatTypeOK
    BY DEF Control
  <1>2. MaxLost \in Nat /\ MaxDelay \in Nat /\ Timeout \in Nat /\ Interval \in Nat /\ Interval # 0
        /\ None = MaxDelay + 2 /\ Late = MaxDelay + 1 /\ Never = Timeout + 2
        /\ lost \in Nat /\ silence \in Nat /\ untilTick \in Nat
    BY <1>1, ClockNumbers
  <1>3. flight \in Seq(Ages) /\ Len(flight) <= MaxFlight /\ MaxFlight \in Nat
    BY <1>1, HeartbeatAssumption, Zenon DEF HeartbeatTypeOK
  <1>4. None \notin Ages
    BY <1>2 DEF Ages
  <1>5. AtMost(lost + 1, MaxLost + 1) \in 0 .. MaxLost + 1
    BY <1>2 DEF AtMost
  <1>6. CASE UNCHANGED hbVars
    <2>1. UNCHANGED <<untilTick, tickCh, loop, sending, stopped, flight, silence, lost, calm>>
          /\ UNCHANGED shutdownVars
      BY <1>6, Zenon DEF hbVars
    <2> QED BY <2>1, ZenonT(30) DEF Control, HeartbeatTypeOK
  <1>7. CASE Pass
    <2>1. untilTick' \in 1 .. Interval
      <3>1. untilTick' = IF untilTick = 1 THEN Interval ELSE untilTick - 1
        BY <1>7, Zenon DEF Pass
      <3>2. untilTick \in 1 .. Interval
        BY <1>1, Zenon DEF HeartbeatTypeOK
      <3> QED BY <1>2, <3>1, <3>2
    <2>2. tickCh' \in Ages \cup {None}
      <3>1. Older(tickCh) \in Ages \cup {None}
        BY <1>1, OlderType, Zenon DEF HeartbeatTypeOK
      <3>2. 0 \in Ages
        BY <1>2 DEF Ages
      <3>3. tickCh' = 0 \/ tickCh' = Older(tickCh)
        BY <1>7, Zenon DEF Pass
      <3> QED BY <3>1, <3>2, <3>3, Zenon
    <2>3. sending' \in Ages \cup {None} /\ (sending' = None <=> sending = None)
      BY <1>1, <1>7, OlderType, Zenon DEF Pass, HeartbeatTypeOK
    <2>4. flight' \in Seq(Ages) /\ Len(flight') = Len(flight)
      <3>1. PICK n \in Nat : n = Len(flight) /\ DOMAIN flight = 1 .. n
        BY <1>3
      <3>2. flight' = [i \in 1 .. n |-> Older(flight[i])]
        BY <3>1, <1>7, Zenon DEF Pass
      <3>3. ASSUME NEW i \in 1 .. n PROVE Older(flight[i]) \in Ages
        <4>1. flight[i] \in Ages
          BY <1>3, <3>1
        <4> QED BY <4>1, <1>4, OlderType, Zenon
      <3> QED BY <3>1, <3>2, <3>3
    <2>5. silence' \in 0 .. Never
      BY <1>2, <1>7 DEF Pass, AtMost
    <2>6. lost' \in 0 .. MaxLost + 1
      <3>1. lost' = lost \/ lost' = AtMost(lost + 1, MaxLost + 1)
        BY <1>7, Zenon DEF Pass
      <3> QED BY <1>1, <1>5, <3>1, Zenon DEF HeartbeatTypeOK
    <2>7. calm' \in BOOLEAN /\ (calm' => calm)
      BY <1>7, Zenon DEF Pass
    <2>8. waited' \in 0 .. ShutdownTime
      <3>1. ShutdownTime \in Nat /\ waited \in 0 .. ShutdownTime
        BY <1>1, HeartbeatAssumption, Zenon DEF HeartbeatTypeOK
      <3>2. waited' = waited \/ waited' = AtMost(waited + 1, ShutdownTime)
        BY <1>7, Zenon DEF Pass
      <3> QED BY <3>1, <3>2 DEF AtMost
    <2>9. UNCHANGED <<loop, stopped, open, closer, doneCh, shutdown>>
      BY <1>7, Zenon DEF Pass
    <2>10. Len(flight') <= MaxFlight
      BY <2>4, <1>3, Zenon
    <2> QED BY <1>1, <2>1, <2>2, <2>3, <2>4, <2>5, <2>6, <2>7, <2>8, <2>9, <2>10, Zenon
            DEF Control, HeartbeatTypeOK
  <1>8. CASE Start
    BY <1>8, Zenon DEF Start, Control, HeartbeatTypeOK
  <1>9. CASE TakeTick
    BY <1>9, Zenon DEF TakeTick, Control, HeartbeatTypeOK
  <1>10. CASE TakeStop
    BY <1>10, Zenon DEF TakeStop, StopRequested, Control, HeartbeatTypeOK
  <1>11. CASE SendReturns
    <2>1. flight' \in Seq(Ages) /\ Len(flight') <= MaxFlight
      <3>1. CASE Len(flight) < MaxFlight /\ flight' = Append(flight, sending)
        <4>1. sending \in Ages
          BY <1>11, Zenon DEF SendReturns, Control, HeartbeatTypeOK
        <4> QED BY <3>1, <4>1, <1>3
      <3>2. CASE flight' = flight
        BY <3>2, <1>3, Zenon
      <3> QED BY <3>1, <3>2, <1>11, Zenon DEF SendReturns
    <2>2. lost' \in 0 .. MaxLost + 1 /\ calm' \in BOOLEAN /\ (calm' => calm)
      <3>1. CASE Lose
        BY <3>1, <1>5, Zenon DEF Lose
      <3>2. CASE UNCHANGED histVars
        BY <3>2, <1>1, Zenon DEF HeartbeatTypeOK
      <3> QED BY <3>1, <3>2, <1>11, Zenon DEF SendReturns
    <2>3. loop' = "select" /\ sending' = None /\ UNCHANGED <<untilTick, tickCh, stopped, silence, shutdownVars>>
      BY <1>11, Zenon DEF SendReturns
    <2> QED BY <1>1, <2>1, <2>2, <2>3, Zenon DEF Control, HeartbeatTypeOK
  <1>12. CASE Stop
    BY <1>12, Zenon DEF Stop, Control, HeartbeatTypeOK
  <1>13. CASE Record
    <2>1. flight' \in Seq(Ages) /\ Len(flight') <= MaxFlight
      BY <1>3, <1>13 DEF Record
    <2>2. 0 \in 0 .. Never /\ 0 \in 0 .. MaxLost + 1
      BY <1>2
    <2>3. silence' = 0 /\ lost' = 0 /\ UNCHANGED <<untilTick, tickCh, loop, sending, stopped, calm>>
          /\ UNCHANGED shutdownVars
      BY <1>13, Zenon DEF Record
    <2>4. HeartbeatTypeOK'
      <3>1. /\ untilTick' \in 1 .. Interval
            /\ tickCh' \in Ages \cup {None} /\ sending' \in Ages \cup {None}
            /\ loop' \in {"off", "select", "send", "ended"} /\ stopped' \in BOOLEAN
        BY <1>1, <2>3, Zenon DEF HeartbeatTypeOK
      <3>2. /\ open' \in BOOLEAN /\ doneCh' \in {"empty", "result"}
            /\ closer' \in {"none", "closing", "closed", "ended"}
            /\ shutdown' \in {"none", "waiting", "result", "timed out"}
            /\ waited' \in 0 .. ShutdownTime
        BY <1>1, <2>3, Zenon DEF HeartbeatTypeOK
      <3>3. silence' \in 0 .. Never /\ lost' \in 0 .. MaxLost + 1 /\ calm' \in BOOLEAN
        BY <1>1, <2>2, <2>3, Zenon DEF HeartbeatTypeOK
      <3> QED BY <2>1, <3>1, <3>2, <3>3, Zenon DEF HeartbeatTypeOK
    <2> QED BY <2>2, <2>3, <2>4, Zenon DEF Control
  <1>14. CASE Vanish
    <2>1. flight' \in Seq(Ages) /\ Len(flight') <= MaxFlight
      BY <1>3, <1>14 DEF Vanish
    <2>2. lost' \in 0 .. MaxLost + 1 /\ calm' \in BOOLEAN /\ (calm' => calm)
      BY <1>5, <1>14, Zenon DEF Vanish, Lose
    <2>3. UNCHANGED <<untilTick, tickCh, loop, sending, stopped, silence>> /\ UNCHANGED shutdownVars
      BY <1>14, Zenon DEF Vanish
    <2>4. HeartbeatTypeOK'
      <3>1. /\ untilTick' \in 1 .. Interval
            /\ tickCh' \in Ages \cup {None} /\ sending' \in Ages \cup {None}
            /\ loop' \in {"off", "select", "send", "ended"} /\ stopped' \in BOOLEAN
        BY <1>1, <2>3, Zenon DEF HeartbeatTypeOK
      <3>2. /\ open' \in BOOLEAN /\ doneCh' \in {"empty", "result"}
            /\ closer' \in {"none", "closing", "closed", "ended"}
            /\ shutdown' \in {"none", "waiting", "result", "timed out"}
            /\ waited' \in 0 .. ShutdownTime
        BY <1>1, <2>3, Zenon DEF HeartbeatTypeOK
      <3>3. silence' \in 0 .. Never /\ lost' \in 0 .. MaxLost + 1 /\ calm' \in BOOLEAN
        BY <1>1, <2>2, <2>3, Zenon DEF HeartbeatTypeOK
      <3> QED BY <2>1, <3>1, <3>2, <3>3, Zenon DEF HeartbeatTypeOK
    <2> QED BY <2>2, <2>3, <2>4, Zenon DEF Control
  <1>15. CASE GracefulShutdown
    BY <1>15, Zenon DEF GracefulShutdown, Control, HeartbeatTypeOK
  <1>16. CASE CloseReturns
    BY <1>16, Zenon DEF CloseReturns, Control, HeartbeatTypeOK
  <1>17. CASE PutResult
    BY <1>17, Zenon DEF PutResult, Control, HeartbeatTypeOK
  <1>18. CASE TakeResult
    BY <1>18, Zenon DEF TakeResult, Control, HeartbeatTypeOK
  <1>19. CASE TakeTimeout
    BY <1>19, Zenon DEF TakeTimeout, Control, HeartbeatTypeOK
  <1> QED BY <1>6, <1>7, <1>8, <1>9, <1>10, <1>11, <1>12, <1>13, <1>14, <1>15, <1>16, <1>17, <1>18, <1>19,
             Zenon DEF HeartbeatNext

(* No step spoils the time that is left while the network stays calm. *)
LEMMA OnTimeInv ==
    ASSUME HInv, [HeartbeatNext]_hbVars
    PROVE  OnTime'
  <1> USE DEF senderVars, healthVars, histVars, shutdownVars
  <1> SUFFICES ASSUME calm' PROVE OnTime'
    BY Zenon DEF OnTime
  <1>1. Control /\ OnTime /\ HeartbeatTypeOK
    BY Zenon DEF HInv, Control
  <1>2. calm
    <2>1. UNCHANGED calm \/ ~calm' \/ calm
      BY Zenon DEF HeartbeatNext, hbVars, Pass, Start, TakeTick, TakeStop, SendReturns, Lose, Stop, Record,
                   Vanish, GracefulShutdown, CloseReturns, PutResult, TakeResult, TakeTimeout
    <2> QED BY <2>1, Zenon
  <1>3. ASSUME UNCHANGED <<untilTick, tickCh, sending, flight, silence, lost>> PROVE OnTime'
    <2>1. Waiting' = Waiting /\ Queue' = Queue
      BY <1>3, Zenon DEF Waiting, Queue
    <2> QED BY <1>1, <1>2, <1>3, <2>1, SameOnTime, Zenon
  <1>4. CASE Pass
    BY <1>2, <1>4, PassQueue, Zenon
  <1>5. CASE TakeTick
    <2>1. UNCHANGED <<untilTick, silence, lost>>
      BY <1>5, Zenon DEF TakeTick
    <2> QED BY <1>1, <1>2, <1>5, <2>1, TakeTickQueue, SameOnTime, Zenon
  <1>6. CASE TakeStop
    BY <1>1, <1>2, <1>6, Zenon DEF TakeStop, StopRequested, Control
  <1>7. CASE SendReturns
    <2>1. sending # None /\ sending' = None /\ tickCh' = tickCh /\ UNCHANGED <<untilTick, silence>>
      BY <1>1, <1>7, Zenon DEF SendReturns, Control
    <2>2. CASE flight' = Append(flight, sending) /\ UNCHANGED histVars
      BY <1>1, <1>2, <2>1, <2>2, SentQueue, SameOnTime, Zenon
    <2>3. CASE Lose /\ UNCHANGED flight
      <3>1. PICK p \in 1 .. Waiting :
              /\ Waiting' = Waiting - 1
              /\ \A k \in 1 .. (Waiting - 1) : Queue'[k] = IF k < p THEN Queue[k] ELSE Queue[k + 1]
        BY <1>1, <2>1, <2>3, UnsentQueue, Zenon
      <3> QED BY <1>2, <2>1, <2>3, <3>1, LoseOnTime, Zenon
    <2> QED BY <1>7, <2>2, <2>3, Zenon DEF SendReturns
  <1>8. CASE Record
    <2>1. /\ Waiting # 0 /\ Waiting' = Waiting - 1
          /\ \A k \in 1 .. (Waiting - 1) : Queue'[k] = Queue[k + 1]
      BY <1>1, <1>8, HeadQueue, Zenon DEF Record
    <2>2. lost' = 0 /\ silence' = 0 /\ UNCHANGED untilTick
      BY <1>8, Zenon DEF Record
    <2> QED BY <1>2, <2>1, <2>2, RecordOnTime, Zenon
  <1>9. CASE Vanish
    <2>1. /\ Waiting # 0 /\ Waiting' = Waiting - 1
          /\ \A k \in 1 .. (Waiting - 1) : Queue'[k] = Queue[k + 1]
      BY <1>1, <1>9, HeadQueue, Zenon DEF Vanish
    <2>2. Lose /\ UNCHANGED <<untilTick, silence>>
      BY <1>9, Zenon DEF Vanish
    <2>3. Waiting \in Nat
      BY <1>1, QueueType, Zenon
    <2>4. 1 \in 1 .. Waiting /\ \A k \in 1 .. (Waiting - 1) : ~(k < 1)
      BY <2>1, <2>3
    <2>5. \A k \in 1 .. (Waiting - 1) : Queue'[k] = IF k < 1 THEN Queue[k] ELSE Queue[k + 1]
      BY <2>1, <2>4, Zenon
    <2> QED BY <1>2, <2>1, <2>2, <2>4, <2>5, LoseOnTime, Zenon
  <1>10. CASE UNCHANGED hbVars \/ Start \/ Stop \/ GracefulShutdown \/ CloseReturns \/ PutResult
              \/ TakeResult \/ TakeTimeout
    BY <1>3, <1>10, Zenon DEF hbVars, Start, Stop, GracefulShutdown, CloseReturns, PutResult, TakeResult,
                              TakeTimeout
  <1> QED BY <1>4, <1>5, <1>6, <1>7, <1>8, <1>9, <1>10, Zenon DEF HeartbeatNext

(* HInv is inductive. *)
THEOREM HeartbeatInductive == HeartbeatSpec => []HInv
  <1>1. HeartbeatInit => HInv
    <2> SUFFICES ASSUME HeartbeatInit PROVE HInv
      OBVIOUS
    <2>1. HeartbeatTypeOK
      <3>1. Interval \in 1 .. Interval /\ Never \in 0 .. Never /\ 0 \in 0 .. MaxLost + 1 /\ 0 \in 0 .. ShutdownTime
        BY HeartbeatAssumption DEF Never
      <3>2. <<>> \in Seq(Ages) /\ Len(<<>>) <= MaxFlight
        BY HeartbeatAssumption
      <3> QED BY <3>1, <3>2, Zenon DEF HeartbeatInit, HeartbeatTypeOK
    <2>2. Control
      BY <2>1, Zenon DEF Control, HeartbeatInit
    <2>3. Waiting = 0 /\ 1 .. 0 = {} /\ lost <= MaxLost
      BY HeartbeatAssumption DEF HeartbeatInit, Waiting
    <2>4. OnTime
      BY <2>3, Zenon DEF OnTime, Ordered, Punctual, HeartbeatInit
    <2> QED BY <2>2, <2>4, Zenon DEF HInv
  <1>2. HInv /\ [HeartbeatNext]_hbVars => HInv'
    BY ControlInv, OnTimeInv, Zenon DEF HInv
  <1> QED BY <1>1, <1>2, PTL DEF HeartbeatSpec

(* While beats come within MaxDelay of their tick and no more than MaxLost *)
(* fail in a row, IsAlive never reports a peer dead that it has heard of,  *)
(* for every timeout of at least MaxLost + 1 intervals and that delay.     *)
THEOREM AliveWhileCalm == HeartbeatSpec => []NoFalseAlarm
  <1>1. HInv => NoFalseAlarm
    BY StillAlive, Zenon DEF NoFalseAlarm, IsAlive
  <1> QED BY <1>1, HeartbeatInductive, PTL
=============================================================================
