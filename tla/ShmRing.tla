------------------------------- MODULE ShmRing -------------------------------
(***************************************************************************)
(* transport/shm/shm.go: a ring buffer of fixed slots and the Connection   *)
(* that receives from it.                                                  *)
(*                                                                         *)
(* Write and Read hold rb.mu and are one step each.  Len takes no lock and *)
(* loads head and tail in two steps.  Receive calls Read until there is a  *)
(* frame.  What lands in a slot is frame.SignableBytes(), which is empty   *)
(* for a frame larger than MaxFrameSize.  Connection.Close does nothing.   *)
(***************************************************************************)
EXTENDS Integers, Sequences

CONSTANTS
    Slots,      \* rb.slots
    Frames,     \* the frames endpoints send: [id, size]
    SlotRoom,   \* slotSize - 2
    MaxFrame,   \* FrameFixedSize + MaxFrameSize, the most SignableBytes yields
    MaxWrites   \* bound on the number of frames written

ASSUME RingAssumption ==
    /\ Slots \in Nat \ {0}
    /\ SlotRoom \in Nat /\ MaxFrame \in Nat /\ MaxWrites \in Nat
    /\ \A f \in Frames : f.size \in Nat \ {0}

VARIABLES
    buf,        \* the contents of the slots
    head, tail, \* the counters
    receiver,   \* the goroutine in Connection.Receive
    got,        \* what the last Read that found a slot returned
    lenHead,    \* a goroutine in Len: the head it has loaded
    lenOut,     \* what the last Len returned
    accepted    \* history: the frames Write accepted and Read has not returned

vars == <<buf, head, tail, receiver, got, lenHead, lenOut, accepted>>

NotLoaded == -1
None == [id |-> "none", size |-> 0]
Short == [id |-> "short", size |-> 0]

(* What Read makes of a slot: the frame without its MAC, or an error for a *)
(* slot that holds less than a preamble.                                   *)
Contents == Frames \cup {Short}

SignableBytes(f) == IF f.size > MaxFrame THEN Short ELSE f
SignableLen(f) == IF f.size > MaxFrame THEN 0 ELSE f.size

(* The slot a counter names. *)
Slot(n) == n % Slots

(* The contents of the slots between tail and head, oldest first. *)
Unread == [i \in 1 .. (head - tail) |-> buf[Slot(tail + i - 1)]]

TypeOK ==
    /\ buf \in [0 .. (Slots - 1) -> Contents \cup {None}]
    /\ head \in Nat /\ tail \in Nat
    /\ head - tail \in 0 .. Slots
    /\ receiver \in {"idle", "spinning"}
    /\ got \in Contents \cup {None}
    /\ lenHead \in Nat \cup {NotLoaded}
    /\ lenOut \in Int

Init ==
    /\ buf = [i \in 0 .. (Slots - 1) |-> None]
    /\ head = 0 /\ tail = 0
    /\ receiver = "idle"
    /\ got = None
    /\ lenHead = NotLoaded
    /\ lenOut = 0
    /\ accepted = <<>>

(* Mutations of the definitions below, one per property. *)
Full_off_by_one == head - tail > Slots
AdvanceTail_forgotten == UNCHANGED tail
-----------------------------------------------------------------------------
Full == head - tail >= Slots

(* Write fails, and changes nothing, when the frame is too large for a     *)
(* slot or the ring is full.                                               *)
Write(f) ==
    /\ head < MaxWrites
    /\ SignableLen(f) <= SlotRoom
    /\ ~Full
    /\ buf' = [buf EXCEPT ![Slot(head)] = SignableBytes(f)]
    /\ head' = head + 1
    /\ accepted' = Append(accepted, f)
    /\ UNCHANGED <<tail, receiver, got, lenHead, lenOut>>

(* The endpoint calls Connection.Receive. *)
Receive ==
    /\ receiver = "idle"
    /\ receiver' = "spinning"
    /\ UNCHANGED <<buf, head, tail, got, lenHead, lenOut, accepted>>

Empty == tail >= head

AdvanceTail == tail' = tail + 1

(* Read finds a slot, and Receive returns its frame, or an error for a     *)
(* slot without a preamble.                                                *)
Read ==
    /\ receiver = "spinning"
    /\ ~Empty
    /\ AdvanceTail
    /\ got' = buf[Slot(tail)]
    /\ receiver' = "idle"
    /\ accepted' = Tail(accepted)
    /\ UNCHANGED <<buf, head, lenHead, lenOut>>

(* The two atomic loads of Len, head first. *)
LenLoads ==
    /\ lenHead = NotLoaded
    /\ lenHead' = head
    /\ UNCHANGED <<buf, head, tail, receiver, got, lenOut, accepted>>

LenReturns ==
    /\ lenHead # NotLoaded
    /\ lenOut' = lenHead - tail
    /\ lenHead' = NotLoaded
    /\ UNCHANGED <<buf, head, tail, receiver, got, accepted>>

Next ==
    \/ \E f \in Frames : Write(f)
    \/ Receive \/ Read \/ LenLoads \/ LenReturns

Spec == Init /\ [][Next]_vars
-----------------------------------------------------------------------------
Queue == INSTANCE BoundedQueue WITH q <- Unread, Items <- Contents, Capacity <- Slots

(* The slots between the counters are a bounded queue: whatever the        *)
(* counters have come to, a write never touches an unread slot and reads   *)
(* return the slots in the order they were written.                        *)
RingIsQueue == Queue!QSpec

(* Len never reports more frames than the ring can hold, although it takes *)
(* no lock: head is loaded before tail.                                    *)
LenWithinCapacity == lenOut <= Slots

(* The next frame read is the oldest one that Write accepted, for every    *)
(* frame within MaxFrameSize: nothing is overwritten, skipped or repeated. *)
AcceptedIsStored ==
    accepted # <<>> /\ Head(accepted).size <= MaxFrame =>
        buf[Slot(tail)] = Head(accepted)
=============================================================================
