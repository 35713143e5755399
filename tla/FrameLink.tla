------------------------------ MODULE FrameLink ------------------------------
(***************************************************************************)
(* One direction of a connection: goroutines that share an endpoint call   *)
(* Send, ConnWrapper writes a length prefix and a frame to the stream in   *)
(* two writes, and the peer's endpoint receives (core/endpoint.go,         *)
(* transport/transport.go, protocol/frame.go).                             *)
(*                                                                         *)
(* ServerEndpoint.Send holds sendMu throughout, ClientEndpoint.Send holds  *)
(* no lock.  ServerEndpoint.Receive passes the sequence number through its *)
(* replay tracker, ClientEndpoint.Receive does not.  Sizes are in bytes;   *)
(* headers are counted with the payload.  The receiver stops at its first  *)
(* error, as the server's and the client's loops do.                       *)
(***************************************************************************)
EXTENDS Integers, Sequences

CONSTANTS
    Senders,        \* the goroutines that share the sending endpoint
    Sizes,          \* header + payload sizes that are sent
    MaxFrameSize,   \* protocol.MaxFrameSize
    MaxSends,       \* bound on the number of Send calls
    WindowSize      \* of the receiver's replay tracker

PrefixSize == 4
FrameFixedSize == 16
MACSize == 32

Free == "free"

ASSUME LinkAssumption ==
    /\ Free \notin Senders
    /\ Sizes \subseteq Nat
    /\ MaxFrameSize \in Nat /\ MaxSends \in Nat \ {0}
    /\ WindowSize \in Nat \ {0}

VARIABLES
    direction,      \* "toServer" or "toClient", fixed
    sequence,       \* the endpoint's counter
    sendMu,         \* who holds sendMu, or Free
    pc, frame,      \* of each sender: its place in Send, and the frame built
    sent,           \* history: the frames whose Send returned nil
    overlapped,     \* history: a Send has begun while another was going on
    stream,         \* written and not yet read, one element per Write
    expects,        \* the length prefix read last, or Prefix
    rx,             \* "open", or the error that ended the receiver
    received,       \* the sequence numbers received, in order
    maxSeen, seen, accepted, last   \* the receiver's replay tracker

sendVars == <<direction, sequence, sendMu, pc, frame, sent, overlapped>>
trackerVars == <<maxSeen, seen, accepted, last>>
recvVars == <<expects, rx, received, trackerVars>>
vars == <<sendVars, stream, recvVars>>

Prefix == -1
NoFrame == [seq |-> 0, size |-> 0]
Frames == [seq : 1 .. MaxSends, size : Sizes]
Units == [kind : {"length", "frame"}, of : Frames]
Errors == {"too large", "ErrBadMagic", "ErrReplay", "closed"}

Tracker == INSTANCE ReplayTracker WITH MaxSeq <- MaxSends

TypeOK ==
    /\ direction \in {"toServer", "toClient"}
    /\ sequence \in 0 .. MaxSends
    /\ sendMu \in Senders \cup {Free}
    /\ pc \in [Senders -> {"idle", "built", "prefixed"}]
    /\ frame \in [Senders -> Frames \cup {NoFrame}]
    /\ sent \subseteq Frames
    /\ overlapped \in BOOLEAN
    /\ stream \in Seq(Units)
    /\ expects \in Nat \cup {Prefix}
    /\ rx \in {"open"} \cup Errors
    /\ received \in Seq(1 .. MaxSends)
    /\ Tracker!TypeOK

Init ==
    /\ direction \in {"toServer", "toClient"}
    /\ sequence = 0
    /\ sendMu = Free
    /\ pc = [s \in Senders |-> "idle"]
    /\ frame = [s \in Senders |-> NoFrame]
    /\ sent = {} /\ overlapped = FALSE
    /\ stream = <<>>
    /\ expects = Prefix
    /\ rx = "open"
    /\ received = <<>>
    /\ Tracker!Init
-----------------------------------------------------------------------------
(* Mutations of the definitions below, one per property. *)
Lock_dropped(s) == UNCHANGED sendMu
Encodable_any(size) == TRUE

(* A counter that is loaded and stored instead of added to atomically. *)
DrawSequence_racy ==
    sequence' = IF \E s \in Senders : pc[s] = "built" THEN sequence ELSE sequence + 1

(* A counter that is too narrow. *)
DrawSequence_wraps == sequence' = (sequence % 2) + 1
-----------------------------------------------------------------------------
(* Frame.Encode refuses a frame whose header and payload are too large. *)
Encodable(size) == size <= MaxFrameSize

(* The bytes Encode writes for a signed frame, and so the length prefix. *)
WireLength(size) == FrameFixedSize + size + MACSize

Bytes(unit) == IF unit.kind = "length" THEN PrefixSize ELSE WireLength(unit.of.size)

(* sendMu.Lock and Unlock of ServerEndpoint.Send. *)
Lock(s) ==
    IF direction = "toClient" THEN sendMu = Free /\ sendMu' = s ELSE UNCHANGED sendMu
Unlock == sendMu' = Free

DrawSequence == sequence' = sequence + 1

(* Send draws a sequence number and builds and signs the frame. *)
BuildFrame(s, size) ==
    /\ pc[s] = "idle"
    /\ sequence < MaxSends
    /\ Lock(s)
    /\ DrawSequence
    /\ frame' = [frame EXCEPT ![s] = [seq |-> sequence', size |-> size]]
    /\ pc' = [pc EXCEPT ![s] = "built"]
    /\ overlapped' = (overlapped \/ \E t \in Senders : pc[t] # "idle")
    /\ UNCHANGED <<direction, sent, stream, recvVars>>

Return(s) ==
    /\ Unlock
    /\ pc' = [pc EXCEPT ![s] = "idle"]
    /\ frame' = [frame EXCEPT ![s] = NoFrame]

(* Encode fails, or a write to a closed connection does. *)
SendFails(s) ==
    /\ \/ pc[s] = "built" /\ (~Encodable(frame[s].size) \/ rx # "open")
       \/ pc[s] = "prefixed" /\ rx # "open"
    /\ Return(s)
    /\ UNCHANGED <<direction, sequence, sent, overlapped, stream, recvVars>>

WritePrefix(s) ==
    /\ pc[s] = "built"
    /\ Encodable(frame[s].size)
    /\ rx = "open"
    /\ stream' = Append(stream, [kind |-> "length", of |-> frame[s]])
    /\ pc' = [pc EXCEPT ![s] = "prefixed"]
    /\ UNCHANGED <<direction, sequence, sendMu, frame, sent, overlapped, recvVars>>

WriteFrame(s) ==
    /\ pc[s] = "prefixed"
    /\ rx = "open"
    /\ stream' = Append(stream, [kind |-> "frame", of |-> frame[s]])
    /\ sent' = sent \cup {frame[s]}
    /\ Return(s)
    /\ UNCHANGED <<direction, sequence, overlapped, recvVars>>
-----------------------------------------------------------------------------
Fail(err) ==
    /\ rx' = err
    /\ UNCHANGED <<sendVars, stream, expects, received>>

(* Receive reads the four bytes of the prefix, and refuses a large frame. *)
ReadPrefix ==
    /\ rx = "open" /\ expects = Prefix /\ stream # <<>>
    /\ LET n == WireLength(Head(stream).of.size)
       IN \/ /\ n > MaxFrameSize
             /\ Fail("too large")
          \/ /\ n <= MaxFrameSize
             /\ expects' = n
             /\ stream' = Tail(stream)
             /\ UNCHANGED <<sendVars, rx, received>>
    /\ UNCHANGED trackerVars

(* The bytes that can be read. *)
Buffered ==
    LET upTo[i \in 0 .. Len(stream)] == IF i = 0 THEN 0 ELSE upTo[i - 1] + Bytes(stream[i])
    IN  upTo[Len(stream)]

(* The bytes that follow the prefix are the frame it was written for. *)
InStep == Head(stream).kind = "frame" /\ WireLength(Head(stream).of.size) = expects

(* Other bytes: what Decode meets first is a length prefix, never the magic *)
(* number.                                                                  *)
ReadGarbage ==
    /\ rx = "open" /\ expects # Prefix /\ Buffered >= expects
    /\ ~InStep
    /\ Fail("ErrBadMagic")
    /\ UNCHANGED trackerVars

Deliver(seq) ==
    /\ received' = Append(received, seq)
    /\ expects' = Prefix
    /\ stream' = Tail(stream)
    /\ UNCHANGED <<sendVars, rx>>

(* Receive reads the frame, verifies its MAC (Send sets FlagHMAC; in a     *)
(* frame without the flag Receive verifies none) and, on the server, asks  *)
(* the replay tracker.                                                     *)
ReadFrame ==
    /\ rx = "open" /\ expects # Prefix /\ Buffered >= expects
    /\ InStep
    /\ LET seq == Head(stream).of.seq
       IN \/ /\ direction = "toClient"
             /\ Deliver(seq)
             /\ UNCHANGED trackerVars
          \/ /\ direction = "toServer"
             /\ Tracker!Check(seq)
             /\ IF last'.err = "ok" THEN Deliver(seq) ELSE Fail("ErrReplay")

(* Either side closes the connection, or it breaks. *)
Disconnect ==
    /\ rx = "open"
    /\ Fail("closed")
    /\ UNCHANGED trackerVars

Send(s) == (\E size \in Sizes : BuildFrame(s, size)) \/ SendFails(s) \/ WritePrefix(s) \/ WriteFrame(s)
Receive == ReadPrefix \/ ReadGarbage \/ ReadFrame

Next == (\E s \in Senders : Send(s)) \/ Receive \/ Disconnect

Spec == Init /\ [][Next]_vars

(* The receiver's loop goes on, and a Send that has begun goes on. *)
LinkFairness ==
    /\ WF_vars(Receive)
    /\ \A s \in Senders : WF_vars(pc[s] # "idle" /\ Send(s))

FairSpec == Spec /\ LinkFairness
-----------------------------------------------------------------------------
(* Nothing but goroutines that share a client endpoint, which has no lock, *)
(* can have mixed up what they write.                                      *)
Mixed == overlapped /\ direction = "toServer"

(* Every length prefix on the stream is followed by the frame it was       *)
(* computed from, so that the receiver never takes other bytes for a       *)
(* frame: always from a server endpoint, whatever goroutines share it, and *)
(* from a client endpoint as long as its Sends do not overlap.             *)
StreamInStep == rx = "ErrBadMagic" => Mixed

(* On the same condition sequence numbers arrive in increasing order.      *)
ReceivedInOrder ==
    \/ Mixed
    \/ \A i, j \in DOMAIN received : i < j => received[i] < received[j]

(* The replay tracker refuses a frame only when it has been overtaken by   *)
(* more than a window of later frames, also without the lock, since no two *)
(* frames of an endpoint carry the same number.                            *)
ReplayNeedsLag ==
    rx = "ErrReplay" => Mixed /\ Head(stream).of.seq + WindowSize < maxSeen

(* Encode accepts these sizes of header and payload and Receive does not:  *)
(* the limit of one does not count preamble and MAC, the limit of the      *)
(* other does.                                                             *)
SizeGap == {n \in Sizes : n <= MaxFrameSize /\ WireLength(n) > MaxFrameSize}

(* A frame whose Send returned nil is received, unless the connection is   *)
(* closed, Sends were mixed up, or one was of a size in the gap.           *)
SentIsReceived ==
    \A n \in 1 .. MaxSends :
        (\E f \in sent : f.seq = n)
            ~> \/ \E i \in DOMAIN received : received[i] = n
               \/ rx = "closed" \/ Mixed
               \/ \E f \in sent : f.size \in SizeGap
=============================================================================
