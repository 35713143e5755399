----------------------------- MODULE TensorCodec -----------------------------
(***************************************************************************)
(* protocol/tensor.go, protocol/tensor_message.go, core/tensor_message.go: *)
(* the wire format of descriptors, and the messages that carry them to the *)
(* consumer that registers them.  The wire is a sequence of units: a byte  *)
(* of the head or of a string, an integer of 8 bytes, or a length of 2.    *)
(* io.ReadFull fails if any byte of a unit is missing, so a stream is cut  *)
(* between units without loss.                                             *)
(***************************************************************************)
EXTENDS TensorRegistry, Functions

CONSTANTS
    LenWidth,           \* the width of a length (16 in the code)
    MaxDigestLen,       \* MaxTensorDigestLen (128)
    Claims              \* the capabilities that messages assert

(* A name, a claim and a digest fit their lengths; the digests accepted    *)
(* are within the decoder's limit.  The conjunct on 2 ^ LenWidth is for    *)
(* the provers.                                                            *)
ASSUME CodecAssumption ==
    /\ 2 ^ LenWidth \in Nat \ {0}
    /\ MaxShmNameLen \in 0 .. 2 ^ LenWidth - 1 /\ MaxDigestLen \in 0 .. 2 ^ LenWidth - 1
    /\ MaxCapLen \in 0 .. 2 ^ LenWidth - 1 /\ MaxCaps \in Nat
    /\ \A s \in Digests : Len(s) <= MaxDigestLen
    /\ \A d \in Descriptors :
        d \in [dtype : Nat, shape : Seq(Ints), strides : Seq(Ints), shm : Seq(Nat),
              offset : Nat, size : Nat, caps : Seq(Seq(Nat)), digest : Seq(Nat)]

Refused == [refused |-> TRUE]

(* Mutations of the definitions below, one per property. *)
ReadInt_unsigned(u) == u
Claimed_first(d, capability) == capability = d.caps[1]

appendStringField(s) == <<Len(s) % 2 ^ LenWidth>> \o s

(* int64 to uint64 and back. *)
PutInt(v) == UInt(v)
ReadInt(u) == SInt(u)

(* The loop that appends the claims. *)
CapFields(caps) ==
    LET buf[i \in 0 .. Len(caps)] ==
          IF i = 0 THEN <<>> ELSE buf[i - 1] \o appendStringField(caps[i])
    IN  buf[Len(caps)]

Encode(d) ==
    IF Len(d.shape) \in 1 .. MaxDims /\ Len(d.strides) = Len(d.shape) /\ Len(d.caps) <= MaxCaps
    THEN <<d.dtype, Len(d.shape)>>
         \o [i \in Dims(d) |-> PutInt(d.shape[i])] \o [i \in Dims(d) |-> PutInt(d.strides[i])]
         \o appendStringField(d.shm) \o <<d.offset, d.size>>
         \o <<Len(d.caps)>> \o CapFields(d.caps)
         \o appendStringField(d.digest)
    ELSE <<>>
-----------------------------------------------------------------------------
(* A reader of the wire: whether all reads have succeeded, how many units  *)
(* they took, and what the last one returned.                              *)
Reader(at, got) == [ok |-> TRUE, at |-> at, got |-> got]
Failed == [ok |-> FALSE, at |-> 0, got |-> <<>>]

ReadFull(wire, r, n) ==
    IF r.ok /\ r.at + n <= Len(wire)
    THEN Reader(r.at + n, SubSeq(wire, r.at + 1, r.at + n)) ELSE Failed

readStringField(wire, r, max) ==
    LET ln == ReadFull(wire, r, 1)
    IN  IF ln.ok /\ ln.got[1] <= max THEN ReadFull(wire, ln, ln.got[1]) ELSE Failed

(* The loop over n capability claims. *)
ReadCaps(wire, r, n) ==
    LET after[i \in 0 .. n] ==
          IF i = 0 THEN [r EXCEPT !.got = <<>>]
          ELSE LET claim == readStringField(wire, after[i - 1], MaxCapLen)
               IN  [claim EXCEPT !.got = Append(after[i - 1].got, @)]
    IN  after[n]

(* DecodeTensor, read by read. *)
readHead(wire) == ReadFull(wire, Reader(0, <<>>), 2)

readShape(wire) ==
    LET head == readHead(wire)
    IN  IF head.ok /\ head.got[2] \in 1 .. MaxDims THEN ReadFull(wire, head, head.got[2]) ELSE Failed

readStrides(wire) == ReadFull(wire, readShape(wire), readHead(wire).got[2])
readName(wire) == readStringField(wire, readStrides(wire), MaxShmNameLen)
readSpan(wire) == ReadFull(wire, readName(wire), 2)
readNumCaps(wire) == ReadFull(wire, readSpan(wire), 1)

readCaps(wire) ==
    LET ncap == readNumCaps(wire)
    IN  IF ncap.ok /\ ncap.got[1] <= MaxCaps THEN ReadCaps(wire, ncap, ncap.got[1]) ELSE Failed

readDigest(wire) == readStringField(wire, readCaps(wire), MaxDigestLen)

DecodeTensor(wire) ==
    LET ints(r) == [i \in 1 .. readHead(wire).got[2] |-> ReadInt(r.got[i])]
    IN  IF ~readDigest(wire).ok THEN Refused
        ELSE [dtype |-> readHead(wire).got[1],
              shape |-> ints(readShape(wire)), strides |-> ints(readStrides(wire)),
              shm |-> readName(wire).got,
              offset |-> readSpan(wire).got[1], size |-> readSpan(wire).got[2],
              caps |-> readCaps(wire).got, digest |-> readDigest(wire).got]

(* MessagePayload, AttachTensor: the payload and the capability of the     *)
(* message.  TensorFromPayload, ExtractTensor: the way back.               *)
MessagePayload(d) ==
    IF Validate(d) /\ d.caps # <<>> /\ Encode(d) # <<>>
    THEN [payload |-> Encode(d), capability |-> d.caps[1]] ELSE Refused

Claimed(d, capability) == \E i \in DOMAIN d.caps : d.caps[i] = capability

TensorFromPayload(payload, capability) ==
    LET d == DecodeTensor(payload)
    IN  IF d # Refused /\ Validate(d) /\ Claimed(d, capability) THEN d ELSE Refused
-----------------------------------------------------------------------------
Strings(d) == {d.shm, d.digest} \cup Range(d.caps)

(* What DecodeTensor makes of an encoded descriptor of a transported type, *)
(* also of one that Validate would refuse, is that descriptor or an error; *)
(* it is the descriptor if its strings are within the decoder's limits.    *)
(* Only a string whose length does not fit its two bytes can decode to     *)
(* something else.  Of the types that are not transported (6, 8) nothing   *)
(* is said: the head of tensor.go has them refused by Validate and by      *)
(* Decode, and DecodeTensor accepts any.                                   *)
DecodeInvertsEncode ==
    LET d == last.desc IN
    last.err # "none" /\ Elem(d) # 0 /\ Encode(d) # <<>>
    /\ (\A s \in Strings(d) : Len(s) < 2 ^ LenWidth) =>
        DecodeTensor(Encode(d)) =
            IF /\ Len(d.shm) <= MaxShmNameLen /\ Len(d.digest) <= MaxDigestLen
               /\ \A i \in DOMAIN d.caps : Len(d.caps[i]) <= MaxCapLen
            THEN d ELSE Refused

(* A message of AttachTensor yields to ExtractTensor exactly the attached  *)
(* descriptor, which Register then judges as it would have judged the      *)
(* original; nothing less than the whole payload does, and no capability   *)
(* that the descriptor does not claim.                                     *)
MessageCarriesDescriptor ==
    LET d == last.desc
        m == MessagePayload(d)
    IN  last.err # "none" /\ m # Refused =>
        /\ \A c \in Claims :
            TensorFromPayload(m.payload, c) = IF c \in Range(d.caps) THEN d ELSE Refused
        /\ TensorFromPayload(m.payload, m.capability) = d
        /\ \A n \in 0 .. Len(m.payload) - 1 :
            TensorFromPayload(SubSeq(m.payload, 1, n), m.capability) = Refused
=============================================================================
