--------------------------- MODULE TensorDescriptor ---------------------------
(***************************************************************************)
(* protocol/tensor.go: TensorDescriptor.Validate, with the arithmetic of   *)
(* its Go integers.  int64 and uint64 are scaled to W bits, and the        *)
(* constant 1<<62 of the overflow guards to 2^(W-2): the guards relate the *)
(* same powers of two at every width.                                      *)
(***************************************************************************)
EXTENDS Integers, Sequences

CONSTANTS
    W,                  \* the width of the integers (64 in the code)
    MaxDims,            \* MaxTensorDims (8 in the code)
    MaxShmNameLen,      \* MaxTensorShmNameLen (256)
    MaxCaps,            \* MaxTensorCaps (32)
    MaxCapLen,          \* MaxTensorCapLen (128)
    Digests             \* the strings that isSHA256Hex or isSHA256Prefixed accept

(* The last conjuncts are laws of powers, for the provers, to which ^ means *)
(* nothing.                                                                *)
ASSUME WidthAssumption ==
    /\ W \in Nat /\ W > 2 /\ MaxDims \in Nat
    /\ 2 ^ (W - 2) \in Nat /\ 2 ^ (W - 2) > 1
    /\ 2 ^ (W - 1) = 2 * 2 ^ (W - 2) /\ 2 ^ W = 4 * 2 ^ (W - 2)

MaxUint == 2 ^ W - 1
Limit == 2 ^ (W - 2)

Ints == -(2 ^ (W - 1)) .. 2 ^ (W - 1) - 1

(* The value of an int64 expression whose mathematical value is x, and the *)
(* conversion of an int64 to uint64.                                       *)
SInt(x) == ((x + 2 ^ (W - 1)) % 2 ^ W) - 2 ^ (W - 1)
UInt(x) == x % 2 ^ W

(* dtypeBytes, by the numeric value of the dtype; 0 for an unknown one. *)
DtypeBytes(t) ==
    CASE t = 0 -> 4
      [] t \in {1, 2} -> 2
      [] t \in {3, 4, 5, 7} -> 1
      [] OTHER -> 0

Elem(d) == DtypeBytes(d.dtype)
Dims(d) == 1 .. Len(d.shape)

(* extent after the i-th iteration of Validate's loop. *)
ExtentAt(d) ==
    LET ext[i \in 0 .. Len(d.shape)] ==
          IF i = 0 THEN 1
          ELSE SInt(ext[i - 1] + SInt((d.shape[i] - 1) * d.strides[i]))
    IN  ext

Footprint(d) == UInt(UInt(ExtentAt(d)[Len(d.shape)]) * Elem(d))

(* Mutation of ExtentGuard: the accumulated extent is not bounded. *)
ExtentGuard_absent(d) == TRUE

(* The two overflow guards of the loop. *)
StrideGuard(d) ==
    \A i \in Dims(d) :
        /\ d.strides[i] >= 0
        /\ d.shape[i] - 1 > 0 => d.strides[i] <= Limit \div (d.shape[i] - 1)

ExtentGuard(d) == \A i \in Dims(d) : ExtentAt(d)[i] <= Limit \div Elem(d)

(* The span does not wrap the address space. *)
SpanFits(d) == d.offset <= MaxUint - d.size

(* The checks of the strings: segment name, capability claims, digest. *)
StringsOK(d) ==
    /\ d.size > 0 => d.shm # <<>>
    /\ Len(d.shm) <= MaxShmNameLen
    /\ Len(d.caps) <= MaxCaps
    /\ \A i \in 1 .. Len(d.caps) : Len(d.caps[i]) \in 1 .. MaxCapLen
    /\ d.digest = <<>> \/ d.digest \in Digests

(* Validate returns nil.  Strings are sequences of bytes. *)
Validate(d) ==
    /\ Elem(d) # 0
    /\ Len(d.shape) \in 1 .. MaxDims
    /\ \A i \in Dims(d) : d.shape[i] > 0
    /\ Len(d.strides) = Len(d.shape)
    /\ StrideGuard(d)
    /\ ExtentGuard(d)
    /\ d.offset % Elem(d) = 0
    /\ SpanFits(d)
    /\ d.size >= Footprint(d)
    /\ StringsOK(d)

(* The footprint the comment on Validate defines, without wrapping. *)
TrueFootprint(d) ==
    LET sum[i \in 0 .. Len(d.shape)] ==
          IF i = 0 THEN 1 ELSE sum[i - 1] + (d.shape[i] - 1) * d.strides[i]
    IN  sum[Len(d.shape)] * Elem(d)
=============================================================================
