--------------------------- MODULE MCTensorRegistry ---------------------------
(* Model of TensorRegistry and TensorCodec for TLC with 5-bit integers: int  *)
(* is -16 .. 15, uint is 0 .. 31, and the overflow guards compare with 8.    *)
(* Lengths have 3 bits, and the limits are in the order of the code's.       *)
EXTENDS TensorCodec

Read == <<5>>
Write == <<6, 1>>
Hash == <<7, 7, 7>>

D(dtype, shape, strides, g, offset, size) ==
    [dtype |-> dtype, shape |-> shape, strides |-> strides, shm |-> g,
     offset |-> offset, size |-> size, caps |-> <<Read>>, digest |-> <<>>]

F16 == 1
Int8 == 3

A == <<1>>
B == <<2>>
(* Names of more bytes than Validate admits, and than a length can say. *)
Long == [i \in 1 .. 5 |-> 1]
Wrapping == [i \in 1 .. 9 |-> 1]

AllSegments == {A, B, Long, Wrapping}
AllDigests == {Hash}
AllClaims == {Read, Write, <<>>, <<5, 1>>}

(* Spans of one-dimensional tensors: adjacent, nested, crossing, empty, up   *)
(* to the top of the address space and beyond it.                            *)
Lines ==
    {D(Int8, <<2>>, <<1>>, A, offset, size) : offset \in {0, 2, 3, 29, 31}, size \in {0, 2, 3}}
    \cup {[D(F16, <<1>>, <<0>>, B, offset, 2) EXCEPT !.caps = <<Write, Read>>, !.digest = Hash] :
            offset \in {0, 1, 2}}

(* Matrices whose strides are at the guards. *)
Matrices ==
    {D(F16, shape, <<s, t>>, B, 4, size) :
        shape \in {<<2, 2>>, <<3, 2>>}, s \in {1, 3, 4, 8}, t \in {1, 4, 8}, size \in {4, 16}}

(* A descriptor whose extent wraps to 0, so that Validate lets it claim      *)
(* nothing.                                                                  *)
Nil == D(Int8, <<2, 2, 2, 2>>, <<7, 8, 8, 8>>, A, 0, 0)

(* Descriptors with one part that Validate, Encode or DecodeTensor refuses,  *)
(* or that no claim covers.                                                  *)
Plain == D(Int8, <<1>>, <<1>>, A, 2, 1)
Odd ==
    {[Plain EXCEPT !.caps = caps] :
        caps \in {<<>>, <<Read, <<>> >>, <<Hash>>, <<Read, Write, Read>>}}
    \cup {[Plain EXCEPT !.shm = name] : name \in {<<>>, Long, Wrapping}}
    \cup {[Plain EXCEPT !.digest = digest] : digest \in {<<7>>, Long}}
    \cup {[Plain EXCEPT !.strides = strides] : strides \in {<<-1>>, <<1, 1>>}}
    \cup {[Plain EXCEPT !.shape = <<-16>>], [Plain EXCEPT !.dtype = 6]}

Offered == Lines \cup Matrices \cup Odd \cup {Nil}

(* Four dimensions of two one-byte elements with strides at the guard. *)
Hypercubes ==
    {D(Int8, <<2, 2, 2, 2>>, <<s, t, u, v>>, A, 0, size) :
        s \in {1, 7, 8}, t \in {1, 8}, u \in {1, 8}, v \in {1, 8}, size \in {1, 8, 31}}
=============================================================================
