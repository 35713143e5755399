----------------------------- MODULE TensorProofs -----------------------------
(***************************************************************************)
(* Proofs about TensorRegistry and TensorCodec, for integers of any width, *)
(* all limits and any set of descriptors.                                  *)
(*                                                                         *)
(* SpansDisjoint speaks of bytes and Register compares ends computed in    *)
(* wrapping arithmetic.  The two agree because Validate has refused every  *)
(* descriptor whose end wraps, which the inductive invariant remembers of  *)
(* each live span.  WideSpansCover follows from the same memory: the two   *)
(* guards of Validate's loop keep every partial extent below 2^(W-1), so   *)
(* the wrapped footprint of elements of two bytes or more is the true one. *)
(*                                                                         *)
(* The codec is proved by following the wire: where each part of Encode's  *)
(* output stands, what each read of DecodeTensor returns there, and that   *)
(* a read from a cut wire that succeeds returns what it returns from the   *)
(* whole one.  The loops are reasoned about with LoopTheorems.             *)
(***************************************************************************)
EXTENDS TensorCodec, LoopTheorems

(* What Register has established of a span it recorded in segment g. *)
Recorded(g, s) ==
    /\ s \in Descriptors
    /\ s.shm = g
    /\ Admits(s)

(* The inductive invariant. *)
IInv ==
    /\ TypeOK
    /\ \A g \in Segments : \A s \in spans[g] : Recorded(g, s)
    /\ SpansDisjoint
    /\ OverlapHasByte

(* A number below the modulus is its own remainder. *)
LEMMA ModExact ==
  ASSUME NEW x \in Nat, NEW P \in Nat \ {0}, x < P
  PROVE  x % P = x
  OBVIOUS

(* The end of a span that fits is computed without wrapping. *)
LEMMA EndExact ==
  ASSUME NEW d \in Descriptors, SpanFits(d)
  PROVE  /\ d.offset \in Nat /\ d.size \in Nat
         /\ UInt(d.offset + d.size) = d.offset + d.size
  <1>0. 2 ^ W \in Nat \ {0}
    BY WidthAssumption
  <1>1. /\ 2 ^ W \in Nat \ {0}
        /\ d.offset \in 0 .. (2 ^ W - 1) /\ d.size \in 0 .. (2 ^ W - 1)
        /\ d.offset <= 2 ^ W - 1 - d.size
    BY <1>0, RegistryAssumption DEF SpanFits, MaxUint
  <1> QED BY <1>1, ModExact DEF UInt

(* The comparison of ends decides whether two nonempty spans share a byte. *)
LEMMA OverlapsIffShareByte ==
  ASSUME NEW d \in Descriptors, NEW s \in Descriptors,
         SpanFits(d), SpanFits(s), d.size # 0, s.size # 0
  PROVE  Overlaps(d, s) <=> Bytes(d) \cap Bytes(s) # {}
  <1> DEFINE a == d.offset
             b == d.size
             c == s.offset
             e == s.size
  <1>1. /\ a \in Nat /\ b \in Nat /\ c \in Nat /\ e \in Nat
        /\ Overlaps(d, s) <=> a < c + e /\ c < a + b
    BY EndExact DEF Overlaps
  <1>2. b > 0 /\ e > 0
    BY <1>1
  <1>3. Bytes(d) = a .. (a + b - 1) /\ Bytes(s) = c .. (c + e - 1)
    BY DEF Bytes
  <1> HIDE DEF a, b, c, e
  <1>4. ASSUME Overlaps(d, s) PROVE Bytes(d) \cap Bytes(s) # {}
    <2>1. CASE a <= c
      <3>1. c \in Bytes(d) /\ c \in Bytes(s)
        BY <1>1, <1>2, <1>3, <1>4, <2>1
      <3> QED BY <3>1
    <2>2. CASE c < a
      <3>1. a \in Bytes(d) /\ a \in Bytes(s)
        BY <1>1, <1>2, <1>3, <1>4, <2>2
      <3> QED BY <3>1
    <2> QED BY <1>1, <2>1, <2>2
  <1>5. ASSUME NEW x \in Bytes(d), x \in Bytes(s) PROVE Overlaps(d, s)
    BY <1>1, <1>3, <1>5
  <1> QED BY <1>4, <1>5

(* The registry starts empty. *)
LEMMA InitIInv == Init => IInv
  BY DEF Init, IInv, TypeOK, SpansDisjoint, OverlapHasByte, Nothing

(* Register keeps the spans of every segment disjoint. *)
LEMMA RegisterIInv ==
  ASSUME IInv, NEW d \in Descriptors, Register(d)
  PROVE  IInv'
  <1>1. CASE ~Admits(d) /\ Answer(d, "invalid") /\ UNCHANGED spans
    BY <1>1 DEF IInv, TypeOK, SpansDisjoint, OverlapHasByte, Answer
  <1>2. CASE Admits(d)
    <2>1. Recorded(d.shm, d) /\ d.shm \in Segments
      <3>1. SpanFits(d) /\ d.size # 0
        BY <1>2 DEF Admits, Validate
      <3>2. d.size \in Nat
        BY <3>1, EndExact
      <3>3. d.size > 0
        BY <3>1, <3>2
      <3>4. d.shm # <<>>
        BY <1>2, <3>3 DEF Admits, Validate, StringsOK
      <3>5. d.shm \in Segments \cup {<<>>}
        BY RegistryAssumption
      <3> QED BY <1>2, <3>4, <3>5 DEF Recorded
    <2>2. \A s \in spans[d.shm] : Overlaps(d, s) <=> Bytes(d) \cap Bytes(s) # {}
      <3> SUFFICES ASSUME NEW s \in spans[d.shm]
                   PROVE  Overlaps(d, s) <=> Bytes(d) \cap Bytes(s) # {}
        OBVIOUS
      <3>1. s \in Descriptors /\ SpanFits(s) /\ s.size # 0
        BY <2>1 DEF IInv, Recorded, Admits, Validate
      <3>2. SpanFits(d) /\ d.size # 0
        BY <1>2 DEF Admits, Validate
      <3> QED BY <3>1, <3>2, OverlapsIffShareByte
    <2>3. CASE /\ \E s \in spans[d.shm] : Overlaps(d, s)
               /\ Answer(d, "overlap") /\ UNCHANGED spans
      <3>1. OverlapHasByte'
        BY <2>2, <2>3 DEF OverlapHasByte, Answer
      <3> QED BY <2>3, <3>1 DEF IInv, TypeOK, SpansDisjoint
    <2>4. CASE /\ \A s \in spans[d.shm] : ~Overlaps(d, s)
               /\ Answer(d, "ok")
               /\ spans' = [spans EXCEPT ![d.shm] = @ \cup {d}]
      <3>1. \A g \in Segments : spans'[g] = IF g = d.shm THEN spans[g] \cup {d} ELSE spans[g]
        BY <2>1, <2>4 DEF IInv, TypeOK
      <3>2. TypeOK'
        BY <2>1, <2>4 DEF IInv, TypeOK
      <3>3. \A g \in Segments : \A s \in spans'[g] : Recorded(g, s)
        BY <2>1, <3>1, Zenon DEF IInv
      <3>4. SpansDisjoint'
        BY <2>1, <2>2, <2>4, <3>1 DEF IInv, SpansDisjoint
      <3>5. OverlapHasByte'
        BY <2>4 DEF OverlapHasByte, Answer
      <3> QED BY <3>2, <3>3, <3>4, <3>5 DEF IInv
    <2> QED BY <1>2, <2>3, <2>4 DEF Register
  <1> QED BY <1>1, <1>2 DEF Register

(* Deregister only takes spans away. *)
LEMMA DeregisterIInv ==
  ASSUME IInv, NEW g \in Segments, NEW offset, Deregister(g, offset)
  PROVE  IInv'
  <1>1. /\ TypeOK'
        /\ \A h \in Segments : spans'[h] \subseteq spans[h]
    BY DEF IInv, TypeOK, Deregister
  <1>2. last'.err # "overlap"
    BY DEF Deregister, Nothing
  <1> QED BY <1>1, <1>2 DEF IInv, SpansDisjoint, OverlapHasByte

(* The strengthened invariant holds throughout. *)
THEOREM RegistryInductive == Spec => []IInv
  <1>1. IInv /\ [Next]_vars => IInv'
    <2> SUFFICES ASSUME IInv, [Next]_vars PROVE IInv'
      OBVIOUS
    <2>1. CASE UNCHANGED vars
      BY <2>1 DEF vars, IInv, TypeOK, SpansDisjoint, OverlapHasByte
    <2> QED BY <2>1, RegisterIInv, DeregisterIInv DEF Next
  <1> QED BY <1>1, InitIInv, PTL DEF Spec

(* No byte of a segment is ever handed out twice. *)
THEOREM NoByteSharedTwice == Spec => []SpansDisjoint
  BY RegistryInductive, PTL DEF IInv

(* Register refuses for overlap only when a byte is taken. *)
THEOREM NoSpuriousOverlap == Spec => []OverlapHasByte
  BY RegistryInductive, PTL DEF IInv

(* Live spans are nonempty and an offset names at most one of them. *)
THEOREM OffsetsAreNames == Spec => []OffsetNamesSpan
  <1>1. IInv => OffsetNamesSpan
    <2> SUFFICES ASSUME IInv, NEW g \in Segments, NEW s \in spans[g], NEW t \in spans[g]
                 PROVE  Bytes(s) # {} /\ (s.offset = t.offset => s = t)
      BY DEF OffsetNamesSpan
    <2>1. /\ s.offset \in Nat /\ s.size \in Nat \ {0}
          /\ t.offset \in Nat /\ t.size \in Nat \ {0}
      <3>1. ASSUME NEW x \in spans[g] PROVE x.offset \in Nat /\ x.size \in Nat \ {0}
        <4>1. x \in Descriptors /\ SpanFits(x) /\ x.size # 0
          BY DEF IInv, Recorded, Admits, Validate
        <4> QED BY <4>1, EndExact
      <3> QED BY <3>1
    <2>2. s.offset \in Bytes(s) /\ t.offset \in Bytes(t)
      BY <2>1 DEF Bytes
    <2> QED BY <2>2 DEF IInv, SpansDisjoint
  <1> QED BY <1>1, RegistryInductive, PTL
-----------------------------------------------------------------------------
(* An int64 expression within the range of int64 does not wrap. *)
LEMMA SIntExact ==
  ASSUME NEW x \in Nat, x < 2 * Limit
  PROVE  SInt(x) = x
  <1>1. Limit \in Nat \ {0} /\ 2 ^ (W - 1) = 2 * Limit /\ 2 ^ W = 4 * Limit
    BY WidthAssumption DEF Limit
  <1>2. SInt(x) = ((x + 2 * Limit) % (4 * Limit)) - 2 * Limit
    BY <1>1 DEF SInt
  <1>3. x + 2 * Limit \in Nat /\ 4 * Limit \in Nat \ {0} /\ x + 2 * Limit < 4 * Limit
    BY <1>1
  <1>4. (x + 2 * Limit) % (4 * Limit) = x + 2 * Limit
    <2> HIDE DEF Limit
    <2> QED BY <1>3, ModExact
  <1> QED BY <1>1, <1>2, <1>4

(* What the guard by division bounds. *)
LEMMA GuardBounds ==
  ASSUME NEW a \in Nat \ {0}, NEW b \in Nat, NEW L \in Nat, b <= L \div a
  PROVE  a * b \in Nat /\ a * b <= L
  <1>1. PICK q \in Nat : q = L \div a
    OBVIOUS
  <1>2. a * q <= L
    BY <1>1
  <1>3. a * b <= a * q
    BY <1>1
  <1>4. a * b \in Nat /\ a * q \in Nat
    BY <1>1
  <1> QED BY <1>2, <1>3, <1>4

(* The conversions to int64 and uint64 have integer values. *)
LEMMA SIntType ==
  ASSUME NEW x \in Int
  PROVE  SInt(x) \in Int
  <1>1. 2 ^ (W - 1) \in Nat /\ 2 ^ W \in Nat \ {0}
    BY WidthAssumption
  <1>2. (x + 2 ^ (W - 1)) % 2 ^ W \in Int
    BY <1>1
  <1> QED BY <1>1, <1>2 DEF SInt

(* The type of a descriptor whose numbers of extents and strides agree. *)
LEMMA Terms ==
  ASSUME NEW d \in Descriptors, Len(d.strides) = Len(d.shape)
  PROVE  /\ Len(d.shape) \in Nat
         /\ \A i \in 1 .. Len(d.shape) :
              d.shape[i] \in Int /\ d.strides[i] \in Int /\ (d.shape[i] - 1) * d.strides[i] \in Int
  <1>1. d.shape \in Seq(Ints) /\ d.strides \in Seq(Ints)
    BY RegistryAssumption
  <1>2. Ints \subseteq Int
    BY WidthAssumption DEF Ints
  <1>3. Len(d.shape) \in Nat
    BY <1>1
  <1>4. ASSUME NEW i \in 1 .. Len(d.shape) PROVE d.shape[i] \in Int /\ d.strides[i] \in Int
    <2>1. i \in DOMAIN d.shape /\ i \in DOMAIN d.strides
      BY <1>1
    <2> QED BY <1>1, <1>2, <2>1, ElementsIn, Zenon
  <1>5. ASSUME NEW a \in Int, NEW b \in Int PROVE (a - 1) * b \in Int
    OBVIOUS
  <1> QED BY <1>3, <1>4, <1>5, Zenon

(* The turns of Validate's loop. *)
LEMMA ExtentLoop ==
  ASSUME NEW d \in Descriptors, Len(d.strides) = Len(d.shape)
  PROVE  LET ext == ExtentAt(d) IN
         /\ ext[0] = 1
         /\ \A i \in 1 .. Len(d.shape) : ext[i] = SInt(ext[i - 1] + SInt((d.shape[i] - 1) * d.strides[i]))
         /\ \A i \in 0 .. Len(d.shape) : ext[i] \in Int
  <1> DEFINE n == Len(d.shape)
             term(i) == SInt((d.shape[i] - 1) * d.strides[i])
             turn == [i \in 1 .. n |-> [x \in Int |-> SInt(x + term(i))]]
             Is(f) == f = [i \in 0 .. n |-> IF i = 0 THEN 1 ELSE SInt(f[i - 1] + term(i))]
             f == CHOOSE f : Is(f)
  <1>1. n \in Nat /\ \A i \in 1 .. n : term(i) \in Int
    BY Terms, SIntType
  <1>2. ExtentAt(d) = f
    BY DEF ExtentAt
  <1> HIDE DEF n, term
  <1>3. turn \in [1 .. n -> [Int -> Int]]
    <2>1. ASSUME NEW i \in 1 .. n, NEW x \in Int PROVE SInt(x + term(i)) \in Int
      <3>1. x + term(i) \in Int
        BY <1>1
      <3> QED BY <3>1, SIntType
    <2> QED BY <2>1, Zenon
  <1>4. PICK g : LoopOf(g, n, Int, 1, turn)
    <2>1. 1 \in Int
      OBVIOUS
    <2> HIDE DEF turn
    <2> QED BY <1>1, <1>3, <2>1, LoopValues, Zenon
  <1>5. Is(g)
    <2>1. g \in [0 .. n -> Int] /\ g[0] = 1 /\ \A i \in 1 .. n : g[i] = turn[i][g[i - 1]]
      BY <1>4, Zenon DEF LoopOf
    <2>2. ASSUME NEW i \in 0 .. n PROVE g[i] = IF i = 0 THEN 1 ELSE SInt(g[i - 1] + term(i))
      <3>1. CASE i # 0
        <4>1. i \in 1 .. n /\ i - 1 \in 0 .. n
          BY <1>1, <3>1
        <4>2. g[i - 1] \in Int
          BY <2>1, <4>1, Zenon
        <4> QED BY <2>1, <3>1, <4>1, <4>2, Zenon
      <3> QED BY <2>1, <3>1, Zenon
    <2> QED BY <2>1, <2>2, Zenon
  <1>6. Is(f)
    <2> HIDE DEF Is
    <2> QED BY <1>5, Zenon
  <1> HIDE DEF f
  <1>7. f[0] = 1 /\ \A i \in 1 .. n : f[i] = SInt(f[i - 1] + term(i))
    <2>1. 0 \in 0 .. n /\ \A i \in 1 .. n : i \in 0 .. n /\ i # 0
      BY <1>1
    <2> QED BY <1>6, <2>1, Zenon
  <1>8. \A i \in 0 .. n : f[i] \in Int
    <2>1. 1 \in Int
      OBVIOUS
    <2>2. \A i \in 1 .. n : f[i - 1] \in Int => f[i] = turn[i][f[i - 1]]
      BY <1>7, Zenon
    <2> HIDE DEF turn
    <2> QED BY <1>1, <1>3, <1>7, <2>1, <2>2, LoopStays, Zenon
  <1> QED BY <1>2, <1>7, <1>8, Zenon DEF n, term

(* The same loop without wrapping. *)
SumOf(d, sum) ==
    /\ TrueFootprint(d) = sum[Len(d.shape)] * Elem(d)
    /\ sum[0] = 1
    /\ \A i \in 1 .. Len(d.shape) : sum[i] = sum[i - 1] + (d.shape[i] - 1) * d.strides[i]

(* The turns of the loop of TrueFootprint. *)
LEMMA SumLoop ==
  ASSUME NEW d \in Descriptors, Len(d.strides) = Len(d.shape)
  PROVE  \E sum : SumOf(d, sum)
  <1> DEFINE n == Len(d.shape)
             term(i) == (d.shape[i] - 1) * d.strides[i]
             turn == [i \in 1 .. n |-> [x \in Int |-> x + term(i)]]
             Is(f) == f = [i \in 0 .. n |-> IF i = 0 THEN 1 ELSE f[i - 1] + term(i)]
             f == CHOOSE f : Is(f)
  <1>1. n \in Nat /\ \A i \in 1 .. n : term(i) \in Int
    BY Terms
  <1>2. TrueFootprint(d) = f[n] * Elem(d)
    BY DEF TrueFootprint
  <1> HIDE DEF n, term
  <1>3. turn \in [1 .. n -> [Int -> Int]]
    BY <1>1
  <1>4. PICK g : LoopOf(g, n, Int, 1, turn)
    <2>1. 1 \in Int
      OBVIOUS
    <2> HIDE DEF turn
    <2> QED BY <1>1, <1>3, <2>1, LoopValues, Zenon
  <1>5. Is(g)
    <2>1. g \in [0 .. n -> Int] /\ g[0] = 1 /\ \A i \in 1 .. n : g[i] = turn[i][g[i - 1]]
      BY <1>4, Zenon DEF LoopOf
    <2>2. ASSUME NEW i \in 0 .. n PROVE g[i] = IF i = 0 THEN 1 ELSE g[i - 1] + term(i)
      <3>1. CASE i # 0
        <4>1. i \in 1 .. n /\ i - 1 \in 0 .. n
          BY <1>1, <3>1
        <4>2. g[i - 1] \in Int
          BY <2>1, <4>1, Zenon
        <4> QED BY <2>1, <3>1, <4>1, <4>2, Zenon
      <3> QED BY <2>1, <3>1, Zenon
    <2> QED BY <2>1, <2>2, Zenon
  <1>6. Is(f)
    <2> HIDE DEF Is
    <2> QED BY <1>5, Zenon
  <1> HIDE DEF f
  <1>7. f[0] = 1 /\ \A i \in 1 .. n : f[i] = f[i - 1] + term(i)
    <2>1. 0 \in 0 .. n /\ \A i \in 1 .. n : i \in 0 .. n /\ i # 0
      BY <1>1
    <2> QED BY <1>6, <2>1, Zenon
  <1>8. SumOf(d, f)
    BY <1>2, <1>7, Zenon DEF SumOf, n, term
  <1> QED BY <1>8, Zenon

(* The guards of Validate keep the footprint of elements of two bytes or   *)
(* more from wrapping.                                                     *)
LEMMA FootprintExact ==
  ASSUME NEW d \in Descriptors, Validate(d), Elem(d) > 1
  PROVE  Footprint(d) = TrueFootprint(d)
  <1> DEFINE n == Len(d.shape)
             e == Elem(d)
             ext == ExtentAt(d)
             term(i) == (d.shape[i] - 1) * d.strides[i]
  <1>1. n \in Nat \ {0} /\ Len(d.strides) = Len(d.shape)
    <2>1. n \in 1 .. MaxDims /\ Len(d.strides) = Len(d.shape)
      BY Zenon DEF Validate
    <2>2. MaxDims \in Nat
      BY WidthAssumption, Zenon
    <2> QED BY <2>1, <2>2
  <1>2. e \in {2, 4}
    BY DEF Elem, DtypeBytes
  <1>3. Limit \in Nat /\ Limit > 1
    BY WidthAssumption DEF Limit
  <1>4. PICK sum : /\ TrueFootprint(d) = sum[n] * e
                   /\ sum[0] = 1 /\ \A i \in 1 .. n : sum[i] = sum[i - 1] + term(i)
    <2>1. PICK sum : SumOf(d, sum)
      BY <1>1, SumLoop, Zenon
    <2> QED BY <2>1, Zenon DEF SumOf
  <1>5. ext[0] = 1 /\ \A i \in 1 .. n : ext[i] = SInt(ext[i - 1] + SInt(term(i)))
    BY <1>1, ExtentLoop, Zenon
  <1>6. \A i \in 1 .. n : ext[i] <= Limit \div e
    BY Zenon DEF Validate, ExtentGuard, Dims
  <1>7. ASSUME NEW i \in 1 .. n PROVE term(i) \in Nat /\ term(i) <= Limit
    <2>1. d.shape[i] \in Int /\ d.shape[i] > 0 /\ d.strides[i] \in Int
      BY <1>1, Terms DEF Validate, Dims
    <2>2. d.strides[i] >= 0 /\ (d.shape[i] - 1 > 0 => d.strides[i] <= Limit \div (d.shape[i] - 1))
      BY Zenon DEF Validate, StrideGuard, Dims
    <2>3. PICK a \in Nat : a = d.shape[i] - 1
      BY <2>1
    <2>4. PICK b \in Nat : b = d.strides[i]
      BY <2>1, <2>2
    <2>5. CASE a = 0
      <3>1. term(i) = 0
        BY <2>3, <2>4, <2>5
      <3> QED BY <3>1, <1>3
    <2>6. CASE a # 0
      <3>0. a \in Nat \ {0} /\ a > 0
        BY <2>6
      <3>1. a \in Nat \ {0} /\ b <= Limit \div a
        BY <2>2, <2>3, <2>4, <3>0, Zenon
      <3>2. a * b \in Nat /\ a * b <= Limit
        BY <1>3, <3>1, GuardBounds, Zenon
      <3> QED BY <2>3, <2>4, <3>2
    <2> QED BY <2>5, <2>6
  <1> HIDE DEF n, e, ext, term
  <1> DEFINE S == {i \in Nat : i <= n => ext[i] \in Nat /\ ext[i] = sum[i]}
  <1>8. 0 \in S
    BY <1>4, <1>5
  <1>9. ASSUME NEW i \in Nat, i \in S PROVE i + 1 \in S
    <2> SUFFICES ASSUME i + 1 <= n PROVE ext[i + 1] \in Nat /\ ext[i + 1] = sum[i + 1]
      OBVIOUS
    <2>1. i + 1 \in 1 .. n /\ (i + 1) - 1 = i /\ ext[i] \in Nat /\ ext[i] = sum[i]
      BY <1>1, <1>9
    <2> HIDE DEF S
    <2>2. ext[i + 1] = SInt(ext[i] + SInt(term(i + 1))) /\ sum[i + 1] = sum[i] + term(i + 1)
      BY <1>4, <1>5, <2>1
    <2>3. PICK t \in Nat : t = term(i + 1) /\ t <= Limit
      BY <1>7, <2>1
    <2>4. SInt(t) = t
      <3>1. t < 2 * Limit
        BY <1>3, <2>3
      <3> QED BY <3>1, SIntExact
    <2>5. ext[i] + t < 2 * Limit
      <3>1. CASE i = 0
        BY <1>3, <1>5, <2>3, <3>1
      <3>2. CASE i # 0
        <4>1. i \in 1 .. n
          BY <2>1, <3>2, <1>1
        <4>2. ext[i] <= Limit \div e
          BY <1>6, <4>1
        <4>3. ext[i] < Limit
          <5>1. CASE e = 2
            BY <1>3, <2>1, <4>2, <5>1
          <5>2. CASE e = 4
            BY <1>3, <2>1, <4>2, <5>2
          <5> QED BY <1>2, <5>1, <5>2
        <4> QED BY <1>3, <2>1, <2>3, <4>3
      <3> QED BY <3>1, <3>2
    <2>6. SInt(ext[i] + t) = ext[i] + t
      <3>1. ext[i] + t \in Nat
        BY <2>1, <2>3
      <3> QED BY <2>5, <3>1, SIntExact
    <2> QED BY <2>1, <2>2, <2>3, <2>4, <2>6
  <1>10. \A i \in Nat : i \in S
    <2> HIDE DEF S
    <2> QED BY <1>8, <1>9, Induction
  <1>11. PICK x \in Nat : x = ext[n] /\ x = sum[n] /\ x <= Limit \div e
    <2>1. n \in S /\ n <= n /\ n \in 1 .. n
      BY <1>1, <1>10
    <2> QED BY <1>6, <2>1
  <1>12. x * e \in Nat /\ x * e <= Limit
    <2>1. CASE e = 2
      BY <1>3, <1>11, <2>1
    <2>2. CASE e = 4
      BY <1>3, <1>11, <2>2
    <2> QED BY <1>2, <2>1, <2>2
  <1>13. 2 ^ W \in Nat \ {0} /\ x < 2 ^ W /\ x * e < 2 ^ W
    <2>1. 2 ^ W = 4 * Limit
      BY WidthAssumption DEF Limit
    <2>2. x <= x * e
      BY <1>2
    <2> QED BY <1>3, <1>12, <2>1, <2>2
  <1>14. UInt(x) = x
    BY <1>13, ModExact DEF UInt
  <1>15. UInt(x * e) = x * e
    BY <1>12, <1>13, ModExact DEF UInt
  <1>16. Footprint(d) = UInt(UInt(ext[n]) * e)
    BY DEF Footprint, ext, n, e
  <1> QED BY <1>4, <1>11, <1>14, <1>15, <1>16, Zenon

(* WideSpansCover: a registered span of elements of two bytes or more has  *)
(* room for every element that its shape and strides reach.                *)
THEOREM WideSpansHoldTheirElements == Spec => []WideSpansCover
  <1>1. IInv => WideSpansCover
    <2> SUFFICES ASSUME IInv, NEW g \in Segments, NEW s \in spans[g], Elem(s) > 1
                 PROVE  s.size >= TrueFootprint(s)
      BY DEF WideSpansCover
    <2>1. s \in Descriptors /\ Validate(s)
      BY DEF IInv, Recorded, Admits
    <2>2. s.size >= Footprint(s)
      BY <2>1 DEF Validate
    <2> QED BY <2>1, <2>2, FootprintExact
  <1> QED BY <1>1, RegistryInductive, PTL
-----------------------------------------------------------------------------
(* The codec. *)

(* s stands on the wire after the first a units. *)
At(wire, a, s) == a + Len(s) <= Len(wire) /\ \A i \in 1 .. Len(s) : wire[a + i] = s[i]

(* Readers of numbers. *)
Readers == [ok : BOOLEAN, at : Nat, got : Seq(Nat)]
(* A reader, as far as a read depends on it. *)
Stands(r) == r.ok \in BOOLEAN /\ r.at \in Nat

(* What is written in a row stands in a row. *)
LEMMA AtJoined ==
  ASSUME NEW w \in Seq(Nat), NEW a \in Nat, NEW s \in Seq(Nat), NEW t \in Seq(Nat), At(w, a, s \o t)
  PROVE  At(w, a, s) /\ At(w, a + Len(s), t)
  <1>1. PICK m \in Nat, n \in Nat, L \in Nat : m = Len(s) /\ n = Len(t) /\ L = Len(w)
    OBVIOUS
  <1>2. /\ Len(s \o t) = m + n
        /\ \A i \in 1 .. m : (s \o t)[i] = s[i]
        /\ \A i \in 1 .. n : (s \o t)[m + i] = t[i]
    BY <1>1, Joined
  <1>3. a + (m + n) <= L /\ \A i \in 1 .. m + n : w[a + i] = (s \o t)[i]
    BY <1>1, <1>2 DEF At
  <1>4. At(w, a, s)
    <2>1. a + m <= L /\ \A i \in 1 .. m : i \in 1 .. m + n
      BY <1>3
    <2>2. \A i \in 1 .. m : w[a + i] = s[i]
      BY <1>2, <1>3, <2>1, Zenon
    <2> QED BY <1>1, <2>1, <2>2 DEF At
  <1>5. At(w, a + m, t)
    <2>1. (a + m) + n <= L
      BY <1>3
    <2>2. ASSUME NEW i \in 1 .. n PROVE w[(a + m) + i] = t[i]
      <3>1. m + i \in 1 .. m + n /\ (a + m) + i = a + (m + i)
        OBVIOUS
      <3> QED BY <1>2, <1>3, <3>1, Zenon
    <2> QED BY <1>1, <2>1, <2>2 DEF At
  <1> QED BY <1>1, <1>4, <1>5, Zenon

(* The whole wire stands at its start. *)
LEMMA AtStart ==
  ASSUME NEW w \in Seq(Nat)
  PROVE  At(w, 0, w)
  <1>1. PICK L \in Nat : L = Len(w)
    OBVIOUS
  <1> QED BY <1>1 DEF At

(* What ReadFull returns. *)
LEMMA ReadFullIs ==
  ASSUME NEW w, NEW r, NEW n
  PROVE  /\ r.ok = FALSE => ReadFull(w, r, n) = Failed
         /\ r.ok = TRUE /\ r.at + n <= Len(w) =>
              ReadFull(w, r, n) = Reader(r.at + n, SubSeq(w, r.at + 1, r.at + n))
         /\ ~(r.at + n <= Len(w)) => ReadFull(w, r, n) = Failed
  <1> DEFINE A == r.ok /\ r.at + n <= Len(w)
             B == Reader(r.at + n, SubSeq(w, r.at + 1, r.at + n))
  <1>1. ReadFull(w, r, n) = IF A THEN B ELSE Failed
    BY Zenon DEF ReadFull
  <1>2. r.ok = FALSE => ~A
    OBVIOUS
  <1>3. r.ok = TRUE /\ r.at + n <= Len(w) => A
    OBVIOUS
  <1>4. ~(r.at + n <= Len(w)) => ~A
    OBVIOUS
  <1> HIDE DEF A, B
  <1>5. A => ReadFull(w, r, n) = B
    BY <1>1, Zenon
  <1>6. ~A => ReadFull(w, r, n) = Failed
    BY <1>1, Zenon
  <1> QED BY <1>2, <1>3, <1>4, <1>5, <1>6, Zenon DEF B

(* A read of the units that stand there returns them. *)
LEMMA ReadAt ==
  ASSUME NEW w \in Seq(Nat), NEW r, r.ok = TRUE, r.at \in Nat, NEW s \in Seq(Nat), At(w, r.at, s)
  PROVE  ReadFull(w, r, Len(s)) = Reader(r.at + Len(s), s)
  <1>0. PICK a \in Nat, n \in Nat : a = r.at /\ n = Len(s)
    OBVIOUS
  <1>1. n \in Nat /\ Len(w) \in Nat /\ a + n <= Len(w) /\ \A i \in 1 .. n : w[a + i] = s[i]
    BY <1>0 DEF At
  <1>2. SubSeq(w, a + 1, a + n) = s
    <2>1. \A i \in 1 .. n : a + i \in 1 .. Len(w)
      BY <1>1
    <2>2. SubSeq(w, a + 1, a + n) = [i \in 1 .. n |-> w[a + i]]
      BY <1>1
    <2>3. s = [i \in 1 .. n |-> s[i]]
      BY <1>0, <1>1
    <2> QED BY <1>1, <2>2, <2>3, Zenon
  <1>3. r.at + Len(s) <= Len(w) /\ SubSeq(w, r.at + 1, r.at + Len(s)) = s
    BY <1>0, <1>1, <1>2, Zenon
  <1>4. ReadFull(w, r, Len(s)) = Reader(r.at + Len(s), SubSeq(w, r.at + 1, r.at + Len(s)))
    BY <1>3, ReadFullIs, Zenon
  <1> QED BY <1>3, <1>4, Zenon

(* After a read that failed, every read fails. *)
LEMMA FailedStays ==
  ASSUME NEW w, NEW r, r.ok = FALSE, NEW n, NEW max
  PROVE  ReadFull(w, r, n) = Failed /\ readStringField(w, r, max) = Failed /\ Failed.ok = FALSE
  <1>1. ReadFull(w, r, n) = Failed /\ ReadFull(w, r, 1) = Failed
    BY ReadFullIs, Zenon
  <1>2. Failed.ok = FALSE
    BY DEF Failed
  <1>3. readStringField(w, r, max) = Failed
    <2> DEFINE ln == ReadFull(w, r, 1)
    <2>1. readStringField(w, r, max) = IF ln.ok /\ ln.got[1] <= max THEN ReadFull(w, ln, ln.got[1]) ELSE Failed
      BY Zenon DEF readStringField
    <2>2. ln.ok = FALSE
      BY <1>1, <1>2, Zenon
    <2> HIDE DEF ln
    <2> QED BY <2>1, <2>2
  <1> QED BY <1>1, <1>2, <1>3, Zenon

(* The field of a string whose length fits. *)
LEMMA FieldType ==
  ASSUME NEW s \in Seq(Nat), Len(s) < 2 ^ LenWidth
  PROVE  /\ appendStringField(s) = <<Len(s)>> \o s
         /\ appendStringField(s) \in Seq(Nat) /\ Len(appendStringField(s)) = 1 + Len(s)
  <1>1. PICK m \in Nat : m = Len(s)
    OBVIOUS
  <1>2. m % 2 ^ LenWidth = m
    BY <1>1, CodecAssumption, ModExact
  <1>3. appendStringField(s) = <<m>> \o s
    BY <1>1, <1>2, Zenon DEF appendStringField
  <1>4. <<m>> \in Seq(Nat) /\ Len(<<m>>) = 1
    OBVIOUS
  <1>5. <<m>> \o s \in Seq(Nat) /\ Len(<<m>> \o s) = Len(<<m>>) + Len(s)
    BY <1>4, Joined, Zenon
  <1> QED BY <1>1, <1>3, <1>4, <1>5, Zenon

(* A string is read back, or refused if it is longer than the limit. *)
LEMMA StringAt ==
  ASSUME NEW w \in Seq(Nat), NEW r, r.ok = TRUE, r.at \in Nat,
         NEW s \in Seq(Nat), Len(s) < 2 ^ LenWidth, At(w, r.at, appendStringField(s)), NEW max \in Nat
  PROVE  readStringField(w, r, max) =
            IF Len(s) <= max THEN Reader(r.at + Len(appendStringField(s)), s) ELSE Failed
  <1>1. PICK a \in Nat, m \in Nat : a = r.at /\ m = Len(s)
    OBVIOUS
  <1>2. At(w, r.at, <<m>> \o s) /\ Len(appendStringField(s)) = 1 + m
    BY <1>1, FieldType, Zenon
  <1>3. <<m>> \in Seq(Nat) /\ Len(<<m>>) = 1 /\ <<m>>[1] = m
    OBVIOUS
  <1>4. At(w, r.at, <<m>>) /\ At(w, r.at + 1, s)
    <2>1. At(w, r.at, <<m>>) /\ At(w, r.at + Len(<<m>>), s)
      BY <1>2, <1>3, AtJoined, Zenon
    <2> QED BY <1>3, <2>1, Zenon
  <1> DEFINE ln == ReadFull(w, r, 1)
  <1>5. ln = Reader(a + 1, <<m>>)
    <2>1. ReadFull(w, r, Len(<<m>>)) = Reader(r.at + Len(<<m>>), <<m>>)
      BY <1>3, <1>4, ReadAt, Zenon
    <2> QED BY <1>1, <1>3, <2>1, Zenon
  <1>6. ln.ok = TRUE /\ ln.at = a + 1 /\ ln.got[1] = m /\ ln.at \in Nat
    BY <1>3, <1>5 DEF Reader
  <1>7. readStringField(w, r, max) = IF ln.ok /\ ln.got[1] <= max THEN ReadFull(w, ln, ln.got[1]) ELSE Failed
    BY Zenon DEF readStringField
  <1> HIDE DEF ln
  <1>8. ReadFull(w, ln, m) = Reader((a + 1) + m, s)
    <2>1. At(w, ln.at, s)
      BY <1>1, <1>4, <1>6, Zenon
    <2>2. ReadFull(w, ln, Len(s)) = Reader(ln.at + Len(s), s)
      BY <1>6, <2>1, ReadAt, Zenon
    <2> QED BY <1>1, <1>6, <2>2, Zenon
  <1>9. (a + 1) + m = a + (1 + m)
    OBVIOUS
  <1>10. readStringField(w, r, max) = IF m <= max THEN ReadFull(w, ln, m) ELSE Failed
    BY <1>6, <1>7
  <1> QED BY <1>1, <1>2, <1>8, <1>9, <1>10, Zenon

(* The bytes of the first claims. *)
CapBuffers(caps, buf) ==
    /\ \A i \in 0 .. Len(caps) : buf[i] \in Seq(Nat)
    /\ buf[0] = <<>>
    /\ \A i \in 1 .. Len(caps) : buf[i] = buf[i - 1] \o appendStringField(caps[i])
    /\ CapFields(caps) = buf[Len(caps)]

(* The turns of the loop that appends the claims. *)
LEMMA CapLoop ==
  ASSUME NEW caps \in Seq(Seq(Nat)), \A i \in 1 .. Len(caps) : Len(caps[i]) < 2 ^ LenWidth
  PROVE  \E buf : CapBuffers(caps, buf)
  <1> DEFINE n == Len(caps)
             turn == [i \in 1 .. n |-> [x \in Seq(Nat) |-> x \o appendStringField(caps[i])]]
             Is(f) == f = [i \in 0 .. n |-> IF i = 0 THEN <<>> ELSE f[i - 1] \o appendStringField(caps[i])]
             f == CHOOSE f : Is(f)
  <1>1. n \in Nat /\ <<>> \in Seq(Nat) /\ \A i \in 1 .. n : caps[i] \in Seq(Nat)
    OBVIOUS
  <1>2. CapFields(caps) = f[n]
    BY DEF CapFields
  <1> HIDE DEF n
  <1>3. turn \in [1 .. n -> [Seq(Nat) -> Seq(Nat)]]
    <2>1. ASSUME NEW i \in 1 .. n, NEW x \in Seq(Nat) PROVE x \o appendStringField(caps[i]) \in Seq(Nat)
      <3>1. appendStringField(caps[i]) \in Seq(Nat)
        BY <1>1, FieldType, Zenon DEF n
      <3> QED BY <3>1, Joined, Zenon
    <2> QED BY <2>1, Zenon
  <1>4. PICK g : LoopOf(g, n, Seq(Nat), <<>>, turn)
    <2> HIDE DEF turn
    <2> QED BY <1>1, <1>3, LoopValues, Zenon
  <1>5. Is(g)
    <2>1. g \in [0 .. n -> Seq(Nat)] /\ g[0] = <<>> /\ \A i \in 1 .. n : g[i] = turn[i][g[i - 1]]
      BY <1>4, Zenon DEF LoopOf
    <2>2. ASSUME NEW i \in 0 .. n
          PROVE  g[i] = IF i = 0 THEN <<>> ELSE g[i - 1] \o appendStringField(caps[i])
      <3>1. CASE i # 0
        <4>1. i \in 1 .. n /\ i - 1 \in 0 .. n
          BY <1>1, <3>1
        <4>2. g[i - 1] \in Seq(Nat)
          BY <2>1, <4>1, Zenon
        <4> QED BY <2>1, <3>1, <4>1, <4>2, Zenon
      <3> QED BY <2>1, <3>1, Zenon
    <2> QED BY <2>1, <2>2, Zenon
  <1>6. Is(f)
    <2> HIDE DEF Is
    <2> QED BY <1>5, Zenon
  <1> HIDE DEF f
  <1>7. f[0] = <<>> /\ \A i \in 1 .. n : f[i] = f[i - 1] \o appendStringField(caps[i])
    <2>1. 0 \in 0 .. n /\ \A i \in 1 .. n : i \in 0 .. n /\ i # 0
      BY <1>1
    <2> QED BY <1>6, <2>1, Zenon
  <1>8. \A i \in 0 .. n : f[i] \in Seq(Nat)
    <2>1. \A i \in 1 .. n : f[i - 1] \in Seq(Nat) => f[i] = turn[i][f[i - 1]]
      BY <1>7, Zenon
    <2>2. f[0] \in Seq(Nat)
      BY <1>1, <1>7, Zenon
    <2> HIDE DEF turn
    <2> QED BY <1>1, <1>3, <2>1, <2>2, LoopStays, Zenon
  <1>9. CapBuffers(caps, f)
    BY <1>2, <1>7, <1>8, Zenon DEF CapBuffers, n
  <1> QED BY <1>9, Zenon

(* Readers of claims, and the turns of the loop that reads them. *)
CapReaders == [ok : BOOLEAN, at : Nat, got : Seq(Seq(Nat))]

NextClaim(w, x) == [readStringField(w, x, MaxCapLen) EXCEPT !.got = Append(x.got, @)]

(* The loop over n claims, turn by turn. *)
CapReads(w, r, n, after) ==
    /\ after[0] = [r EXCEPT !.got = <<>>] /\ \A i \in 0 .. n : after[i] \in CapReaders
    /\ \A i \in 1 .. n : after[i] = NextClaim(w, after[i - 1])
    /\ ReadCaps(w, r, n) = after[n]

(* A read returns a reader. *)
LEMMA ReadType ==
  ASSUME NEW w \in Seq(Nat), NEW r, Stands(r), NEW n \in Nat
  PROVE  ReadFull(w, r, n) \in Readers
  <1>1. Failed \in Readers
    BY DEF Failed, Readers
  <1>2. CASE r.ok = TRUE /\ r.at + n <= Len(w)
    <2>1. PICK a \in Nat : a = r.at
      BY DEF Stands
    <2>2. SubSeq(w, a + 1, a + n) \in Seq(Nat) /\ a + n \in Nat
      <3>1. a + n \in 0 .. Len(w)
        BY <1>2, <2>1
      <3>2. SubSeq(w, a + 1, a + n) = [i \in 1 .. n |-> w[a + i]]
        BY <3>1
      <3>3. \A i \in 1 .. n : a + i \in DOMAIN w
        BY <3>1
      <3>4. [i \in 1 .. n |-> w[a + i]] \in [1 .. n -> Nat]
        BY <3>3, ElementsIn, Zenon
      <3>5. SubSeq(w, a + 1, a + n) \in Seq(Nat)
        BY <3>2, <3>4, SequenceOf, Zenon
      <3> QED BY <3>1, <3>5
    <2>3. ReadFull(w, r, n) = Reader(a + n, SubSeq(w, a + 1, a + n))
      BY <1>2, <2>1, ReadFullIs, Zenon
    <2>4. ASSUME NEW b \in Nat, NEW s \in Seq(Nat) PROVE Reader(b, s) \in Readers
      BY DEF Reader, Readers
    <2> QED BY <2>2, <2>3, <2>4, Zenon
  <1>3. CASE r.ok = FALSE \/ ~(r.at + n <= Len(w))
    <2>1. ReadFull(w, r, n) = Failed
      BY <1>3, ReadFullIs, Zenon
    <2> QED BY <1>1, <2>1, Zenon
  <1>4. r.ok = TRUE \/ r.ok = FALSE
    BY DEF Stands
  <1> QED BY <1>2, <1>3, <1>4, Zenon

(* A length that is read is a number. *)
LEMMA LengthRead ==
  ASSUME NEW w \in Seq(Nat), NEW r, Stands(r), ReadFull(w, r, 1).ok = TRUE
  PROVE  ReadFull(w, r, 1).got[1] \in Nat
  <1> DEFINE ln == ReadFull(w, r, 1)
  <1>1. r.ok = TRUE /\ r.at + 1 <= Len(w)
    <2>1. Failed.ok = FALSE
      BY DEF Failed
    <2>2. ln # Failed
      BY <2>1, Zenon
    <2>3. r.ok = TRUE \/ r.ok = FALSE
      BY DEF Stands
    <2> QED BY <2>2, <2>3, ReadFullIs, Zenon
  <1>2. PICK a \in Nat : a = r.at
    BY DEF Stands
  <1>3. ln = Reader(a + 1, SubSeq(w, a + 1, a + 1))
    BY <1>1, <1>2, ReadFullIs, Zenon
  <1>4. a + 1 \in DOMAIN w
    BY <1>1, <1>2
  <1>5. SubSeq(w, a + 1, a + 1)[1] = w[a + 1]
    <2>1. PICK b \in Nat, c \in Nat : b = a + 1 /\ c = b
      OBVIOUS
    <2>2. SubSeq(w, b, c) = [i \in 1 .. (1 + c) - b |-> w[(b + i) - 1]]
      BY <1>4, <2>1
    <2>3. 1 \in 1 .. (1 + c) - b /\ (b + 1) - 1 = b
      BY <2>1
    <2>4. SubSeq(w, b, c)[1] = w[b]
      BY <2>2, <2>3, Zenon
    <2> QED BY <2>1, <2>4, Zenon
  <1>6. ln.got = SubSeq(w, a + 1, a + 1)
    <2> DEFINE s == SubSeq(w, a + 1, a + 1)
    <2> HIDE DEF s, ln
    <2>1. ln = Reader(a + 1, s)
      BY <1>3, Zenon DEF s
    <2> QED BY <2>1 DEF Reader, s
  <1> QED BY <1>4, <1>5, <1>6, ElementsIn, Zenon

(* A read of a string returns a reader. *)
LEMMA StringType ==
  ASSUME NEW w \in Seq(Nat), NEW r, Stands(r), NEW max
  PROVE  readStringField(w, r, max) \in Readers
  <1> DEFINE ln == ReadFull(w, r, 1)
  <1>1. Failed \in Readers
    BY DEF Failed, Readers
  <1>2. ln \in Readers
    <2>1. 1 \in Nat
      OBVIOUS
    <2> QED BY <2>1, ReadType, Zenon
  <1>3. readStringField(w, r, max) = IF ln.ok /\ ln.got[1] <= max THEN ReadFull(w, ln, ln.got[1]) ELSE Failed
    BY Zenon DEF readStringField
  <1>4. ln.ok = TRUE => ln.got[1] \in Nat
    BY LengthRead, Zenon
  <1> HIDE DEF ln
  <1>5. Stands(ln) /\ (ln.ok = TRUE \/ ln.ok = FALSE)
    BY <1>2 DEF Readers, Stands
  <1>6. CASE ln.ok = TRUE
    <2>1. ReadFull(w, ln, ln.got[1]) \in Readers
      BY <1>4, <1>5, <1>6, ReadType, Zenon
    <2> QED BY <1>1, <1>3, <2>1, Zenon
  <1>7. CASE ln.ok = FALSE
    BY <1>1, <1>3, <1>7, Zenon
  <1> QED BY <1>5, <1>6, <1>7, Zenon

(* A reader with another result. *)
LEMMA OtherGot ==
  ASSUME NEW S, NEW f \in [ok : BOOLEAN, at : Nat, got : S], NEW g
  PROVE  [f EXCEPT !.got = g] = [ok |-> f.ok, at |-> f.at, got |-> g]
  OBVIOUS

(* A turn of that loop. *)
LEMMA ClaimIs ==
  ASSUME NEW w \in Seq(Nat), NEW x \in CapReaders
  PROVE  LET f == readStringField(w, x, MaxCapLen) IN
         /\ NextClaim(w, x) \in CapReaders
         /\ NextClaim(w, x) = [ok |-> f.ok, at |-> f.at, got |-> Append(x.got, f.got)]
  <1> DEFINE f == readStringField(w, x, MaxCapLen)
  <1>1. Stands(x) /\ x.got \in Seq(Seq(Nat))
    BY DEF CapReaders, Stands
  <1>2. f \in Readers
    BY <1>1, StringType, Zenon
  <1> HIDE DEF f
  <1>3. /\ f.ok \in BOOLEAN /\ f.at \in Nat /\ f.got \in Seq(Nat)
        /\ f = [ok |-> f.ok, at |-> f.at, got |-> f.got]
    BY <1>2 DEF Readers
  <1>4. Append(x.got, f.got) \in Seq(Seq(Nat))
    <2> DEFINE T == Seq(Nat)
    <2>1. x.got \in Seq(T) /\ f.got \in T
      BY <1>1, <1>3
    <2> HIDE DEF T
    <2>2. Append(x.got, f.got) \in Seq(T)
      BY <2>1
    <2> QED BY <2>2 DEF T
  <1>5. [f EXCEPT !.got = Append(x.got, f.got)] = [ok |-> f.ok, at |-> f.at, got |-> Append(x.got, f.got)]
    BY <1>2, OtherGot, Zenon DEF Readers
  <1>6. NextClaim(w, x) = [ok |-> f.ok, at |-> f.at, got |-> Append(x.got, f.got)]
    BY <1>5, Zenon DEF NextClaim, f
  <1>7. [ok |-> f.ok, at |-> f.at, got |-> Append(x.got, f.got)] \in CapReaders
    BY <1>3, <1>4 DEF CapReaders
  <1> QED BY <1>6, <1>7, Zenon DEF f

(* The turns of the loop that reads n claims. *)
LEMMA CapReadLoop ==
  ASSUME NEW w \in Seq(Nat), NEW r \in Readers, NEW n \in Nat
  PROVE  \E after : CapReads(w, r, n, after)
  <1> DEFINE first == [r EXCEPT !.got = <<>>]
             turn == [i \in 1 .. n |-> [x \in CapReaders |-> NextClaim(w, x)]]
             Is(f) == f = [i \in 0 .. n |-> IF i = 0 THEN first ELSE NextClaim(w, f[i - 1])]
             f == CHOOSE f : Is(f)
  <1>1. first \in CapReaders
    <2>1. first = [ok |-> r.ok, at |-> r.at, got |-> <<>>]
      BY OtherGot, Zenon DEF Readers
    <2>2. r.ok \in BOOLEAN /\ r.at \in Nat
      BY DEF Readers
    <2>3. <<>> \in Seq(Seq(Nat))
      OBVIOUS
    <2> HIDE DEF first
    <2> QED BY <2>1, <2>2, <2>3 DEF CapReaders
  <1>2. ReadCaps(w, r, n) = f[n]
    BY Zenon DEF ReadCaps, NextClaim
  <1> HIDE DEF first
  <1>3. turn \in [1 .. n -> [CapReaders -> CapReaders]]
    <2>1. \A x \in CapReaders : NextClaim(w, x) \in CapReaders
      BY ClaimIs, Zenon
    <2> QED BY <2>1, Zenon
  <1>4. PICK g : LoopOf(g, n, CapReaders, first, turn)
    <2> HIDE DEF turn
    <2> QED BY <1>1, <1>3, LoopValues, Zenon
  <1>5. Is(g)
    <2>1. g \in [0 .. n -> CapReaders] /\ g[0] = first /\ \A i \in 1 .. n : g[i] = turn[i][g[i - 1]]
      BY <1>4, Zenon DEF LoopOf
    <2>2. ASSUME NEW i \in 0 .. n PROVE g[i] = IF i = 0 THEN first ELSE NextClaim(w, g[i - 1])
      <3>1. CASE i # 0
        <4>1. i \in 1 .. n /\ i - 1 \in 0 .. n
          BY <3>1
        <4>2. g[i - 1] \in CapReaders
          BY <2>1, <4>1, Zenon
        <4> QED BY <2>1, <3>1, <4>1, <4>2, Zenon
      <3> QED BY <2>1, <3>1, Zenon
    <2> QED BY <2>1, <2>2, Zenon
  <1>6. Is(f)
    <2> HIDE DEF Is
    <2> QED BY <1>5, Zenon
  <1> HIDE DEF f
  <1>7. f[0] = first /\ \A i \in 1 .. n : f[i] = NextClaim(w, f[i - 1])
    <2>1. 0 \in 0 .. n /\ \A i \in 1 .. n : i \in 0 .. n /\ i # 0
      OBVIOUS
    <2> QED BY <1>6, <2>1, Zenon
  <1>8. \A i \in 0 .. n : f[i] \in CapReaders
    <2>1. \A i \in 1 .. n : f[i - 1] \in CapReaders => f[i] = turn[i][f[i - 1]]
      BY <1>7, Zenon
    <2>2. f[0] \in CapReaders
      BY <1>1, <1>7, Zenon
    <2> HIDE DEF turn
    <2> QED BY <1>3, <2>1, <2>2, LoopStays, Zenon
  <1>9. CapReads(w, r, n, f)
    BY <1>2, <1>7, <1>8, Zenon DEF CapReads, first
  <1> QED BY <1>9, Zenon

(* Every claim's field stands on the wire after those before it. *)
LEMMA ClaimFieldsAt ==
  ASSUME NEW w \in Seq(Nat), NEW a \in Nat, NEW caps \in Seq(Seq(Nat)),
         \A i \in 1 .. Len(caps) : Len(caps[i]) < 2 ^ LenWidth,
         NEW buf, CapBuffers(caps, buf), At(w, a, CapFields(caps))
  PROVE  \A i \in 1 .. Len(caps) : At(w, a + Len(buf[i - 1]), appendStringField(caps[i]))
  <1>1. PICK n \in Nat : n = Len(caps) /\ \A i \in 1 .. n : caps[i] \in Seq(Nat)
    OBVIOUS
  <1>2. /\ \A i \in 0 .. n : buf[i] \in Seq(Nat)
        /\ \A i \in 1 .. n : buf[i] = buf[i - 1] \o appendStringField(caps[i])
        /\ At(w, a, buf[n])
    BY <1>1, Zenon DEF CapBuffers
  <1>3. \A i \in 1 .. n : appendStringField(caps[i]) \in Seq(Nat)
    BY <1>1, FieldType, Zenon
  <1>4. ASSUME NEW i \in 1 .. n, At(w, a, buf[i])
        PROVE  At(w, a, buf[i - 1]) /\ At(w, a + Len(buf[i - 1]), appendStringField(caps[i]))
    <2>1. i - 1 \in 0 .. n
      OBVIOUS
    <2>2. buf[i - 1] \in Seq(Nat) /\ At(w, a, buf[i - 1] \o appendStringField(caps[i]))
      BY <1>2, <1>4, <2>1, Zenon
    <2> QED BY <1>3, <2>2, AtJoined, Zenon
  <1> DEFINE S == {k \in Nat : k <= n => At(w, a, buf[n - k])}
  <1>5. 0 \in S
    <2>1. n - 0 = n
      OBVIOUS
    <2> QED BY <1>2, <2>1
  <1>6. ASSUME NEW k \in Nat, k \in S PROVE k + 1 \in S
    <2> SUFFICES ASSUME k + 1 <= n PROVE At(w, a, buf[n - (k + 1)])
      OBVIOUS
    <2>1. n - k \in 1 .. n /\ (n - k) - 1 = n - (k + 1) /\ At(w, a, buf[n - k])
      BY <1>6
    <2>2. At(w, a, buf[(n - k) - 1])
      BY <1>4, <2>1, Zenon
    <2> QED BY <2>1, <2>2, Zenon
  <1>7. \A k \in Nat : k \in S
    <2> HIDE DEF S
    <2> QED BY <1>5, <1>6, Induction, Zenon
  <1>8. ASSUME NEW i \in 1 .. n PROVE At(w, a, buf[i])
    <2>1. n - i \in Nat /\ n - i <= n /\ n - (n - i) = i
      OBVIOUS
    <2>2. n - i \in S
      BY <1>7, <2>1, Zenon
    <2> QED BY <2>1, <2>2
  <1> QED BY <1>1, <1>4, <1>8, Zenon

(* The claims are read back, or refused if one of them is longer than the  *)
(* limit.                                                                  *)
LEMMA ClaimsAt ==
  ASSUME NEW w \in Seq(Nat), NEW r \in Readers, r.ok = TRUE, NEW caps \in Seq(Seq(Nat)),
         \A i \in 1 .. Len(caps) : Len(caps[i]) < 2 ^ LenWidth, At(w, r.at, CapFields(caps))
  PROVE  /\ CapFields(caps) \in Seq(Nat)
         /\ (\A i \in 1 .. Len(caps) : Len(caps[i]) <= MaxCapLen) =>
               ReadCaps(w, r, Len(caps)) = Reader(r.at + Len(CapFields(caps)), caps)
         /\ ~(\A i \in 1 .. Len(caps) : Len(caps[i]) <= MaxCapLen) =>
               ReadCaps(w, r, Len(caps)).ok = FALSE
  <1> DEFINE prefix(i) == [j \in 1 .. i |-> caps[j]]
             Short(i) == \A j \in 1 .. i : Len(caps[j]) <= MaxCapLen
  <1>1. PICK n \in Nat, a \in Nat : n = Len(caps) /\ a = r.at
    BY DEF Readers
  <1>2. \A i \in 1 .. n : caps[i] \in Seq(Nat) /\ Len(caps[i]) \in Nat
    BY <1>1
  <1>3. PICK buf : CapBuffers(caps, buf)
    BY CapLoop, Zenon
  <1>4. PICK after : CapReads(w, r, n, after)
    BY CapReadLoop, Zenon
  <1>5. \A i \in 1 .. n : At(w, a + Len(buf[i - 1]), appendStringField(caps[i]))
    BY <1>1, <1>3, ClaimFieldsAt, Zenon
  <1>6. /\ \A i \in 0 .. n : buf[i] \in Seq(Nat)
        /\ buf[0] = <<>> /\ CapFields(caps) = buf[n]
        /\ \A i \in 1 .. n : buf[i] = buf[i - 1] \o appendStringField(caps[i])
    BY <1>1, <1>3, Zenon DEF CapBuffers
  <1>7. /\ after[0] = [r EXCEPT !.got = <<>>] /\ \A i \in 0 .. n : after[i] \in CapReaders
        /\ \A i \in 1 .. n : after[i] = NextClaim(w, after[i - 1])
        /\ ReadCaps(w, r, n) = after[n]
    BY <1>4, Zenon DEF CapReads
  <1>8. MaxCapLen \in Nat
    BY CodecAssumption
  <1>9. ASSUME NEW i \in 1 .. n, after[i - 1] = Reader(a + Len(buf[i - 1]), prefix(i - 1))
        PROVE  IF Len(caps[i]) <= MaxCapLen
               THEN after[i] = Reader(a + Len(buf[i]), prefix(i)) ELSE after[i].ok = FALSE
    <2> DEFINE x == after[i - 1]
               f == readStringField(w, x, MaxCapLen)
               field == appendStringField(caps[i])
    <2>1. i - 1 \in 0 .. n /\ i \in 0 .. n
      OBVIOUS
    <2>2. buf[i - 1] \in Seq(Nat) /\ x \in CapReaders /\ after[i] = NextClaim(w, x)
      BY <1>6, <1>7, <2>1, Zenon
    <2>3. PICK m \in Nat : m = Len(buf[i - 1])
      BY <2>2
    <2>4. x.ok = TRUE /\ x.at = a + m /\ x.got = prefix(i - 1) /\ x.at \in Nat
      BY <1>9, <2>3 DEF Reader
    <2>5. field \in Seq(Nat) /\ At(w, x.at, field)
      BY <1>1, <1>2, <1>5, <2>3, <2>4, FieldType, Zenon
    <2>6. after[i] = [ok |-> f.ok, at |-> f.at, got |-> Append(x.got, f.got)]
      BY <2>2, ClaimIs, Zenon
    <2>7. Len(caps[i]) < 2 ^ LenWidth /\ caps[i] \in Seq(Nat)
      BY <1>1, <1>2, Zenon
    <2> HIDE DEF x
    <2>8. f = IF Len(caps[i]) <= MaxCapLen THEN Reader(x.at + Len(field), caps[i]) ELSE Failed
      BY <1>8, <2>4, <2>5, <2>7, StringAt, Zenon
    <2> HIDE DEF f, field
    <2>9. CASE Len(caps[i]) <= MaxCapLen
      <3>1. f = Reader(x.at + Len(field), caps[i])
        BY <2>8, <2>9, Zenon
      <3>2. f.ok = TRUE /\ f.at = x.at + Len(field) /\ f.got = caps[i]
        BY <3>1 DEF Reader
      <3>3. x.at + Len(field) = a + Len(buf[i])
        <4>1. Len(buf[i]) = Len(buf[i - 1]) + Len(field)
          <5>1. buf[i] = buf[i - 1] \o field
            BY <1>6, Zenon DEF field
          <5>2. Len(buf[i - 1] \o field) = Len(buf[i - 1]) + Len(field)
            <6>1. buf[i - 1] \in Seq(Nat)
              BY <2>2, Zenon
            <6>2. field \in Seq(Nat)
              BY <2>5, Zenon
            <6> QED BY <6>1, <6>2, Joined
          <5> QED BY <5>1, <5>2, Zenon
        <4>2. Len(field) \in Nat
          BY <2>5
        <4> QED BY <2>3, <2>4, <4>1, <4>2
      <3>4. Append(prefix(i - 1), caps[i]) = prefix(i)
        <4> DEFINE T == Seq(Nat)
        <4>1. \A j \in 1 .. n : caps[j] \in T
          BY <1>2
        <4> HIDE DEF T
        <4>2. prefix(i - 1) \in [1 .. i - 1 -> T] /\ i - 1 \in Nat /\ caps[i] \in T
          BY <4>1
        <4>3. prefix(i - 1) \in Seq(T) /\ Len(prefix(i - 1)) = i - 1
          <5> HIDE DEF prefix
          <5> QED BY <4>2, SequenceOf
        <4>4. ASSUME NEW s \in Seq(T), NEW e \in T, Len(s) = i - 1
              PROVE  Append(s, e) = [j \in 1 .. i |-> IF j < i THEN s[j] ELSE e]
          <5>1. Append(s, e) \in Seq(T) /\ Len(Append(s, e)) = i /\ i \in Nat
            BY <4>2, <4>4
          <5>2. ASSUME NEW j \in 1 .. i PROVE Append(s, e)[j] = IF j < i THEN s[j] ELSE e
            BY <4>2, <4>4
          <5>3. ASSUME NEW t \in Seq(T), Len(t) = i PROVE t = [j \in 1 .. i |-> t[j]]
            BY <5>3
          <5>4. Append(s, e) = [j \in 1 .. i |-> Append(s, e)[j]]
            BY <5>1, <5>3, Zenon
          <5> QED BY <5>2, <5>4, Zenon
        <4>5. Append(prefix(i - 1), caps[i]) = [j \in 1 .. i |-> IF j < i THEN prefix(i - 1)[j] ELSE caps[i]]
          <5> HIDE DEF prefix
          <5> QED BY <4>2, <4>3, <4>4, Zenon
        <4>6. ASSUME NEW j \in 1 .. i PROVE (IF j < i THEN prefix(i - 1)[j] ELSE caps[i]) = caps[j]
          OBVIOUS
        <4> QED BY <4>5, <4>6, Zenon
      <3>5. after[i] = [ok |-> TRUE, at |-> a + Len(buf[i]), got |-> prefix(i)]
        BY <2>4, <2>6, <3>2, <3>3, <3>4, Zenon
      <3> QED BY <2>9, <3>5, Zenon DEF Reader
    <2>10. CASE ~(Len(caps[i]) <= MaxCapLen)
      <3>1. f = Failed
        BY <2>8, <2>10, Zenon
      <3>2. f.ok = FALSE
        BY <3>1 DEF Failed
      <3>3. after[i].ok = FALSE
        BY <2>6, <3>2
      <3> QED BY <2>10, <3>3, Zenon
    <2> QED BY <2>9, <2>10, Zenon
  <1>10. ASSUME NEW i \in 1 .. n, after[i - 1].ok = FALSE PROVE after[i].ok = FALSE
    <2>1. i - 1 \in 0 .. n
      OBVIOUS
    <2>2. after[i - 1] \in CapReaders /\ after[i] = NextClaim(w, after[i - 1])
      BY <1>7, <2>1, Zenon
    <2>3. readStringField(w, after[i - 1], MaxCapLen) = Failed
      BY <1>10, FailedStays, Zenon
    <2>4. after[i] = [ok |-> Failed.ok, at |-> Failed.at, got |-> Append(after[i - 1].got, Failed.got)]
      BY <2>2, <2>3, ClaimIs, Zenon
    <2> QED BY <2>4 DEF Failed
  <1>11. after[0] = Reader(a + Len(buf[0]), prefix(0))
    <2>1. after[0] = [ok |-> r.ok, at |-> r.at, got |-> <<>>]
      BY <1>7, OtherGot, Zenon DEF Readers
    <2>2. prefix(0) = <<>> /\ Len(buf[0]) = 0 /\ a + 0 = a
      BY <1>6
    <2> QED BY <1>1, <2>1, <2>2, Zenon DEF Reader
  <1> HIDE DEF prefix
  <1> DEFINE Done(i) == IF Short(i) THEN after[i] = Reader(a + Len(buf[i]), prefix(i))
                        ELSE after[i].ok = FALSE
             S == {i \in Nat : i <= n => Done(i)}
  <1>12. 0 \in S
    <2>1. Short(0)
      OBVIOUS
    <2> HIDE DEF Short
    <2>2. Done(0)
      BY <1>11, <2>1, Zenon
    <2> QED BY <2>2
  <1>13. ASSUME NEW i \in Nat, i \in S PROVE i + 1 \in S
    <2> HIDE DEF Done
    <2> SUFFICES ASSUME i + 1 <= n PROVE Done(i + 1)
      OBVIOUS
    <2>1. i + 1 \in 1 .. n /\ (i + 1) - 1 = i /\ i <= n
      OBVIOUS
    <2>2. Short(i + 1) <=> Short(i) /\ Len(caps[i + 1]) <= MaxCapLen
      <3>1. \A j \in 1 .. i + 1 : j \in 1 .. i \/ j = i + 1
        OBVIOUS
      <3>2. i + 1 \in 1 .. i + 1 /\ \A j \in 1 .. i : j \in 1 .. i + 1
        OBVIOUS
      <3> QED BY <3>1, <3>2, Zenon
    <2>0. Done(i)
      BY <1>13, <2>1
    <2>3. IF Short(i) THEN after[i] = Reader(a + Len(buf[i]), prefix(i)) ELSE after[i].ok = FALSE
      BY <2>0, Zenon DEF Done
    <2> HIDE DEF Short, S
    <2>4. CASE Short(i)
      <3>1. after[(i + 1) - 1] = Reader(a + Len(buf[(i + 1) - 1]), prefix((i + 1) - 1))
        BY <2>1, <2>3, <2>4, Zenon
      <3>2. IF Len(caps[i + 1]) <= MaxCapLen
            THEN after[i + 1] = Reader(a + Len(buf[i + 1]), prefix(i + 1)) ELSE after[i + 1].ok = FALSE
        BY <1>9, <2>1, <3>1, Zenon
      <3> QED BY <2>2, <2>4, <3>2, Zenon DEF Done
    <2>5. CASE ~Short(i)
      <3>1. after[(i + 1) - 1].ok = FALSE
        BY <2>1, <2>3, <2>5, Zenon
      <3>2. after[i + 1].ok = FALSE
        BY <1>10, <2>1, <3>1, Zenon
      <3> QED BY <2>2, <2>5, <3>2, Zenon DEF Done
    <2> QED BY <2>4, <2>5, Zenon
  <1>14. \A i \in Nat : i \in S
    <2> HIDE DEF S
    <2> QED BY <1>12, <1>13, Induction, Zenon
  <1>15. IF Short(n) THEN after[n] = Reader(a + Len(buf[n]), prefix(n)) ELSE after[n].ok = FALSE
    <2> HIDE DEF Done
    <2>1. n \in S /\ n <= n
      BY <1>14
    <2>2. Done(n)
      BY <2>1
    <2> QED BY <2>2, Zenon DEF Done
  <1>16. prefix(n) = caps
    BY <1>1 DEF prefix
  <1>17. CapFields(caps) \in Seq(Nat)
    <2>1. n \in 0 .. n
      OBVIOUS
    <2> QED BY <1>6, <2>1, Zenon
  <1>18. Short(n) <=> \A i \in 1 .. Len(caps) : Len(caps[i]) <= MaxCapLen
    BY <1>1, Zenon
  <1> HIDE DEF Short
  <1> QED BY <1>1, <1>6, <1>7, <1>15, <1>16, <1>17, <1>18, Zenon

(* int64 to uint64 and back. *)
LEMMA IntsReturn ==
  ASSUME NEW v \in Ints
  PROVE  PutInt(v) \in Nat /\ ReadInt(PutInt(v)) = v
  <1>1. PICK L \in Nat : L > 1 /\ 2 ^ (W - 1) = 2 * L /\ 2 ^ W = 4 * L
    BY WidthAssumption
  <1>2. v \in Int /\ -(2 * L) <= v /\ v < 2 * L
    BY <1>1 DEF Ints
  <1>3. ASSUME NEW x \in Int, NEW P \in Nat \ {0}, P <= x, x < 2 * P PROVE x % P = x - P
    BY <1>3
  <1>4. ASSUME NEW x \in Int, NEW P \in Nat \ {0}, -P <= x, x < 0 PROVE x % P = x + P
    BY <1>4
  <1> DEFINE P == 4 * L
  <1>5. P \in Nat \ {0} /\ PutInt(v) = v % P /\ \A u : ReadInt(u) = ((u + 2 * L) % P) - 2 * L
    BY <1>1 DEF PutInt, ReadInt, UInt, SInt
  <1>6. CASE v >= 0
    <2>1. v % P = v
      <3>1. v \in Nat /\ v < P
        BY <1>1, <1>2, <1>6
      <3> QED BY <1>5, <3>1, ModExact
    <2>2. (v + 2 * L) % P = v + 2 * L
      <3>1. v + 2 * L \in Nat /\ v + 2 * L < P
        BY <1>1, <1>2, <1>6
      <3> HIDE DEF P
      <3> QED BY <1>5, <3>1, ModExact
    <2> HIDE DEF P
    <2> QED BY <1>2, <1>5, <1>6, <2>1, <2>2
  <1>7. CASE v < 0
    <2>1. v % P = v + P
      <3>1. -P <= v
        BY <1>1, <1>2
      <3> HIDE DEF P
      <3> QED BY <1>2, <1>4, <1>5, <1>7, <3>1
    <2>2. ((v + P) + 2 * L) % P = v + 2 * L
      <3>1. P <= (v + P) + 2 * L /\ (v + P) + 2 * L < 2 * P /\ (v + P) + 2 * L \in Int
        BY <1>1, <1>2, <1>7
      <3>2. ((v + P) + 2 * L) % P = ((v + P) + 2 * L) - P
        <4> HIDE DEF P
        <4> QED BY <1>3, <1>5, <3>1
      <3> QED BY <1>2, <3>2
    <2>3. v + P \in Nat
      BY <1>1, <1>2
    <2> HIDE DEF P
    <2> QED BY <1>2, <1>5, <2>1, <2>2, <2>3
  <1> QED BY <1>2, <1>6, <1>7

(* The parts of an encoded descriptor, and the wire up to each of them. *)
HeadPart(d) == <<d.dtype, Len(d.shape)>>
ShapePart(d) == [i \in Dims(d) |-> PutInt(d.shape[i])]
StridesPart(d) == [i \in Dims(d) |-> PutInt(d.strides[i])]
SpanPart(d) == <<d.offset, d.size>>
ToShape(d) == HeadPart(d) \o ShapePart(d)
ToStrides(d) == ToShape(d) \o StridesPart(d)
ToName(d) == ToStrides(d) \o appendStringField(d.shm)
ToSpan(d) == ToName(d) \o SpanPart(d)
ToNumCaps(d) == ToSpan(d) \o <<Len(d.caps)>>
ToCaps(d) == ToNumCaps(d) \o CapFields(d.caps)

(* Encode has encoded d, with lengths that fit. *)
Encoded(d) == Encode(d) # <<>> /\ \A s \in Strings(d) : Len(s) < 2 ^ LenWidth

(* What the descriptor is made of. *)
LEMMA DescriptorType ==
  ASSUME NEW d \in Descriptors, Encoded(d)
  PROVE  /\ d.dtype \in Nat /\ d.offset \in Nat /\ d.size \in Nat
         /\ d.shape \in Seq(Ints) /\ d.strides \in Seq(Ints)
         /\ Len(d.shape) \in 1 .. MaxDims /\ Len(d.shape) \in Nat /\ Len(d.strides) = Len(d.shape)
         /\ d.caps \in Seq(Seq(Nat)) /\ Len(d.caps) \in Nat /\ Len(d.caps) <= MaxCaps
         /\ \A i \in 1 .. Len(d.caps) : Len(d.caps[i]) < 2 ^ LenWidth
         /\ d.shm \in Seq(Nat) /\ Len(d.shm) < 2 ^ LenWidth
         /\ d.digest \in Seq(Nat) /\ Len(d.digest) < 2 ^ LenWidth
         /\ Encode(d) = ToCaps(d) \o appendStringField(d.digest)
  <1>1. d \in [dtype : Nat, shape : Seq(Ints), strides : Seq(Ints), shm : Seq(Nat),
               offset : Nat, size : Nat, caps : Seq(Seq(Nat)), digest : Seq(Nat)]
    BY CodecAssumption, Zenon
  <1>2. /\ d.dtype \in Nat /\ d.offset \in Nat /\ d.size \in Nat
        /\ d.shape \in Seq(Ints) /\ d.strides \in Seq(Ints) /\ d.caps \in Seq(Seq(Nat))
        /\ d.shm \in Seq(Nat) /\ d.digest \in Seq(Nat)
    BY <1>1
  <1>3. Len(d.shape) \in 1 .. MaxDims /\ Len(d.strides) = Len(d.shape) /\ Len(d.caps) <= MaxCaps
    BY Zenon DEF Encoded, Encode
  <1>4. Encode(d) = ToCaps(d) \o appendStringField(d.digest)
    <2> USE DEF ToCaps, ToNumCaps, ToSpan, ToName, ToStrides, ToShape, HeadPart, ShapePart, StridesPart, SpanPart
    <2> QED BY <1>3, Zenon DEF Encode
  <1>5. Len(d.shape) \in Nat /\ Len(d.caps) \in Nat /\ DOMAIN d.caps = 1 .. Len(d.caps)
    BY <1>2
  <1>6. d.shm \in Strings(d) /\ d.digest \in Strings(d) /\ \A i \in DOMAIN d.caps : d.caps[i] \in Strings(d)
    BY Zenon DEF Strings, Range
  <1>7. /\ Len(d.shm) < 2 ^ LenWidth /\ Len(d.digest) < 2 ^ LenWidth
        /\ \A i \in 1 .. Len(d.caps) : Len(d.caps[i]) < 2 ^ LenWidth
    BY <1>5, <1>6, Zenon DEF Encoded
  <1> QED BY <1>2, <1>3, <1>4, <1>5, <1>7, Zenon

(* The claims' fields are numbers. *)
LEMMA CapFieldsType ==
  ASSUME NEW caps \in Seq(Seq(Nat)), \A i \in 1 .. Len(caps) : Len(caps[i]) < 2 ^ LenWidth
  PROVE  CapFields(caps) \in Seq(Nat)
  <1>1. PICK buf : CapBuffers(caps, buf)
    BY CapLoop, Zenon
  <1>2. Len(caps) \in 0 .. Len(caps)
    OBVIOUS
  <1> QED BY <1>1, <1>2, Zenon DEF CapBuffers

(* The parts are sequences of numbers. *)
LEMMA PartsType ==
  ASSUME NEW d \in Descriptors, Encoded(d)
  PROVE  /\ HeadPart(d) \in Seq(Nat) /\ Len(HeadPart(d)) = 2
         /\ HeadPart(d)[1] = d.dtype /\ HeadPart(d)[2] = Len(d.shape)
         /\ ShapePart(d) \in Seq(Nat) /\ Len(ShapePart(d)) = Len(d.shape)
         /\ StridesPart(d) \in Seq(Nat) /\ Len(StridesPart(d)) = Len(d.shape)
         /\ \A i \in 1 .. Len(d.shape) : /\ ReadInt(ShapePart(d)[i]) = d.shape[i]
                                         /\ ReadInt(StridesPart(d)[i]) = d.strides[i]
         /\ appendStringField(d.shm) \in Seq(Nat) /\ appendStringField(d.digest) \in Seq(Nat)
         /\ SpanPart(d) \in Seq(Nat) /\ Len(SpanPart(d)) = 2
         /\ SpanPart(d)[1] = d.offset /\ SpanPart(d)[2] = d.size
         /\ <<Len(d.caps)>> \in Seq(Nat) /\ Len(<<Len(d.caps)>>) = 1 /\ <<Len(d.caps)>>[1] = Len(d.caps)
         /\ CapFields(d.caps) \in Seq(Nat)
  <1> DEFINE n == Len(d.shape)
  <1>1. /\ d.dtype \in Nat /\ d.offset \in Nat /\ d.size \in Nat
        /\ d.shape \in Seq(Ints) /\ d.strides \in Seq(Ints) /\ n \in Nat /\ Len(d.strides) = n
        /\ Len(d.caps) \in Nat /\ d.caps \in Seq(Seq(Nat))
        /\ d.shm \in Seq(Nat) /\ Len(d.shm) < 2 ^ LenWidth
        /\ d.digest \in Seq(Nat) /\ Len(d.digest) < 2 ^ LenWidth
        /\ \A i \in 1 .. Len(d.caps) : Len(d.caps[i]) < 2 ^ LenWidth
    BY DescriptorType, Zenon
  <1>2. /\ HeadPart(d) \in Seq(Nat) /\ Len(HeadPart(d)) = 2
        /\ HeadPart(d)[1] = d.dtype /\ HeadPart(d)[2] = n
    BY <1>1 DEF HeadPart
  <1>3. /\ SpanPart(d) \in Seq(Nat) /\ Len(SpanPart(d)) = 2
        /\ SpanPart(d)[1] = d.offset /\ SpanPart(d)[2] = d.size
    BY <1>1 DEF SpanPart
  <1>4. ASSUME NEW k \in Nat PROVE <<k>> \in Seq(Nat) /\ Len(<<k>>) = 1 /\ <<k>>[1] = k
    OBVIOUS
  <1>5. appendStringField(d.shm) \in Seq(Nat) /\ appendStringField(d.digest) \in Seq(Nat)
    BY <1>1, FieldType, Zenon
  <1>6. CapFields(d.caps) \in Seq(Nat)
    BY <1>1, CapFieldsType, Zenon
  <1>7. ASSUME NEW s \in Seq(Ints), Len(s) = n
        PROVE  LET part == [i \in 1 .. n |-> PutInt(s[i])]
               IN  /\ part \in Seq(Nat) /\ Len(part) = n
                   /\ \A i \in 1 .. n : ReadInt(part[i]) = s[i]
    <2> DEFINE part == [i \in 1 .. n |-> PutInt(s[i])]
    <2>1. DOMAIN s = 1 .. n
      BY <1>1, <1>7
    <2>2. \A i \in 1 .. n : s[i] \in Ints
      BY <2>1, ElementsIn, Zenon
    <2>3. \A i \in 1 .. n : PutInt(s[i]) \in Nat /\ ReadInt(PutInt(s[i])) = s[i]
      BY <2>2, IntsReturn, Zenon
    <2>4. part \in [1 .. n -> Nat]
      BY <2>3, Zenon
    <2>5. part \in Seq(Nat) /\ Len(part) = n
      <3> HIDE DEF part
      <3> QED BY <1>1, <2>4, SequenceOf, Zenon
    <2> QED BY <2>3, <2>5, Zenon
  <1>8. ShapePart(d) = [i \in 1 .. n |-> PutInt(d.shape[i])] /\ StridesPart(d) = [i \in 1 .. n |-> PutInt(d.strides[i])]
    BY Zenon DEF ShapePart, StridesPart, Dims
  <1>9. /\ ShapePart(d) \in Seq(Nat) /\ Len(ShapePart(d)) = n
        /\ \A i \in 1 .. n : ReadInt(ShapePart(d)[i]) = d.shape[i]
    BY <1>1, <1>7, <1>8, Zenon
  <1>10. /\ StridesPart(d) \in Seq(Nat) /\ Len(StridesPart(d)) = n
         /\ \A i \in 1 .. n : ReadInt(StridesPart(d)[i]) = d.strides[i]
    BY <1>1, <1>7, <1>8, Zenon
  <1> QED BY <1>1, <1>2, <1>3, <1>4, <1>5, <1>6, <1>9, <1>10, Zenon

(* The two halves of what the wire starts with. *)
LEMMA Peeled ==
  ASSUME NEW w \in Seq(Nat), NEW h \in Seq(Nat), NEW p \in Seq(Nat), At(w, 0, h \o p)
  PROVE  At(w, 0, h) /\ At(w, Len(h), p)
  <1>1. 0 \in Nat /\ 0 + Len(h) = Len(h)
    OBVIOUS
  <1> QED BY <1>1, AtJoined

(* Where each part stands on the wire. *)
LEMMA PartsAt ==
  ASSUME NEW d \in Descriptors, Encoded(d)
  PROVE  LET w == Encode(d) IN
         /\ w \in Seq(Nat)
         /\ At(w, 0, HeadPart(d)) /\ At(w, 2, ShapePart(d))
         /\ At(w, Len(ToShape(d)), StridesPart(d))
         /\ At(w, Len(ToStrides(d)), appendStringField(d.shm))
         /\ At(w, Len(ToName(d)), SpanPart(d))
         /\ At(w, Len(ToSpan(d)), <<Len(d.caps)>>)
         /\ At(w, Len(ToNumCaps(d)), CapFields(d.caps))
         /\ At(w, Len(ToCaps(d)), appendStringField(d.digest))
         /\ Len(ToShape(d)) \in Nat /\ Len(ToStrides(d)) \in Nat /\ Len(ToName(d)) \in Nat
         /\ Len(ToSpan(d)) \in Nat /\ Len(ToNumCaps(d)) \in Nat /\ Len(ToCaps(d)) \in Nat
         /\ Len(ToShape(d)) = 2 + Len(ShapePart(d))
         /\ Len(ToStrides(d)) = Len(ToShape(d)) + Len(StridesPart(d))
         /\ Len(ToName(d)) = Len(ToStrides(d)) + Len(appendStringField(d.shm))
         /\ Len(ToSpan(d)) = Len(ToName(d)) + Len(SpanPart(d))
         /\ Len(ToNumCaps(d)) = Len(ToSpan(d)) + Len(<<Len(d.caps)>>)
         /\ Len(ToCaps(d)) = Len(ToNumCaps(d)) + Len(CapFields(d.caps))
         /\ Len(w) = Len(ToCaps(d)) + Len(appendStringField(d.digest))
  <1> DEFINE w == Encode(d)
  <1>1. ASSUME NEW h \in Seq(Nat), NEW p \in Seq(Nat)
        PROVE  h \o p \in Seq(Nat) /\ Len(h \o p) = Len(h) + Len(p) /\ Len(h \o p) \in Nat
    OBVIOUS
  <1>2. /\ HeadPart(d) \in Seq(Nat) /\ Len(HeadPart(d)) = 2
        /\ ShapePart(d) \in Seq(Nat) /\ StridesPart(d) \in Seq(Nat)
        /\ appendStringField(d.shm) \in Seq(Nat) /\ appendStringField(d.digest) \in Seq(Nat)
        /\ SpanPart(d) \in Seq(Nat) /\ <<Len(d.caps)>> \in Seq(Nat) /\ CapFields(d.caps) \in Seq(Nat)
    BY PartsType, Zenon
  <1>3. w = ToCaps(d) \o appendStringField(d.digest)
    BY DescriptorType, Zenon
  <1>4. ToShape(d) \in Seq(Nat) /\ Len(ToShape(d)) = 2 + Len(ShapePart(d)) /\ Len(ToShape(d)) \in Nat
    <2>1. ToShape(d) \in Seq(Nat) /\ Len(ToShape(d)) = Len(HeadPart(d)) + Len(ShapePart(d)) /\ Len(ToShape(d)) \in Nat
      BY <1>1, <1>2, Zenon DEF ToShape
    <2> QED BY <1>2, <2>1, Zenon
  <1>5. /\ ToStrides(d) \in Seq(Nat) /\ Len(ToStrides(d)) = Len(ToShape(d)) + Len(StridesPart(d))
        /\ Len(ToStrides(d)) \in Nat
    BY <1>1, <1>2, <1>4, Zenon DEF ToStrides
  <1>6. /\ ToName(d) \in Seq(Nat) /\ Len(ToName(d)) = Len(ToStrides(d)) + Len(appendStringField(d.shm))
        /\ Len(ToName(d)) \in Nat
    BY <1>1, <1>2, <1>5, Zenon DEF ToName
  <1>7. ToSpan(d) \in Seq(Nat) /\ Len(ToSpan(d)) = Len(ToName(d)) + Len(SpanPart(d)) /\ Len(ToSpan(d)) \in Nat
    BY <1>1, <1>2, <1>6, Zenon DEF ToSpan
  <1>8. /\ ToNumCaps(d) \in Seq(Nat) /\ Len(ToNumCaps(d)) = Len(ToSpan(d)) + Len(<<Len(d.caps)>>)
        /\ Len(ToNumCaps(d)) \in Nat
    BY <1>1, <1>2, <1>7, Zenon DEF ToNumCaps
  <1>9. /\ ToCaps(d) \in Seq(Nat) /\ Len(ToCaps(d)) = Len(ToNumCaps(d)) + Len(CapFields(d.caps))
        /\ Len(ToCaps(d)) \in Nat
    BY <1>1, <1>2, <1>8, Zenon DEF ToCaps
  <1>10. w \in Seq(Nat) /\ Len(w) = Len(ToCaps(d)) + Len(appendStringField(d.digest))
    <2>1. /\ ToCaps(d) \o appendStringField(d.digest) \in Seq(Nat)
          /\ Len(ToCaps(d) \o appendStringField(d.digest)) = Len(ToCaps(d)) + Len(appendStringField(d.digest))
      BY <1>1, <1>2, <1>9, Zenon
    <2> HIDE DEF w
    <2> QED BY <1>3, <2>1, Zenon
  <1> HIDE DEF w
  <1>11. At(w, 0, ToCaps(d) \o appendStringField(d.digest))
    BY <1>3, <1>10, AtStart, Zenon
  <1>12. At(w, 0, ToCaps(d)) /\ At(w, Len(ToCaps(d)), appendStringField(d.digest))
    BY <1>2, <1>9, <1>10, <1>11, Peeled, Zenon
  <1>13. At(w, 0, ToNumCaps(d)) /\ At(w, Len(ToNumCaps(d)), CapFields(d.caps))
    BY <1>2, <1>8, <1>10, <1>12, Peeled, Zenon DEF ToCaps
  <1>14. At(w, 0, ToSpan(d)) /\ At(w, Len(ToSpan(d)), <<Len(d.caps)>>)
    BY <1>2, <1>7, <1>10, <1>13, Peeled, Zenon DEF ToNumCaps
  <1>15. At(w, 0, ToName(d)) /\ At(w, Len(ToName(d)), SpanPart(d))
    BY <1>2, <1>6, <1>10, <1>14, Peeled, Zenon DEF ToSpan
  <1>16. At(w, 0, ToStrides(d)) /\ At(w, Len(ToStrides(d)), appendStringField(d.shm))
    BY <1>2, <1>5, <1>10, <1>15, Peeled, Zenon DEF ToName
  <1>17. At(w, 0, ToShape(d)) /\ At(w, Len(ToShape(d)), StridesPart(d))
    BY <1>2, <1>4, <1>10, <1>16, Peeled, Zenon DEF ToStrides
  <1>18. At(w, 0, HeadPart(d)) /\ At(w, 2, ShapePart(d))
    BY <1>2, <1>10, <1>17, Peeled, Zenon DEF ToShape
  <1>19. /\ w \in Seq(Nat)
         /\ At(w, 0, HeadPart(d)) /\ At(w, 2, ShapePart(d))
         /\ At(w, Len(ToShape(d)), StridesPart(d))
         /\ At(w, Len(ToStrides(d)), appendStringField(d.shm))
         /\ At(w, Len(ToName(d)), SpanPart(d))
         /\ At(w, Len(ToSpan(d)), <<Len(d.caps)>>)
         /\ At(w, Len(ToNumCaps(d)), CapFields(d.caps))
         /\ At(w, Len(ToCaps(d)), appendStringField(d.digest))
         /\ Len(w) = Len(ToCaps(d)) + Len(appendStringField(d.digest))
    BY <1>10, <1>12, <1>13, <1>14, <1>15, <1>16, <1>17, <1>18, Zenon
  <1> USE DEF w
  <1> QED BY <1>4, <1>5, <1>6, <1>7, <1>8, <1>9, <1>19, Zenon

(* The reader r has returned s, the last thing before position b, which    *)
(* stands at a.                                                            *)
Returned(r, b, s) == r = Reader(b, s)
Ends(a, s, b) == b = a + Len(s)

(* The fields of such a reader. *)
LEMMA ReturnedIs ==
  ASSUME NEW r, NEW b, NEW s, Returned(r, b, s)
  PROVE  r.ok = TRUE /\ r.at = b /\ r.got = s
  BY DEF Returned, Reader

(* The read of a part that stands next. *)
LEMMA NextRead ==
  ASSUME NEW w \in Seq(Nat), NEW s \in Seq(Nat), NEW a \in Nat, At(w, a, s),
         NEW r, NEW g, Returned(r, a, g), NEW b, Ends(a, s, b)
  PROVE  Returned(ReadFull(w, r, Len(s)), b, s)
  <1>1. r.ok = TRUE /\ r.at = a
    BY ReturnedIs, Zenon
  <1>2. ReadFull(w, r, Len(s)) = Reader(r.at + Len(s), s)
    BY <1>1, ReadAt, Zenon
  <1> QED BY <1>1, <1>2 DEF Returned, Ends

(* The same of a string within its limit. *)
LEMMA NextString ==
  ASSUME NEW w \in Seq(Nat), NEW s \in Seq(Nat), Len(s) < 2 ^ LenWidth, NEW a \in Nat,
         At(w, a, appendStringField(s)), NEW r, NEW g, Returned(r, a, g), NEW max \in Nat,
         Len(s) <= max, NEW b, Ends(a, appendStringField(s), b)
  PROVE  Returned(readStringField(w, r, max), b, s)
  <1>1. r.ok = TRUE /\ r.at = a
    BY ReturnedIs, Zenon
  <1>2. At(w, r.at, appendStringField(s)) /\ r.at \in Nat
    BY <1>1
  <1>3. readStringField(w, r, max) =
          IF Len(s) <= max THEN Reader(r.at + Len(appendStringField(s)), s) ELSE Failed
    BY <1>1, <1>2, StringAt, Zenon
  <1> QED BY <1>1, <1>3 DEF Returned, Ends

(* A string that is too long. *)
LEMMA LongString ==
  ASSUME NEW w \in Seq(Nat), NEW s \in Seq(Nat), Len(s) < 2 ^ LenWidth, NEW a \in Nat,
         At(w, a, appendStringField(s)), NEW r, NEW g, Returned(r, a, g), NEW max \in Nat,
         ~(Len(s) <= max)
  PROVE  readStringField(w, r, max).ok = FALSE
  <1>1. r.ok = TRUE /\ r.at = a
    BY ReturnedIs, Zenon
  <1>2. At(w, r.at, appendStringField(s)) /\ r.at \in Nat
    BY <1>1
  <1>3. readStringField(w, r, max) =
          IF Len(s) <= max THEN Reader(r.at + Len(appendStringField(s)), s) ELSE Failed
    BY <1>1, <1>2, StringAt, Zenon
  <1> QED BY <1>3 DEF Failed

(* The reads of the decoder on an encoded descriptor whose strings are     *)
(* within its limits.                                                      *)
ReadsBack(d) ==
    LET w == Encode(d) IN
    /\ Returned(readHead(w), 2, HeadPart(d))
    /\ Returned(readShape(w), Len(ToShape(d)), ShapePart(d))
    /\ Returned(readStrides(w), Len(ToStrides(d)), StridesPart(d))
    /\ Returned(readName(w), Len(ToName(d)), d.shm)
    /\ Returned(readSpan(w), Len(ToSpan(d)), SpanPart(d))
    /\ Returned(readCaps(w), Len(ToCaps(d)), d.caps)
    /\ Returned(readDigest(w), Len(w), d.digest)

(* The strings of d are within the decoder's limits. *)
WithinLimits(d) ==
    /\ Len(d.shm) <= MaxShmNameLen /\ Len(d.digest) <= MaxDigestLen
    /\ \A i \in DOMAIN d.caps : Len(d.caps[i]) <= MaxCapLen

(* A failed read fails all those after it. *)
LEMMA FailedToTheEnd ==
  ASSUME NEW w
  PROVE  /\ readName(w).ok = FALSE => readDigest(w).ok = FALSE
         /\ readCaps(w).ok = FALSE => readDigest(w).ok = FALSE
  <1>1. readCaps(w).ok = FALSE => readDigest(w).ok = FALSE
    BY FailedStays, Zenon DEF readDigest
  <1>2. ASSUME readName(w).ok = FALSE PROVE readNumCaps(w).ok = FALSE
    <2>1. readSpan(w).ok = FALSE
      BY <1>2, FailedStays, Zenon DEF readSpan
    <2> QED BY <2>1, FailedStays, Zenon DEF readNumCaps
  <1>3. ASSUME readNumCaps(w).ok = FALSE PROVE readCaps(w).ok = FALSE
    <2>1. Failed.ok = FALSE
      BY DEF Failed
    <2>2. ~readNumCaps(w).ok
      BY <1>3
    <2>3. readCaps(w) = Failed
      BY <2>2, Zenon DEF readCaps
    <2> QED BY <2>1, <2>3, Zenon
  <1> QED BY <1>1, <1>2, <1>3, Zenon

(* The reads of the decoder on an encoded descriptor. *)
LEMMA DecoderReads ==
  ASSUME NEW d \in Descriptors, Encoded(d)
  PROVE  /\ WithinLimits(d) => ReadsBack(d)
         /\ ~WithinLimits(d) => readDigest(Encode(d)).ok = FALSE
  <1> DEFINE w == Encode(d)
             n == Len(d.shape)
             c == Len(d.caps)
  <1>1. /\ w \in Seq(Nat)
        /\ At(w, 0, HeadPart(d)) /\ At(w, 2, ShapePart(d))
        /\ At(w, Len(ToShape(d)), StridesPart(d))
        /\ At(w, Len(ToStrides(d)), appendStringField(d.shm))
        /\ At(w, Len(ToName(d)), SpanPart(d))
        /\ At(w, Len(ToSpan(d)), <<c>>)
        /\ At(w, Len(ToNumCaps(d)), CapFields(d.caps))
        /\ At(w, Len(ToCaps(d)), appendStringField(d.digest))
    BY PartsAt, Zenon
  <1>2. /\ Len(ToShape(d)) \in Nat /\ Len(ToStrides(d)) \in Nat /\ Len(ToName(d)) \in Nat
        /\ Len(ToSpan(d)) \in Nat /\ Len(ToNumCaps(d)) \in Nat /\ Len(ToCaps(d)) \in Nat
        /\ Ends(2, ShapePart(d), Len(ToShape(d)))
        /\ Ends(Len(ToShape(d)), StridesPart(d), Len(ToStrides(d)))
        /\ Ends(Len(ToStrides(d)), appendStringField(d.shm), Len(ToName(d)))
        /\ Ends(Len(ToName(d)), SpanPart(d), Len(ToSpan(d)))
        /\ Ends(Len(ToSpan(d)), <<c>>, Len(ToNumCaps(d)))
        /\ Len(ToCaps(d)) = Len(ToNumCaps(d)) + Len(CapFields(d.caps))
        /\ Ends(Len(ToCaps(d)), appendStringField(d.digest), Len(w))
    BY PartsAt, Zenon DEF Ends
  <1>3. /\ HeadPart(d) \in Seq(Nat) /\ Len(HeadPart(d)) = 2 /\ HeadPart(d)[2] = n
        /\ ShapePart(d) \in Seq(Nat) /\ Len(ShapePart(d)) = n
        /\ StridesPart(d) \in Seq(Nat) /\ Len(StridesPart(d)) = n
        /\ SpanPart(d) \in Seq(Nat) /\ Len(SpanPart(d)) = 2
        /\ <<c>> \in Seq(Nat) /\ Len(<<c>>) = 1 /\ <<c>>[1] = c
    BY PartsType, Zenon
  <1>4. /\ n \in 1 .. MaxDims /\ c <= MaxCaps /\ c \in Nat /\ d.caps \in Seq(Seq(Nat))
        /\ d.shm \in Seq(Nat) /\ Len(d.shm) < 2 ^ LenWidth
        /\ d.digest \in Seq(Nat) /\ Len(d.digest) < 2 ^ LenWidth
        /\ \A i \in 1 .. c : Len(d.caps[i]) < 2 ^ LenWidth
    BY DescriptorType, Zenon
  <1>5. MaxShmNameLen \in Nat /\ MaxDigestLen \in Nat /\ DOMAIN d.caps = 1 .. c
    BY <1>4, CodecAssumption
  <1> HIDE DEF w, n, c
  <1>6. Returned(readHead(w), 2, HeadPart(d))
    <2>1. 0 \in Nat /\ Ends(0, HeadPart(d), 2)
      BY <1>3 DEF Ends
    <2>2. Returned(Reader(0, <<>>), 0, <<>>)
      BY Zenon DEF Returned
    <2>3. Returned(ReadFull(w, Reader(0, <<>>), Len(HeadPart(d))), 2, HeadPart(d))
      BY <1>1, <1>3, <2>1, <2>2, NextRead, Zenon
    <2> QED BY <1>3, <2>3, Zenon DEF readHead
  <1>7. readHead(w).ok = TRUE /\ readHead(w).got[2] = n
    <2>1. readHead(w).ok = TRUE /\ readHead(w).got = HeadPart(d)
      BY <1>6, ReturnedIs, Zenon
    <2> QED BY <1>3, <2>1, Zenon
  <1>8. Returned(readShape(w), Len(ToShape(d)), ShapePart(d))
    <2>1. 2 \in Nat
      OBVIOUS
    <2>2. Returned(ReadFull(w, readHead(w), Len(ShapePart(d))), Len(ToShape(d)), ShapePart(d))
      BY <1>1, <1>2, <1>3, <1>6, <2>1, NextRead, Zenon
    <2>3. readHead(w).got[2] \in 1 .. MaxDims
      BY <1>4, <1>7, Zenon
    <2>4. readShape(w) = ReadFull(w, readHead(w), readHead(w).got[2])
      BY <1>7, <2>3, Zenon DEF readShape
    <2>5. readShape(w) = ReadFull(w, readHead(w), Len(ShapePart(d)))
      BY <1>3, <1>7, <2>4, Zenon
    <2> QED BY <2>2, <2>5, Zenon
  <1>9. Returned(readStrides(w), Len(ToStrides(d)), StridesPart(d))
    <2>1. Returned(ReadFull(w, readShape(w), Len(StridesPart(d))), Len(ToStrides(d)), StridesPart(d))
      BY <1>1, <1>2, <1>3, <1>8, NextRead, Zenon
    <2>2. readHead(w).got[2] = Len(StridesPart(d))
      BY <1>3, <1>7, Zenon
    <2> QED BY <2>1, <2>2, Zenon DEF readStrides
  <1>10. /\ Len(d.shm) <= MaxShmNameLen => Returned(readName(w), Len(ToName(d)), d.shm)
         /\ ~(Len(d.shm) <= MaxShmNameLen) => readName(w).ok = FALSE
    <2>1. Len(d.shm) <= MaxShmNameLen => Returned(readName(w), Len(ToName(d)), d.shm)
      BY <1>1, <1>2, <1>4, <1>5, <1>9, NextString, Zenon DEF readName
    <2>2. ~(Len(d.shm) <= MaxShmNameLen) => readName(w).ok = FALSE
      BY <1>1, <1>2, <1>4, <1>5, <1>9, LongString, Zenon DEF readName
    <2> QED BY <2>1, <2>2, Zenon
  <1>11. CASE ~(Len(d.shm) <= MaxShmNameLen)
    <2>1. readDigest(w).ok = FALSE
      BY <1>10, <1>11, FailedToTheEnd, Zenon
    <2> QED BY <1>11, <2>1, Zenon DEF WithinLimits, w
  <1>12. CASE Len(d.shm) <= MaxShmNameLen
    <2>1. Returned(readName(w), Len(ToName(d)), d.shm)
      BY <1>10, <1>12, Zenon
    <2>2. Returned(readSpan(w), Len(ToSpan(d)), SpanPart(d))
      <3>1. Returned(ReadFull(w, readName(w), Len(SpanPart(d))), Len(ToSpan(d)), SpanPart(d))
        BY <1>1, <1>2, <1>3, <2>1, NextRead, Zenon
      <3> QED BY <1>3, <3>1, Zenon DEF readSpan
    <2> DEFINE r == readNumCaps(w)
    <2>3. Returned(r, Len(ToNumCaps(d)), <<c>>)
      <3>1. Returned(ReadFull(w, readSpan(w), Len(<<c>>)), Len(ToNumCaps(d)), <<c>>)
        BY <1>1, <1>2, <1>3, <2>2, NextRead, Zenon
      <3> QED BY <1>3, <3>1, Zenon DEF readNumCaps
    <2>4. r.ok = TRUE /\ r.at = Len(ToNumCaps(d)) /\ r.got = <<c>>
      BY <2>3, ReturnedIs, Zenon
    <2>5. r \in Readers
      BY <1>2, <1>3, <2>3 DEF Reader, Readers, Returned
    <2>6. readCaps(w) = ReadCaps(w, r, c)
      <3>1. r.got[1] = c
        BY <1>3, <2>4, Zenon
      <3>2. r.got[1] <= MaxCaps
        BY <1>4, <3>1, Zenon
      <3>3. readCaps(w) = ReadCaps(w, r, r.got[1])
        BY <2>4, <3>2, Zenon DEF readCaps
      <3> QED BY <3>1, <3>3, Zenon
    <2> HIDE DEF r
    <2> DEFINE Short == \A i \in 1 .. c : Len(d.caps[i]) <= MaxCapLen
    <2>7. At(w, r.at, CapFields(d.caps))
      BY <1>1, <2>4, Zenon
    <2>8. /\ Short => ReadCaps(w, r, c) = Reader(r.at + Len(CapFields(d.caps)), d.caps)
          /\ ~Short => ReadCaps(w, r, c).ok = FALSE
      BY <1>1, <1>4, <2>4, <2>5, <2>7, ClaimsAt, Zenon DEF c
    <2>9. WithinLimits(d) <=> Short /\ Len(d.digest) <= MaxDigestLen
      BY <1>5, <1>12, Zenon DEF WithinLimits
    <2> HIDE DEF Short
    <2>10. CASE ~Short
      <3>1. readCaps(w).ok = FALSE
        BY <2>6, <2>8, <2>10, Zenon
      <3>2. readDigest(w).ok = FALSE
        BY <3>1, FailedToTheEnd, Zenon
      <3> QED BY <2>9, <2>10, <3>2, Zenon DEF w
    <2>11. CASE Short
      <3>1. Returned(readCaps(w), Len(ToCaps(d)), d.caps)
        BY <1>2, <2>4, <2>6, <2>8, <2>11, Zenon DEF Returned
      <3>2. /\ Len(d.digest) <= MaxDigestLen => Returned(readDigest(w), Len(w), d.digest)
            /\ ~(Len(d.digest) <= MaxDigestLen) => readDigest(w).ok = FALSE
        <4>1. Len(d.digest) <= MaxDigestLen => Returned(readDigest(w), Len(w), d.digest)
          BY <1>1, <1>2, <1>4, <1>5, <3>1, NextString, Zenon DEF readDigest
        <4>2. ~(Len(d.digest) <= MaxDigestLen) => readDigest(w).ok = FALSE
          BY <1>1, <1>2, <1>4, <1>5, <3>1, LongString, Zenon DEF readDigest
        <4> QED BY <4>1, <4>2, Zenon
      <3> QED BY <1>6, <1>8, <1>9, <2>1, <2>2, <2>9, <2>11, <3>1, <3>2, Zenon DEF ReadsBack, w
    <2> QED BY <2>10, <2>11, Zenon
  <1> QED BY <1>11, <1>12, Zenon

(* DecodeTensor returns the descriptor that was encoded, or an error if a  *)
(* string is longer than the decoder allows.                               *)
LEMMA DecodesBack ==
  ASSUME NEW d \in Descriptors, Encoded(d)
  PROVE  DecodeTensor(Encode(d)) = IF WithinLimits(d) THEN d ELSE Refused
  <1> DEFINE w == Encode(d)
             n == Len(d.shape)
             ints(r) == [i \in 1 .. readHead(w).got[2] |-> ReadInt(r.got[i])]
  <1>1. CASE ~WithinLimits(d)
    <2>1. readDigest(w).ok = FALSE
      BY <1>1, DecoderReads, Zenon
    <2>2. ~readDigest(w).ok
      BY <2>1
    <2> QED BY <1>1, <2>2, Zenon DEF DecodeTensor
  <1>2. CASE WithinLimits(d)
    <2>1. ReadsBack(d)
      BY <1>2, DecoderReads, Zenon
    <2>2. /\ Returned(readHead(w), 2, HeadPart(d))
          /\ Returned(readShape(w), Len(ToShape(d)), ShapePart(d))
          /\ Returned(readStrides(w), Len(ToStrides(d)), StridesPart(d))
          /\ Returned(readName(w), Len(ToName(d)), d.shm)
          /\ Returned(readSpan(w), Len(ToSpan(d)), SpanPart(d))
          /\ Returned(readCaps(w), Len(ToCaps(d)), d.caps)
          /\ Returned(readDigest(w), Len(w), d.digest)
      BY <2>1, Zenon DEF ReadsBack
    <2>3. /\ readHead(w).got = HeadPart(d) /\ readShape(w).got = ShapePart(d)
          /\ readStrides(w).got = StridesPart(d) /\ readName(w).got = d.shm
          /\ readSpan(w).got = SpanPart(d) /\ readCaps(w).got = d.caps
          /\ readDigest(w).got = d.digest /\ readDigest(w).ok = TRUE
      BY <2>2, ReturnedIs, Zenon
    <2>4. /\ HeadPart(d)[1] = d.dtype /\ HeadPart(d)[2] = n
          /\ SpanPart(d)[1] = d.offset /\ SpanPart(d)[2] = d.size
          /\ \A i \in 1 .. n : /\ ReadInt(ShapePart(d)[i]) = d.shape[i]
                               /\ ReadInt(StridesPart(d)[i]) = d.strides[i]
      BY PartsType, Zenon
    <2>5. d.shape \in Seq(Ints) /\ d.strides \in Seq(Ints) /\ Len(d.strides) = n
      BY DescriptorType, Zenon
    <2>6. ASSUME NEW S, NEW s \in Seq(S) PROVE s = [i \in 1 .. Len(s) |-> s[i]]
      OBVIOUS
    <2>7. d.shape = [i \in 1 .. n |-> d.shape[i]] /\ d.strides = [i \in 1 .. n |-> d.strides[i]]
      BY <2>5, <2>6, Zenon
    <2>8. readHead(w).got[2] = n /\ readHead(w).got[1] = d.dtype
      BY <2>3, <2>4, Zenon
    <2> HIDE DEF w, n
    <2>9. ints(readShape(w)) = d.shape
      <3>1. \A i \in 1 .. n : ReadInt(readShape(w).got[i]) = d.shape[i]
        BY <2>3, <2>4, Zenon
      <3> QED BY <2>7, <2>8, <3>1, Zenon
    <2>10. ints(readStrides(w)) = d.strides
      <3>1. \A i \in 1 .. n : ReadInt(readStrides(w).got[i]) = d.strides[i]
        BY <2>3, <2>4, Zenon
      <3> QED BY <2>7, <2>8, <3>1, Zenon
    <2>11. readSpan(w).got[1] = d.offset /\ readSpan(w).got[2] = d.size
      BY <2>3, <2>4, Zenon
    <2>12. DecodeTensor(w) =
             [dtype |-> readHead(w).got[1],
              shape |-> ints(readShape(w)), strides |-> ints(readStrides(w)),
              shm |-> readName(w).got,
              offset |-> readSpan(w).got[1], size |-> readSpan(w).got[2],
              caps |-> readCaps(w).got, digest |-> readDigest(w).got]
      BY <2>3, Zenon DEF DecodeTensor
    <2> HIDE DEF ints
    <2>13. DecodeTensor(w) =
             [dtype |-> d.dtype, shape |-> d.shape, strides |-> d.strides, shm |-> d.shm,
              offset |-> d.offset, size |-> d.size, caps |-> d.caps, digest |-> d.digest]
      BY <2>3, <2>8, <2>9, <2>10, <2>11, <2>12, Zenon
    <2>14. d \in [dtype : Nat, shape : Seq(Ints), strides : Seq(Ints), shm : Seq(Nat),
                  offset : Nat, size : Nat, caps : Seq(Seq(Nat)), digest : Seq(Nat)]
      BY CodecAssumption, Zenon
    <2>15. d = [dtype |-> d.dtype, shape |-> d.shape, strides |-> d.strides, shm |-> d.shm,
                offset |-> d.offset, size |-> d.size, caps |-> d.caps, digest |-> d.digest]
      BY <2>14
    <2> QED BY <1>2, <2>13, <2>15, Zenon DEF w
  <1> QED BY <1>1, <1>2, Zenon

(* The last descriptor offered is one that producers register. *)
LastOffered == last.err # "none" => last.desc \in Descriptors

(* That holds throughout. *)
LEMMA AlwaysOffered == Spec => []LastOffered
  <1>1. Init => LastOffered
    BY DEF Init, LastOffered, Nothing
  <1>2. LastOffered /\ [Next]_vars => LastOffered'
    <2> SUFFICES ASSUME LastOffered, [Next]_vars PROVE LastOffered'
      OBVIOUS
    <2>1. ASSUME NEW d \in Descriptors, Register(d) PROVE LastOffered'
      BY <2>1 DEF Register, Answer, LastOffered
    <2>2. ASSUME NEW g, NEW offset, Deregister(g, offset) PROVE LastOffered'
      BY <2>2 DEF Deregister, Nothing, LastOffered
    <2>3. CASE UNCHANGED vars
      BY <2>3 DEF vars, LastOffered
    <2> QED BY <2>1, <2>2, <2>3, Zenon DEF Next
  <1> QED BY <1>1, <1>2, PTL DEF Spec

(* DecodeTensor undoes Encode, for every descriptor of a transported type  *)
(* and all limits: what is decoded is the descriptor or an error.          *)
THEOREM DecodeUndoesEncode == Spec => []DecodeInvertsEncode
  <1>1. LastOffered => DecodeInvertsEncode
    <2> SUFFICES ASSUME last.desc \in Descriptors, Encode(last.desc) # <<>>,
                        \A s \in Strings(last.desc) : Len(s) < 2 ^ LenWidth
                 PROVE  DecodeTensor(Encode(last.desc)) = IF WithinLimits(last.desc) THEN last.desc ELSE Refused
      BY Zenon DEF LastOffered, DecodeInvertsEncode, WithinLimits
    <2>1. Encoded(last.desc)
      BY Zenon DEF Encoded
    <2> QED BY <2>1, DecodesBack, Zenon
  <1> QED BY <1>1, AlwaysOffered, PTL
-----------------------------------------------------------------------------
(* v is the first n units of the wire w. *)
Cut(w, v, n) ==
    /\ w \in Seq(Nat) /\ v \in Seq(Nat) /\ n \in Nat /\ n <= Len(w) /\ Len(v) = n
    /\ \A i \in 1 .. n : v[i] = w[i]

(* The reader x of v has failed, or is the reader y of w. *)
Agrees(x, y, n) == x.ok = FALSE \/ (x.ok = TRUE /\ y = x /\ x.at \in Nat /\ x.at <= n)

(* A read that failed agrees with any. *)
LEMMA FailedAgrees ==
  ASSUME NEW x, x = Failed, NEW y, NEW n
  PROVE  Agrees(x, y, n)
  BY DEF Failed, Agrees

(* What is read from the cut wire is what is read from the whole one. *)
LEMMA CutRead ==
  ASSUME NEW w, NEW v, NEW n, Cut(w, v, n), NEW x, NEW y, Agrees(x, y, n),
         NEW k, NEW j, x.ok = TRUE => j = k /\ k \in Nat
  PROVE  Agrees(ReadFull(v, x, k), ReadFull(w, y, j), n)
  <1>1. CASE x.ok = FALSE
    BY <1>1, FailedStays, FailedAgrees, Zenon
  <1>2. CASE x.ok = TRUE /\ ~(x.at + k <= Len(v))
    BY <1>2, ReadFullIs, FailedAgrees, Zenon
  <1>3. CASE x.ok = TRUE /\ x.at + k <= Len(v)
    <2>1. y = x /\ j = k /\ k \in Nat
      BY <1>3 DEF Agrees
    <2>2. PICK a \in Nat, m \in Nat : a = x.at /\ m = k
      BY <1>3, <2>1 DEF Agrees
    <2>3. /\ w \in Seq(Nat) /\ v \in Seq(Nat) /\ n \in Nat /\ n <= Len(w) /\ Len(v) = n
          /\ \A i \in 1 .. n : v[i] = w[i]
      BY DEF Cut
    <2>4. a + m <= n /\ a + m <= Len(w) /\ a + m \in Nat
      BY <1>3, <2>2, <2>3
    <2>13. ASSUME NEW s \in Seq(Nat), a + m <= Len(s)
          PROVE  SubSeq(s, a + 1, a + m) = [i \in 1 .. m |-> s[a + i]]
      BY <2>13
    <2>5. SubSeq(v, a + 1, a + m) = [i \in 1 .. m |-> v[a + i]]
      <3>1. v \in Seq(Nat) /\ a + m <= Len(v)
        BY <2>3, <2>4, Zenon
      <3> QED BY <2>13, <3>1, Zenon
    <2>6. SubSeq(w, a + 1, a + m) = [i \in 1 .. m |-> w[a + i]]
      BY <2>13, <2>3, <2>4, Zenon
    <2>7. \A i \in 1 .. m : a + i \in 1 .. n
      BY <2>3, <2>4
    <2>8. SubSeq(v, a + 1, a + m) = SubSeq(w, a + 1, a + m)
      BY <2>3, <2>5, <2>6, <2>7, Zenon
    <2>9. ReadFull(v, x, k) = Reader(a + m, SubSeq(v, a + 1, a + m))
      BY <1>3, <2>2, ReadFullIs, Zenon
    <2>10. ReadFull(w, y, j) = Reader(a + m, SubSeq(w, a + 1, a + m))
      BY <1>3, <2>1, <2>2, <2>4, ReadFullIs, Zenon
    <2>11. ReadFull(w, y, j) = ReadFull(v, x, k)
      BY <2>8, <2>9, <2>10, Zenon
    <2>12. ReadFull(v, x, k).ok = TRUE /\ ReadFull(v, x, k).at = a + m
      <3> DEFINE s == SubSeq(v, a + 1, a + m)
                 r == ReadFull(v, x, k)
      <3> HIDE DEF s, r
      <3>1. r = Reader(a + m, s)
        BY <2>9, Zenon DEF r, s
      <3>2. r.ok = TRUE /\ r.at = a + m
        BY <3>1 DEF Reader
      <3> QED BY <3>2, Zenon DEF r
    <2> QED BY <2>4, <2>11, <2>12, Zenon DEF Agrees
  <1> QED BY <1>1, <1>2, <1>3, Zenon DEF Agrees

(* The same of a string. *)
LEMMA CutString ==
  ASSUME NEW w, NEW v, NEW n, Cut(w, v, n), NEW x, NEW y, Agrees(x, y, n), NEW max
  PROVE  Agrees(readStringField(v, x, max), readStringField(w, y, max), n)
  <1> DEFINE p == ReadFull(v, x, 1)
             q == ReadFull(w, y, 1)
  <1>1. Agrees(p, q, n)
    <2>1. 1 \in Nat
      OBVIOUS
    <2> QED BY <2>1, CutRead, Zenon
  <1>2. readStringField(v, x, max) = IF p.ok /\ p.got[1] <= max THEN ReadFull(v, p, p.got[1]) ELSE Failed
    BY Zenon DEF readStringField
  <1>3. readStringField(w, y, max) = IF q.ok /\ q.got[1] <= max THEN ReadFull(w, q, q.got[1]) ELSE Failed
    BY Zenon DEF readStringField
  <1>4. p.ok = TRUE => p.got[1] \in Nat
    <2>1. CASE x.ok = FALSE
      <3>1. p = Failed
        BY <2>1, FailedStays, Zenon
      <3>2. p.ok = FALSE
        BY <3>1 DEF Failed
      <3> QED BY <3>2
    <2>2. CASE x.ok = TRUE
      <3>1. Stands(x) /\ v \in Seq(Nat)
        BY <2>2, Zenon DEF Stands, Agrees, Cut
      <3> QED BY <3>1, LengthRead, Zenon
    <2> QED BY <2>1, <2>2, Zenon DEF Agrees
  <1> HIDE DEF p, q
  <1>5. CASE p.ok = TRUE /\ p.got[1] <= max
    <2>1. p.ok = TRUE => q.got[1] = p.got[1] /\ p.got[1] \in Nat
      BY <1>1, <1>4 DEF Agrees
    <2>2. Agrees(ReadFull(v, p, p.got[1]), ReadFull(w, q, q.got[1]), n)
      BY <1>1, <2>1, CutRead, Zenon
    <2>3. q = p
      BY <1>1, <1>5 DEF Agrees
    <2>4. readStringField(v, x, max) = ReadFull(v, p, p.got[1])
      BY <1>2, <1>5, Zenon
    <2>5. readStringField(w, y, max) = ReadFull(w, q, q.got[1])
      BY <1>3, <1>5, <2>3, Zenon
    <2> QED BY <2>2, <2>4, <2>5, Zenon
  <1>6. CASE ~(p.ok = TRUE /\ p.got[1] <= max)
    <2>1. p.ok = TRUE \/ p.ok = FALSE
      BY <1>1, Zenon DEF Agrees
    <2>2. readStringField(v, x, max) = Failed
      <3>1. ~(p.ok /\ p.got[1] <= max)
        BY <1>6, <2>1
      <3> QED BY <1>2, <3>1, Zenon
    <2> QED BY <2>2, FailedAgrees, Zenon
  <1> QED BY <1>5, <1>6, Zenon

(* And of a claim. *)
LEMMA CutClaim ==
  ASSUME NEW w, NEW v, NEW n, Cut(w, v, n), NEW x \in CapReaders, NEW y \in CapReaders, Agrees(x, y, n)
  PROVE  Agrees(NextClaim(v, x), NextClaim(w, y), n)
  <1> DEFINE f == readStringField(v, x, MaxCapLen)
             g == readStringField(w, y, MaxCapLen)
  <1>1. Agrees(f, g, n)
    BY CutString, Zenon
  <1>2. w \in Seq(Nat) /\ v \in Seq(Nat)
    BY Zenon DEF Cut
  <1>3. NextClaim(v, x) = [ok |-> f.ok, at |-> f.at, got |-> Append(x.got, f.got)]
    BY <1>2, ClaimIs, Zenon
  <1>4. NextClaim(w, y) = [ok |-> g.ok, at |-> g.at, got |-> Append(y.got, g.got)]
    BY <1>2, ClaimIs, Zenon
  <1>5. x.ok = FALSE => f.ok = FALSE
    BY FailedStays, Zenon
  <1> HIDE DEF f, g
  <1>6. CASE f.ok = FALSE
    <2>1. NextClaim(v, x).ok = FALSE
      BY <1>3, <1>6
    <2> QED BY <2>1, Zenon DEF Agrees
  <1>7. CASE f.ok = TRUE
    <2>1. x = y /\ f = g /\ f.at \in Nat /\ f.at <= n
      BY <1>1, <1>5, <1>7 DEF Agrees
    <2>2. NextClaim(w, y) = NextClaim(v, x)
      BY <1>3, <1>4, <2>1, Zenon
    <2>3. NextClaim(v, x).ok = TRUE /\ NextClaim(v, x).at = f.at
      BY <1>3, <1>7
    <2> QED BY <2>1, <2>2, <2>3, Zenon DEF Agrees
  <1> QED BY <1>1, <1>6, <1>7, Zenon DEF Agrees

(* And of the loop over the claims. *)
LEMMA CutClaims ==
  ASSUME NEW w, NEW v, NEW n, Cut(w, v, n), NEW x \in Readers, Agrees(x, x, n), NEW k \in Nat
  PROVE  Agrees(ReadCaps(v, x, k), ReadCaps(w, x, k), n)
  <1>1. w \in Seq(Nat) /\ v \in Seq(Nat)
    BY Zenon DEF Cut
  <1>2. PICK p : CapReads(v, x, k, p)
    BY <1>1, CapReadLoop, Zenon
  <1>3. PICK q : CapReads(w, x, k, q)
    BY <1>1, CapReadLoop, Zenon
  <1>4. /\ p[0] = [x EXCEPT !.got = <<>>] /\ \A i \in 0 .. k : p[i] \in CapReaders
        /\ \A i \in 1 .. k : p[i] = NextClaim(v, p[i - 1])
        /\ ReadCaps(v, x, k) = p[k]
    BY <1>2, Zenon DEF CapReads
  <1>5. /\ q[0] = [x EXCEPT !.got = <<>>] /\ \A i \in 0 .. k : q[i] \in CapReaders
        /\ \A i \in 1 .. k : q[i] = NextClaim(w, q[i - 1])
        /\ ReadCaps(w, x, k) = q[k]
    BY <1>3, Zenon DEF CapReads
  <1> DEFINE S == {i \in Nat : i <= k => Agrees(p[i], q[i], n)}
  <1>6. 0 \in S
    <2>1. p[0] = [ok |-> x.ok, at |-> x.at, got |-> <<>>]
      BY <1>4, OtherGot, Zenon DEF Readers
    <2>2. p[0].ok = x.ok /\ p[0].at = x.at
      BY <2>1
    <2>3. q[0] = p[0]
      BY <1>4, <1>5, Zenon
    <2>4. Agrees(p[0], q[0], n)
      BY <2>2, <2>3, Zenon DEF Agrees
    <2> QED BY <2>4
  <1>7. ASSUME NEW i \in Nat, i \in S PROVE i + 1 \in S
    <2> SUFFICES ASSUME i + 1 <= k PROVE Agrees(p[i + 1], q[i + 1], n)
      OBVIOUS
    <2>1. i + 1 \in 1 .. k /\ (i + 1) - 1 = i /\ i \in 0 .. k /\ i <= k
      OBVIOUS
    <2>2. Agrees(p[i], q[i], n)
      BY <1>7, <2>1
    <2>3. p[i] \in CapReaders /\ q[i] \in CapReaders
      BY <1>4, <1>5, <2>1, Zenon
    <2>4. p[i + 1] = NextClaim(v, p[i]) /\ q[i + 1] = NextClaim(w, q[i])
      <3>1. p[i + 1] = NextClaim(v, p[(i + 1) - 1]) /\ q[i + 1] = NextClaim(w, q[(i + 1) - 1])
        BY <1>4, <1>5, <2>1, Zenon
      <3> QED BY <2>1, <3>1, Zenon
    <2>5. Agrees(NextClaim(v, p[i]), NextClaim(w, q[i]), n)
      BY <2>2, <2>3, CutClaim, Zenon
    <2> QED BY <2>4, <2>5, Zenon
  <1>8. \A i \in Nat : i \in S
    <2> HIDE DEF S
    <2> QED BY <1>6, <1>7, Induction
  <1>9. Agrees(p[k], q[k], n)
    BY <1>8
  <1> QED BY <1>4, <1>5, <1>9, Zenon

(* Nothing is decoded from the cut wire beyond its end. *)
LEMMA CutDecode ==
  ASSUME NEW w, NEW v, NEW n, Cut(w, v, n)
  PROVE  Agrees(readDigest(v), readDigest(w), n)
  <1>1. w \in Seq(Nat) /\ v \in Seq(Nat) /\ n \in Nat
    BY Zenon DEF Cut
  <1>2. Agrees(readHead(v), readHead(w), n)
    <2>1. Agrees(Reader(0, <<>>), Reader(0, <<>>), n)
      BY <1>1 DEF Reader, Agrees
    <2>2. 2 \in Nat
      OBVIOUS
    <2> QED BY <2>1, <2>2, CutRead, Zenon DEF readHead
  <1>3. /\ Agrees(readShape(v), readShape(w), n)
        /\ readShape(v).ok = TRUE => /\ readHead(v) = readHead(w)
                                     /\ readHead(v).got[2] \in Nat
    <2> DEFINE p == readHead(v)
               q == readHead(w)
    <2>1. CASE p.ok = TRUE /\ p.got[2] \in 1 .. MaxDims
      <3>1. q = p /\ q.got[2] = p.got[2]
        BY <1>2, <2>1 DEF Agrees
      <3>2. p.got[2] \in Nat
        BY <2>1, WidthAssumption
      <3>3. readShape(v) = ReadFull(v, p, p.got[2])
        BY <2>1, Zenon DEF readShape
      <3>4. readShape(w) = ReadFull(w, q, q.got[2])
        BY <2>1, <3>1, Zenon DEF readShape
      <3>5. Agrees(ReadFull(v, p, p.got[2]), ReadFull(w, q, q.got[2]), n)
        BY <1>2, <3>1, <3>2, CutRead, Zenon
      <3> QED BY <3>1, <3>2, <3>3, <3>4, <3>5, Zenon
    <2>2. CASE ~(p.ok = TRUE /\ p.got[2] \in 1 .. MaxDims)
      <3>1. p.ok = TRUE \/ p.ok = FALSE
        BY <1>2, Zenon DEF Agrees
      <3>2. ~(p.ok /\ p.got[2] \in 1 .. MaxDims)
        BY <2>2, <3>1
      <3>3. readShape(v) = Failed
        BY <3>2, Zenon DEF readShape
      <3>4. readShape(v).ok = FALSE
        BY <3>3 DEF Failed
      <3>5. ~(readShape(v).ok = TRUE)
        BY <3>4
      <3> QED BY <3>3, <3>5, FailedAgrees, Zenon
    <2> QED BY <2>1, <2>2, Zenon
  <1>4. Agrees(readStrides(v), readStrides(w), n)
    <2>1. readShape(v).ok = TRUE => readHead(w).got[2] = readHead(v).got[2] /\ readHead(v).got[2] \in Nat
      BY <1>3
    <2> QED BY <1>3, <2>1, CutRead, Zenon DEF readStrides
  <1>5. Agrees(readName(v), readName(w), n)
    BY <1>4, CutString, Zenon DEF readName
  <1>6. Agrees(readSpan(v), readSpan(w), n)
    <2>1. 2 \in Nat
      OBVIOUS
    <2> QED BY <1>5, <2>1, CutRead, Zenon DEF readSpan
  <1> DEFINE p == readNumCaps(v)
             q == readNumCaps(w)
  <1>7. Agrees(p, q, n)
    <2>1. 1 \in Nat
      OBVIOUS
    <2> QED BY <1>6, <2>1, CutRead, Zenon DEF readNumCaps
  <1>8. p.ok = TRUE => p \in Readers /\ p.got[1] \in Nat
    <2> DEFINE x == readSpan(v)
    <2>1. CASE x.ok = FALSE
      <3>1. p = Failed
        BY <2>1, FailedStays, Zenon DEF readNumCaps
      <3>2. p.ok = FALSE
        BY <3>1 DEF Failed
      <3> QED BY <3>2
    <2>2. CASE x.ok = TRUE
      <3>1. Stands(x)
        BY <1>6, <2>2, Zenon DEF Stands, Agrees
      <3>2. 1 \in Nat
        OBVIOUS
      <3> QED BY <1>1, <3>1, <3>2, LengthRead, ReadType, Zenon DEF readNumCaps
    <2> QED BY <1>6, <2>1, <2>2, Zenon DEF Agrees
  <1>9. Agrees(readCaps(v), readCaps(w), n)
    <2>1. CASE p.ok = TRUE /\ p.got[1] <= MaxCaps
      <3>1. q = p
        BY <1>7, <2>1 DEF Agrees
      <3>2. readCaps(v) = ReadCaps(v, p, p.got[1])
        BY <2>1, Zenon DEF readCaps
      <3>3. readCaps(w) = ReadCaps(w, p, p.got[1])
        BY <2>1, <3>1, Zenon DEF readCaps
      <3> HIDE DEF p, q
      <3>4. Agrees(p, p, n) /\ p \in Readers /\ p.got[1] \in Nat
        BY <1>7, <1>8, <2>1, <3>1
      <3>5. Agrees(ReadCaps(v, p, p.got[1]), ReadCaps(w, p, p.got[1]), n)
        BY <3>4, CutClaims, Zenon
      <3> QED BY <3>2, <3>3, <3>5, Zenon
    <2>2. CASE ~(p.ok = TRUE /\ p.got[1] <= MaxCaps)
      <3>1. p.ok = TRUE \/ p.ok = FALSE
        BY <1>7, Zenon DEF Agrees
      <3>2. ~(p.ok /\ p.got[1] <= MaxCaps)
        BY <2>2, <3>1
      <3>3. readCaps(v) = Failed
        BY <3>2, Zenon DEF readCaps
      <3> QED BY <3>3, FailedAgrees, Zenon
    <2> QED BY <2>1, <2>2, Zenon
  <1> QED BY <1>9, CutString, Zenon DEF readDigest

(* What AttachTensor has checked and attached. *)
LEMMA AttachedIs ==
  ASSUME NEW d \in Descriptors, MessagePayload(d) # Refused
  PROVE  /\ Validate(d) /\ d.caps # <<>> /\ Encoded(d) /\ WithinLimits(d)
         /\ MessagePayload(d).payload = Encode(d) /\ MessagePayload(d).capability = d.caps[1]
  <1>1. Validate(d) /\ d.caps # <<>> /\ Encode(d) # <<>>
    BY Zenon DEF MessagePayload
  <1>2. MessagePayload(d) = [payload |-> Encode(d), capability |-> d.caps[1]]
    BY <1>1, Zenon DEF MessagePayload
  <1>3. MessagePayload(d).payload = Encode(d) /\ MessagePayload(d).capability = d.caps[1]
    BY <1>2
  <1>4. StringsOK(d)
    BY <1>1, Zenon DEF Validate
  <1>5. d \in [dtype : Nat, shape : Seq(Ints), strides : Seq(Ints), shm : Seq(Nat),
               offset : Nat, size : Nat, caps : Seq(Seq(Nat)), digest : Seq(Nat)]
    BY CodecAssumption, Zenon
  <1>6. d.shm \in Seq(Nat) /\ d.digest \in Seq(Nat) /\ d.caps \in Seq(Seq(Nat))
    BY <1>5
  <1>7. DOMAIN d.caps = 1 .. Len(d.caps)
    BY <1>6
  <1>8. PICK P \in Nat : /\ P = 2 ^ LenWidth
                         /\ MaxShmNameLen \in 0 .. P - 1 /\ MaxDigestLen \in 0 .. P - 1 /\ MaxCapLen \in 0 .. P - 1
    BY CodecAssumption
  <1>9. ASSUME NEW n, NEW max \in 0 .. P - 1, n \in Nat, n <= max PROVE n < P
    BY <1>9
  <1>10. Len(d.shm) \in Nat /\ Len(d.shm) <= MaxShmNameLen /\ Len(d.shm) < P
    <2>1. Len(d.shm) \in Nat /\ Len(d.shm) <= MaxShmNameLen
      BY <1>4, <1>6 DEF StringsOK
    <2> QED BY <1>8, <1>9, <2>1, Zenon
  <1>11. Len(d.digest) \in Nat /\ Len(d.digest) <= MaxDigestLen /\ Len(d.digest) < P
    <2>1. d.digest = <<>> \/ d.digest \in Digests
      BY <1>4, Zenon DEF StringsOK
    <2>2. CASE d.digest = <<>>
      <3>1. Len(d.digest) = 0
        BY <2>2
      <3>2. Len(d.digest) \in Nat /\ Len(d.digest) <= MaxDigestLen
        BY <1>8, <3>1
      <3> QED BY <1>8, <1>9, <3>2, Zenon
    <2>3. CASE d.digest \in Digests
      <3>1. Len(d.digest) <= MaxDigestLen
        BY <2>3, CodecAssumption, Zenon
      <3>2. Len(d.digest) \in Nat
        BY <1>6
      <3> QED BY <1>8, <1>9, <3>1, <3>2, Zenon
    <2> QED BY <2>1, <2>2, <2>3, Zenon
  <1>12. ASSUME NEW i \in DOMAIN d.caps PROVE Len(d.caps[i]) <= MaxCapLen /\ Len(d.caps[i]) < P
    <2>1. Len(d.caps[i]) \in 1 .. MaxCapLen
      BY <1>4, <1>7, Zenon DEF StringsOK
    <2>2. Len(d.caps[i]) \in Nat /\ Len(d.caps[i]) <= MaxCapLen
      BY <1>8, <2>1
    <2> QED BY <1>8, <1>9, <2>2, Zenon
  <1>13. WithinLimits(d)
    BY <1>10, <1>11, <1>12, Zenon DEF WithinLimits
  <1>14. ASSUME NEW s \in Strings(d) PROVE Len(s) < 2 ^ LenWidth
    <2>1. s = d.shm \/ s = d.digest \/ \E i \in DOMAIN d.caps : s = d.caps[i]
      BY <1>14, Zenon DEF Strings, Range
    <2> QED BY <1>8, <1>10, <1>11, <1>12, <2>1, Zenon
  <1> QED BY <1>1, <1>3, <1>13, <1>14, Zenon DEF Encoded

(* A descriptor is not the decoder's error. *)
LEMMA NotRefused ==
  ASSUME NEW d \in Descriptors
  PROVE  d # Refused
  <1>1. d \in [dtype : Nat, shape : Seq(Ints), strides : Seq(Ints), shm : Seq(Nat),
               offset : Nat, size : Nat, caps : Seq(Seq(Nat)), digest : Seq(Nat)]
    BY CodecAssumption, Zenon
  <1>2. "dtype" \in DOMAIN d
    BY <1>1
  <1>3. ~("dtype" \in DOMAIN Refused)
    BY DEF Refused
  <1> QED BY <1>2, <1>3, Zenon

(* A part of the payload is refused. *)
LEMMA PartRefused ==
  ASSUME NEW d \in Descriptors, Encoded(d), WithinLimits(d), NEW n \in 0 .. Len(Encode(d)) - 1, NEW c
  PROVE  TensorFromPayload(SubSeq(Encode(d), 1, n), c) = Refused
  <1> DEFINE w == Encode(d)
             v == SubSeq(w, 1, n)
  <1>1. w \in Seq(Nat)
    BY PartsAt, Zenon
  <1>2. Returned(readDigest(w), Len(w), d.digest)
    BY DecoderReads, Zenon DEF ReadsBack
  <1>3. readDigest(w).at = Len(w)
    BY <1>2, ReturnedIs, Zenon
  <1> HIDE DEF w
  <1>4. PICK k \in Nat, m \in Nat : k = n /\ m = Len(w) /\ k < m
    BY <1>1 DEF w
  <1>5. Cut(w, v, k)
    <2>1. ASSUME NEW s \in Seq(Nat), Len(s) = m
          PROVE  /\ SubSeq(s, 1, k) \in Seq(Nat) /\ Len(SubSeq(s, 1, k)) = k
                 /\ \A i \in 1 .. k : SubSeq(s, 1, k)[i] = s[i]
      BY <1>4, <2>1
    <2>2. v = SubSeq(w, 1, k)
      BY <1>4, Zenon
    <2>3. k <= Len(w)
      BY <1>4
    <2> HIDE DEF v
    <2>4. v \in Seq(Nat) /\ Len(v) = k /\ \A i \in 1 .. k : v[i] = w[i]
      BY <1>1, <1>4, <2>1, <2>2, Zenon
    <2> QED BY <1>1, <2>3, <2>4, Zenon DEF Cut
  <1> HIDE DEF v
  <1>6. Agrees(readDigest(v), readDigest(w), k)
    BY <1>5, CutDecode, Zenon
  <1>7. readDigest(v).ok = FALSE
    <2>1. SUFFICES ASSUME readDigest(v).ok = TRUE PROVE FALSE
      BY <1>6, Zenon DEF Agrees
    <2>2. readDigest(w) = readDigest(v) /\ readDigest(v).at <= k
      BY <1>6, <2>1 DEF Agrees
    <2>3. Len(w) <= k
      BY <1>3, <2>2, Zenon
    <2> QED BY <1>4, <2>3
  <1>8. ~readDigest(v).ok
    BY <1>7
  <1>9. DecodeTensor(v) = Refused
    BY <1>8, Zenon DEF DecodeTensor
  <1>10. TensorFromPayload(v, c) = Refused
    BY <1>9, Zenon DEF TensorFromPayload
  <1> QED BY <1>10, Zenon DEF v, w

(* What a message of AttachTensor yields to ExtractTensor is the attached  *)
(* descriptor, for every descriptor and all limits: not with a capability  *)
(* it does not claim, and not from less than the whole payload.            *)
THEOREM MessagesCarryDescriptors == Spec => []MessageCarriesDescriptor
  <1>1. ASSUME NEW d \in Descriptors, MessagePayload(d) # Refused
        PROVE  LET m == MessagePayload(d) IN
               /\ \A c \in Claims :
                   TensorFromPayload(m.payload, c) = IF c \in Range(d.caps) THEN d ELSE Refused
               /\ TensorFromPayload(m.payload, m.capability) = d
               /\ \A n \in 0 .. Len(m.payload) - 1 :
                   TensorFromPayload(SubSeq(m.payload, 1, n), m.capability) = Refused
    <2> DEFINE m == MessagePayload(d)
    <2>1. /\ Validate(d) /\ d.caps # <<>> /\ Encoded(d) /\ WithinLimits(d)
          /\ m.payload = Encode(d) /\ m.capability = d.caps[1]
      BY <1>1, AttachedIs, Zenon
    <2>2. DecodeTensor(m.payload) = d /\ d # Refused
      BY <2>1, DecodesBack, NotRefused, Zenon
    <2>3. \A c : Claimed(d, c) <=> c \in Range(d.caps)
      BY Zenon DEF Claimed, Range
    <2>4. \A c : TensorFromPayload(m.payload, c) = IF c \in Range(d.caps) THEN d ELSE Refused
      BY <2>1, <2>2, <2>3, Zenon DEF TensorFromPayload
    <2>5. m.capability \in Range(d.caps)
      <3>1. d.caps \in Seq(Seq(Nat))
        BY <2>1, DescriptorType, Zenon
      <3>2. 1 \in DOMAIN d.caps
        BY <2>1, <3>1
      <3> QED BY <2>1, <3>2, Zenon DEF Range
    <2>6. \A n \in 0 .. Len(m.payload) - 1 : TensorFromPayload(SubSeq(m.payload, 1, n), m.capability) = Refused
      BY <2>1, PartRefused, Zenon
    <2> QED BY <2>4, <2>5, <2>6, Zenon
  <1>2. LastOffered => MessageCarriesDescriptor
    BY <1>1, Zenon DEF LastOffered, MessageCarriesDescriptor
  <1> QED BY <1>2, AlwaysOffered, PTL
=============================================================================
