---------------------------- MODULE TensorRegistry ----------------------------
(***************************************************************************)
(* protocol/tensor_registry.go: the spans of shared-memory segments that   *)
(* are handed out.  The order of a segment's slice of spans is not         *)
(* observable (Spans sorts), so a segment's spans are a set.               *)
(***************************************************************************)
EXTENDS TensorDescriptor

CONSTANTS
    Segments,       \* the names of shared-memory segments
    Descriptors     \* the descriptors producers register

ASSUME RegistryAssumption ==
    \A d \in Descriptors :
        /\ d.shm \in Segments \cup {<<>>}
        /\ d.shape \in Seq(Ints) /\ d.strides \in Seq(Ints)
        /\ d.offset \in 0 .. MaxUint /\ d.size \in 0 .. MaxUint

VARIABLES
    spans,      \* segment -> its live descriptors
    last        \* the last descriptor offered to Register, and the answer

vars == <<spans, last>>

Nothing == [desc |-> "none", err |-> "none"]

(* The bytes of a segment that d claims. *)
Bytes(d) == d.offset .. (d.offset + d.size - 1)

TypeOK == spans \in [Segments -> SUBSET Descriptors]

Init ==
    /\ spans = [g \in Segments |-> {}]
    /\ last = Nothing

(* Mutations of the definitions below, one per property. *)
Overlaps_contained_only(d, s) == s.offset <= d.offset /\ d.offset + d.size <= s.offset + s.size

(* The intersection test, in uint64 arithmetic. *)
Overlaps(d, s) ==
    /\ d.offset < UInt(s.offset + s.size)
    /\ s.offset < UInt(d.offset + d.size)

(* The checks before the lock is taken. *)
Admits(d) == Validate(d) /\ d.size # 0

Answer(d, err) == last' = [desc |-> d, err |-> err]

Register(d) ==
    \/ /\ ~Admits(d)
       /\ Answer(d, "invalid")
       /\ UNCHANGED spans
    \/ /\ Admits(d)
       /\ \E s \in spans[d.shm] : Overlaps(d, s)
       /\ Answer(d, "overlap")
       /\ UNCHANGED spans
    \/ /\ Admits(d)
       /\ \A s \in spans[d.shm] : ~Overlaps(d, s)
       /\ Answer(d, "ok")
       /\ spans' = [spans EXCEPT ![d.shm] = @ \cup {d}]

(* One span that starts at the offset is removed; false if there is none.  *)
Deregister(g, offset) ==
    /\ \/ \E s \in spans[g] :
            /\ s.offset = offset
            /\ spans' = [spans EXCEPT ![g] = @ \ {s}]
       \/ /\ \A s \in spans[g] : s.offset # offset
          /\ UNCHANGED spans
    /\ last' = Nothing

Next ==
    \/ \E d \in Descriptors : Register(d)
    \/ \E g \in Segments, offset \in {d.offset : d \in Descriptors} : Deregister(g, offset)

Spec == Init /\ [][Next]_vars
-----------------------------------------------------------------------------
(* No byte of a segment belongs to two live spans: the comparison of ends  *)
(* in Register decides exactly whether byte ranges meet, also at the top   *)
(* of the address space.                                                   *)
SpansDisjoint ==
    \A g \in Segments : \A s, t \in spans[g] :
        s # t => Bytes(s) \cap Bytes(t) = {}

(* Register answers "overlap" only if some byte is really taken, so a      *)
(* deregistered span, and one adjacent to a live span, can be registered.  *)
OverlapHasByte ==
    last.err = "overlap" =>
        \E s \in spans[last.desc.shm] : Bytes(s) \cap Bytes(last.desc) # {}

(* Every live span claims at least one byte and starts where no other      *)
(* does, so Deregister by offset is unambiguous.                           *)
OffsetNamesSpan ==
    \A g \in Segments : \A s, t \in spans[g] :
        Bytes(s) # {} /\ (s.offset = t.offset => s = t)

(* A live span of elements of two bytes or more holds every element its    *)
(* shape and strides reach: the guards keep the footprint from wrapping.   *)
WideSpansCover ==
    \A g \in Segments : \A s \in spans[g] : Elem(s) > 1 => s.size >= TrueFootprint(s)

(* The comment on Validate: a descriptor that claims less than its         *)
(* footprint is rejected.                                                  *)
SpansCover == \A g \in Segments : \A s \in spans[g] : s.size >= TrueFootprint(s)
=============================================================================
