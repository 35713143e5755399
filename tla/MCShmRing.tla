------------------------------ MODULE MCShmRing ------------------------------
(* Model of ShmRing for TLC: three slots, frames that fit, one that is larger  *)
(* than a slot, and one larger than MaxFrameSize.                            *)
EXTENDS ShmRing

F(id, size) == [id |-> id, size |-> size]
AllFrames == {F("f", 1), F("g", 2), F("large", 5), F("huge", 10)}
=============================================================================
