CONSTANTS
    Slots = 3
    Frames <- AllFrames
    SlotRoom = 4
    MaxFrame = 8
    MaxWrites = 7
SPECIFICATION Spec
INVARIANTS
    LenWithinCapacity
    AcceptedIsStored
PROPERTIES
    RingIsQueue
