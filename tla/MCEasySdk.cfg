CONSTANTS
    c1 = c1
    c2 = c2
    Clients = {c1, c2}
    MaxAccepts = 2
    MaxSeq = 2
SPECIFICATION FairSpec
CHECK_DEADLOCK FALSE
INVARIANTS
    SequencesIncrease
    OpenSocketsHeld
PROPERTIES
    ReceivesEnd
